---------------------------- MODULE MCSubscriptions ----------------------------
(***************************************************************************)
(* A user's subscriptions and the catalogue of plans side by side.  The    *)
(* lifecycle asks of a plan only that it is active and of a role, so the   *)
(* two share no state here: which of them moves is chosen at the start.    *)
(* Where payments come in, only operations that act on a row they have     *)
(* read take part: lookups beside payments are in RazorpayPayments too.    *)
(* Where notifications are deleted, only operations that announce, or give *)
(* a row that has expired a new period.                                    *)
(***************************************************************************)
EXTENDS SubscriptionLifecycle, PlanCatalogue, TLC

VARIABLE moving

subscriptionVars == <<moving, vars, planVars>>

\* A default plan, another one, one that is switched off, and a default plan
\* of another type.
SomeRevisions ==
    {DefaultRow, [DefaultRow EXCEPT !.default = FALSE],
     [DefaultRow EXCEPT !.default = FALSE, !.active = FALSE],
     [DefaultRow EXCEPT !.type = "OTHER"]}

Announcing == {"none", "lookup", "renew", "resume"}
BesidePayments == {"none", "renew", "suspend", "resume", "expire"}

SideBySideInit ==
    /\ moving \in {"rows", "announced rows", "paid rows", "plans"}
    /\ Init /\ PlansInit

SideBySideNext ==
    /\ UNCHANGED moving
    /\ \/ /\ moving = "rows"
          /\ Next /\ ~PaymentCommits
          /\ keys \subseteq keys'
          /\ UNCHANGED planVars
       \/ /\ moving = "announced rows"
          /\ Next /\ ~PaymentCommits
          /\ \A s \in Sessions : job'[s].op \in Announcing
          /\ UNCHANGED planVars
       \/ /\ moving = "paid rows"
          /\ Next
          /\ keys \subseteq keys'
          /\ \A s \in Sessions : job'[s].op \in BesidePayments
          /\ UNCHANGED planVars
       \/ /\ moving = "plans"
          /\ PlansNext
          /\ UNCHANGED vars

SideBySideSpec == SideBySideInit /\ [][SideBySideNext]_subscriptionVars

\* The owner keeps asking while notifications are deleted.
AnnouncedInit == SideBySideInit /\ moving = "announced rows"
AnnouncedSpec == AnnouncedInit /\ [][SideBySideNext]_subscriptionVars /\ LookupFairness

\* Both modules are given the same set of sessions.
Interchangeable == Permutations(Rows) \cup Permutations(Sessions)

=============================================================================
