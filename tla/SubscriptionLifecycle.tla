------------------------- MODULE SubscriptionLifecycle -------------------------
(***************************************************************************)
(* app/service/subscription/user_subscription_service.py: what owners and  *)
(* administrators do to the subscriptions of one user in one role.  Every  *)
(* operation reads a row, decides, and writes later in one transaction;    *)
(* nothing locks the row in between, and the UPDATE names only the columns *)
(* whose value differs from the one that was read.  Payments are seen from *)
(* outside, as steps of their own: SubscriptionRows says which, and        *)
(* RazorpayPayments that they are all.                                     *)
(***************************************************************************)
EXTENDS SubscriptionRows, Naturals, FiniteSets

CONSTANTS
    Sessions,      \* request sessions
    Ops,           \* the operations in play
    MaxDeletions,  \* bound: renewal announcements of a row that are deleted
    NoRow          \* the row of a session that has none

ASSUME LifecycleAssumption ==
    /\ NoRow \notin Rows
    /\ MaxDeletions \in Nat

Operations == {"lookup", "assign", "renew", "cancel", "change", "suspend", "resume",
               "expire", "payment"}

Statuses == {"NONE", "PENDING", "ACTIVE", "SUSPENDED", "CANCELLED", "EXPIRED", "PAYMENT_FAILED"}
Final == {"CANCELLED"}

\* VALID_STATUS_TRANSITIONS; NONE is a row not inserted yet.
ValidTransitions ==
    [NONE |-> {"ACTIVE", "PENDING"},
     ACTIVE |-> {"SUSPENDED", "CANCELLED", "EXPIRED"},
     SUSPENDED |-> {"ACTIVE", "CANCELLED", "EXPIRED"},
     EXPIRED |-> {"ACTIVE"},
     PENDING |-> {"ACTIVE", "CANCELLED", "PAYMENT_FAILED"},
     PAYMENT_FAILED |-> {"ACTIVE", "CANCELLED"},
     CANCELLED |-> {}]

VARIABLES
    renewed,   \* RENEWED history rows of each row
    keys,      \* event keys of the notifications that exist
    deleted,   \* history: renewal announcements of each row that were deleted
    pc, job    \* what each session is doing

vars == <<row, renewed, keys, deleted, pc, job>>

Row == [status : Statuses, over : BOOLEAN]
Steps == {"idle", "expire", "ensure", "insert", "write"}
Job == [op : Operations \cup {"none"}, row : Rows \cup {NoRow}, seen : Row]
NoJob == [op |-> "none", row |-> NoRow, seen |-> [status |-> "NONE", over |-> FALSE]]

TypeOK ==
    /\ row \in [Rows -> Row]
    /\ renewed \in [Rows -> Nat]
    /\ keys \subseteq Rows \X {"expired", "renewed"}
    /\ deleted \in [Rows -> 0..MaxDeletions]
    /\ pc \in [Sessions -> Steps]
    /\ job \in [Sessions -> Job]

Init ==
    /\ row = [r \in Rows |-> [status |-> "NONE", over |-> FALSE]]
    /\ renewed = [r \in Rows |-> 0]
    /\ keys = {}
    /\ deleted = [r \in Rows |-> 0]
    /\ pc = [s \in Sessions |-> "idle"]
    /\ job = [s \in Sessions |-> NoJob]

-----------------------------------------------------------------------------
IndexOff(r, status) == TRUE  \* mutant: no unique index
\* uq_user_subscriptions_one_active_role, when the status of r is written.
IndexAccepts(r, status) == status = "ACTIVE" => Active \subseteq {r}

LapsedAnyway(seen) == seen.status = "ACTIVE"  \* mutant: the end date is not looked at
Lapsed(seen) == seen.status = "ACTIVE" /\ seen.over

NeverAnnounced(r, event) == FALSE  \* mutant: the key is not unique
AnnouncedOfAny(r, event) == \E x \in Rows : <<x, event>> \in keys  \* mutant: the key names the owner
\* uq_notifications_recipient_event_key refuses a second announcement while the
\* first exists.
Announced(r, event) == <<r, event>> \in keys

Finish(s) ==
    /\ pc' = [pc EXCEPT ![s] = "idle"]
    /\ job' = [job EXCEPT ![s] = NoJob]

Goto(s, step) == pc' = [pc EXCEPT ![s] = step]

\* The status column after a session that read seen set it to status.
Written(r, seen, status) == IF seen.status = status THEN row[r].status ELSE status

-----------------------------------------------------------------------------
\* What an operation does with the row it read, once it is not lapsed.

Renewable(seen) == seen.status \notin Final \cup {"SUSPENDED"}

Target(op) == [cancel |-> "CANCELLED", suspend |-> "SUSPENDED", resume |-> "ACTIVE",
               expire |-> "EXPIRED"][op]

TransitionsUnchecked(seen, op) == seen.status # Target(op)  \* mutant: only a no-op is refused
Allowed(seen, op) == Target(op) \in ValidTransitions[seen.status]

NextStep(op, seen) ==
    CASE op = "lookup" -> "ensure"
      [] op = "assign" -> "insert"
      [] op = "change" /\ seen.status \in Final -> "insert"
      [] OTHER -> "write"

\* The operation reads row r and passes its checks.
Begin(s, op, r) ==
    /\ op \in Ops
    /\ pc[s] = "idle"
    /\ job' = [job EXCEPT ![s] = [op |-> op, row |-> r, seen |-> row[r]]]
    /\ Goto(s, IF op \in {"lookup", "assign", "renew", "change"} /\ Lapsed(row[r])
               THEN "expire" ELSE NextStep(op, row[r]))
    /\ UNCHANGED <<row, renewed, keys, deleted>>

\* get_active_subscription and the permission checks; a user who has no
\* active row is given the default plan.
LookUp(s) ==
    \/ \E r \in Active : Lapsed(row[r]) /\ Begin(s, "lookup", r)
    \/ /\ Active = {}
       /\ "lookup" \in Ops
       /\ pc[s] = "idle"
       /\ Goto(s, "insert")
       /\ job' = [job EXCEPT ![s].op = "lookup"]
       /\ UNCHANGED <<row, renewed, keys, deleted>>

\* assign_subscription and subscribe_self refuse while a plan is running.
Assign(s) ==
    \/ \E r \in Active : Lapsed(row[r]) /\ Begin(s, "assign", r)
    \/ /\ Active = {}
       /\ "assign" \in Ops
       /\ pc[s] = "idle"
       /\ Goto(s, "insert")
       /\ job' = [job EXCEPT ![s].op = "assign"]
       /\ UNCHANGED <<row, renewed, keys, deleted>>

Renew(s, r) ==
    /\ r \in Existing
    /\ Renewable(row[r])
    /\ Begin(s, "renew", r)

\* change_subscription, unless another row of the role is active.
Change(s, r) ==
    /\ r \in Existing
    /\ Active \subseteq {r}
    /\ Begin(s, "change", r)

\* cancel_subscription, and update_status for the other three.
SetStatus(s, op, r) ==
    /\ r \in Existing
    /\ Allowed(row[r], op)
    /\ Begin(s, op, r)

-----------------------------------------------------------------------------
\* _expire_if_needed: the status, the history row and the announcement in one
\* commit, which fails when the announcement's key exists.
Expire(s) ==
    LET r == job[s].row IN
    /\ pc[s] = "expire"
    /\ \/ /\ Announced(r, "expired")
          /\ Finish(s)
          /\ UNCHANGED <<row, keys>>
       \/ /\ ~Announced(r, "expired")
          /\ PlanExpires(r)
          /\ keys' = keys \cup {<<r, "expired">>}
          /\ job' = [job EXCEPT ![s].seen = row'[r]]
          /\ Goto(s, NextStep(job[s].op, row'[r]))
    /\ UNCHANGED <<renewed, deleted>>

\* ensure_user_subscription, up to its insert.
Ensure(s) ==
    /\ pc[s] = "ensure"
    /\ \/ /\ Active = {}
          /\ Goto(s, "insert")
          /\ UNCHANGED job
       \/ /\ Active # {}
          /\ Finish(s)
    /\ UNCHANGED <<row, renewed, keys, deleted>>

\* A new ACTIVE row: the default plan, an assigned one, or the one that
\* replaces a final row.  A second active row is refused.
Insert(s) ==
    /\ pc[s] = "insert"
    /\ \E r \in Rows \ Existing :
         row' = IF IndexAccepts(r, "ACTIVE")
                THEN [row EXCEPT ![r].status = "ACTIVE"]
                ELSE row
    /\ Finish(s)
    /\ UNCHANGED <<renewed, keys, deleted>>

\* The flush, the history row, the announcement and the commit of a renewal.
CommitRenewal(s) ==
    LET r == job[s].row
        status == Written(r, job[s].seen, "ACTIVE")
        refused == ~IndexAccepts(r, status) \/ Announced(r, "renewed")
    IN
    /\ pc[s] = "write"
    /\ job[s].op = "renew"
    /\ \/ /\ refused
          /\ UNCHANGED <<row, renewed, keys>>
       \/ /\ ~refused
          /\ row' = [row EXCEPT ![r] = [status |-> status, over |-> FALSE]]
          /\ renewed' = [renewed EXCEPT ![r] = @ + 1]
          /\ keys' = keys \cup {<<r, "renewed">>}
    /\ Finish(s)
    /\ UNCHANGED deleted

CommitChange(s) ==
    LET r == job[s].row
        status == Written(r, job[s].seen, "ACTIVE")
    IN
    /\ pc[s] = "write"
    /\ job[s].op = "change"
    /\ row' = IF IndexAccepts(r, status)
              THEN [row EXCEPT ![r] = [status |-> status, over |-> FALSE]]
              ELSE row
    /\ Finish(s)
    /\ UNCHANGED <<renewed, keys, deleted>>

\* The commit of a cancellation or status update.  A row that is resumed
\* after its period gets a new one.  One that is expired gets the default
\* plan in the same transaction, unless another row of the user is active:
\* then update_status returns that row, and nothing is committed.
CommitStatus(s) ==
    LET r == job[s].row
        target == Target(job[s].op)
        over == row[r].over /\ ~(target = "ACTIVE" /\ job[s].seen.over)
        set == [row EXCEPT ![r] = [status |-> target, over |-> over]]
    IN
    /\ pc[s] = "write"
    /\ job[s].op \in {"cancel", "suspend", "resume", "expire"}
    /\ \/ /\ target # "EXPIRED"
          /\ row' = IF IndexAccepts(r, target) THEN set ELSE row
       \/ /\ target = "EXPIRED"
          /\ \/ Active \ {r} # {} /\ UNCHANGED row
             \/ /\ Active \subseteq {r}
                /\ \E d \in Rows \ Existing : row' = [set EXCEPT ![d].status = "ACTIVE"]
    /\ Finish(s)
    /\ UNCHANGED <<renewed, keys, deleted>>

-----------------------------------------------------------------------------
\* What the payment flow does to these rows.
PaymentCommits ==
    /\ "payment" \in Ops
    /\ PaymentActs
    /\ UNCHANGED <<renewed, keys, deleted, pc, job>>

Lapse(r) ==
    /\ row[r].status \in {"ACTIVE", "SUSPENDED"}
    /\ PeriodEnds(r)
    /\ UNCHANGED <<renewed, keys, deleted, pc, job>>

\* The owner deletes a notification, which frees its key; several at once
\* (delete_many, clear_read_for_user) are several of these.
NotificationDeleted(r, event) ==
    /\ <<r, event>> \in keys
    /\ keys' = keys \ {<<r, event>>}
    /\ \/ /\ event = "renewed"
          /\ deleted[r] < MaxDeletions
          /\ deleted' = [deleted EXCEPT ![r] = @ + 1]
       \/ /\ event # "renewed"
          /\ UNCHANGED deleted
    /\ UNCHANGED <<row, renewed, pc, job>>

Arrive(s) ==
    \/ LookUp(s) \/ Assign(s)
    \/ \E r \in Rows :
         \/ Renew(s, r) \/ Change(s, r)
         \/ \E op \in {"cancel", "suspend", "resume", "expire"} : SetStatus(s, op, r)

Handle(s) ==
    \/ Expire(s) \/ Ensure(s) \/ Insert(s)
    \/ CommitRenewal(s) \/ CommitChange(s) \/ CommitStatus(s)

\* A request is cut off; the transaction it had open is rolled back.
Interrupted(s) ==
    /\ pc[s] # "idle"
    /\ Finish(s)
    /\ UNCHANGED <<row, renewed, keys, deleted>>

Next ==
    \/ \E s \in Sessions : Arrive(s) \/ Handle(s) \/ Interrupted(s)
    \/ PaymentCommits
    \/ \E r \in Rows : Lapse(r)
    \/ \E r \in Rows, event \in {"expired", "renewed"} : NotificationDeleted(r, event)

Spec == Init /\ [][Next]_vars

\* Fairness: a request goes on or is cut off, the owner asks for the plan again
\* and again, and an expiry that nothing refuses is not cut off every time.
\* Nobody has to renew, resume or delete anything.
LookupFairness ==
    \A s \in Sessions :
        /\ WF_vars(Handle(s) \/ Interrupted(s))
        /\ SF_vars(LookUp(s))
        /\ SF_vars(Expire(s) /\ keys' # keys)

-----------------------------------------------------------------------------
\* A user has at most one active subscription in a role, whatever assignments,
\* renewals, changes, payments and default plans race: the services' checks
\* are all stale by the time they write.
OneActivePlan == Cardinality(Active) <= 1

\* The renewals recorded of a row are the announced ones: those whose
\* announcement was deleted, and one more while an announcement stands.  A
\* renewal that finds the last one still announced is lost whole, and one that
\* goes through never loses its announcement, whatever renewals and deletions
\* come between its check and its commit.
RenewedAsAnnounced ==
    \A r \in Rows :
        renewed[r] = deleted[r] + (IF <<r, "renewed">> \in keys THEN 1 ELSE 0)

\* A request changes a status along VALID_STATUS_TRANSITIONS, whatever it does
\* on the way (expire, renew, replace), unless another session or a payment
\* has changed the row since the request read it.
LegalUnlessDisturbed ==
    [][\A s \in Sessions :
         LET r == job[s].row IN
         /\ pc[s] \in {"expire", "write"}
         /\ Handle(s)
         /\ row[r].status = job[s].seen.status
         => row'[r].status \in ValidTransitions[row[r].status] \cup {row[r].status}]_vars

\* A plan whose period still runs is only ended by one who means to end it (a
\* cancellation, suspension or expiry that is asked for, or a payment of another
\* plan), or by a lookup, renewal or change that read it when its period was
\* over, and so before the row was given the period it loses
\* (_expire_if_needed).  A renewal, change or resumption never sets it back.
Running(r) == row[r].status = "ACTIVE" /\ ~row[r].over

RunningEndsOnPurpose ==
    [][\A r \in Rows :
         Running(r) /\ ~Running(r)' =>
            \/ PaymentCommits \/ Lapse(r)
            \/ \E s \in Sessions :
                 /\ Handle(s)
                 /\ job[s].row = r
                 /\ \/ pc[s] = "write" /\ job[s].op \in {"cancel", "suspend", "expire"}
                    \/ pc[s] = "expire" /\ job[s].seen.over]_vars

\* A renewal that reaches its commit and is accepted by the index renews the
\* subscription: its announcement does not undo it.
NotificationNeverInterrupts ==
    [][\A s \in Sessions :
         CommitRenewal(s) /\ IndexAccepts(job[s].row, "ACTIVE") =>
             renewed'[job[s].row] = renewed[job[s].row] + 1]_vars

\* A lapsed plan is expired in the end for an owner who keeps asking for it,
\* unless an earlier expiry of the same row is still announced: a row that
\* expired, was renewed or resumed and has lapsed again fails at every lookup
\* (_expire_if_needed) until its owner deletes that notification.
LapsedEventuallyExpired ==
    \A r \in Rows :
        Lapsed(row[r]) /\ <<r, "expired">> \notin keys ~> ~Lapsed(row[r])

=============================================================================
