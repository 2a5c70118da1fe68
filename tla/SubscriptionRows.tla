--------------------------- MODULE SubscriptionRows ---------------------------
(***************************************************************************)
(* The subscription rows of one user in one role, as one commit after      *)
(* another changes them: where the payment flow (RazorpayPayments) and     *)
(* everything else that is done to subscriptions (SubscriptionLifecycle)   *)
(* meet.  The lifecycle takes OrderPlaced, OrderFails and OrderPaid for    *)
(* all that payments ever do to its rows; RazorpayPayments keeps to them.  *)
(* A late failure or a completion was decided on a row that was PENDING    *)
(* when it was read, and the row may be anything when it is written.       *)
(***************************************************************************)
CONSTANT Rows    \* user_subscriptions rows of one user in one role

VARIABLE row     \* status of each row, and whether its period is over

Active == {r \in Rows : row[r].status = "ACTIVE"}
Existing == {r \in Rows : row[r].status # "NONE"}

OrderPlaced(r) ==
    /\ row[r].status = "NONE"
    /\ row' = [row EXCEPT ![r] = [status |-> "PENDING", over |-> FALSE]]

OrderFails(r) ==
    /\ r \in Existing
    /\ row' = [row EXCEPT ![r].status = "PAYMENT_FAILED"]

\* The order's row gets its period, and every other plan is expired with it.
OrderPaid(r) ==
    /\ r \in Existing
    /\ row' = [x \in Rows |->
                 IF x = r THEN [status |-> "ACTIVE", over |-> FALSE]
                 ELSE IF x \in Active THEN [row[x] EXCEPT !.status = "EXPIRED"]
                 ELSE row[x]]

PaymentActs == \E r \in Rows : OrderPlaced(r) \/ OrderFails(r) \/ OrderPaid(r)

\* What the lookups of both do: a plan that was read as lapsed is expired, and
\* one is started where none runs.
PlanExpires(r) ==
    /\ r \in Existing
    /\ row' = [row EXCEPT ![r].status = "EXPIRED"]

PlanStarts(r) ==
    /\ Active = {}
    /\ row' = [row EXCEPT ![r] = [status |-> "ACTIVE", over |-> FALSE]]

LookUpActs == \E r \in Rows : PlanExpires(r) \/ PlanStarts(r)

\* Time passes the end of a row's period.
PeriodEnds(r) ==
    /\ ~row[r].over
    /\ row' = [row EXCEPT ![r].over = TRUE]

TimePasses == \E r \in Rows : PeriodEnds(r)

=============================================================================
