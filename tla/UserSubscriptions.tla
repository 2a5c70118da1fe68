-------------------------- MODULE UserSubscriptions --------------------------
(***************************************************************************)
(* The user_subscriptions table: its rows, the queries the services make   *)
(* on it, and the two partial unique indexes the database enforces.  An    *)
(* owner is one user in one role, which is the scope of both indexes.  A   *)
(* row is named after the Razorpay order it was created for, and the row   *)
(* that holds an owner's default plan is named after the owner.            *)
(***************************************************************************)
EXTENDS FiniteSets

CONSTANTS
    Owners,     \* users, each in one role
    Orders,     \* Razorpay orders, one user_subscriptions row each
    Payments,   \* Razorpay payments
    Nobody,     \* the owner of a row that does not exist
    NoPayment   \* a NULL razorpay_payment_id

ASSUME TableAssumption ==
    /\ Owners \cap Orders = {}
    /\ Nobody \notin Owners
    /\ NoPayment \notin Payments

Rows == Orders \cup Owners

Statuses == {"NONE", "PENDING", "ACTIVE", "EXPIRED", "PAYMENT_FAILED"}
PaymentStatuses == {"NONE", "PENDING", "PAID", "FAILED", "FREE"}

\* "over" stands for utcnow() > end_date.
Row == [owner : Owners \cup {Nobody}, status : Statuses, pay : PaymentStatuses,
        payId : Payments \cup {NoPayment}, over : BOOLEAN]

NoRow == [owner |-> Nobody, status |-> "NONE", pay |-> "NONE",
          payId |-> NoPayment, over |-> FALSE]

PendingRow(u) == [owner |-> u, status |-> "PENDING", pay |-> "PENDING",
                  payId |-> NoPayment, over |-> FALSE]

DefaultRow(u) == [owner |-> u, status |-> "ACTIVE", pay |-> "FREE",
                  payId |-> NoPayment, over |-> FALSE]

-----------------------------------------------------------------------------
\* Queries on a table t \in [Rows -> Row].

ActiveOf(t, u) == {r \in Rows : t[r].owner = u /\ t[r].status = "ACTIVE"}

PendingOf(t, u) ==
    {o \in Orders : /\ t[o].owner = u
                    /\ t[o].status = "PENDING"
                    /\ t[o].pay = "PENDING"}

PaidDuplicatesOf(t, u, keep) ==  \* mutant: the default plan is not a duplicate
    (ActiveOf(t, u) \cap Orders) \ {keep}

OthersOf(t, u, keep) ==  \* mutant: whatever their status
    {r \in Rows : t[r].owner = u /\ t[r].status # "NONE"} \ {keep}

\* The rows a completed payment for row keep expires.
DuplicatesOf(t, u, keep) == ActiveOf(t, u) \ {keep}

-----------------------------------------------------------------------------
\* The partial unique indexes, as the condition under which a write that
\* makes row r ACTIVE, or inserts r as PENDING, is accepted.

ActiveIndexAccepts(t, u, r) == ActiveOf(t, u) \subseteq {r}
PendingIndexAccepts(t, u, r) == PendingOf(t, u) \subseteq {r}

=============================================================================
