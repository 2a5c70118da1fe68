-------------------------- MODULE SubscriptionPayment --------------------------
(***************************************************************************)
(* What the payment flow promises the customer, with no sessions, locks or *)
(* retries: an order is placed once, is settled only by a payment that was *)
(* captured for it, and once it is paid or failed its outcome is final.    *)
(***************************************************************************)
CONSTANTS Orders, Payments

VARIABLES
    outcome,    \* the payment_status column of each order's subscription
    captured    \* the captured payments of each order

avars == <<outcome, captured>>

Outcomes == {"NONE", "PENDING", "PAID", "FAILED"}

Init ==
    /\ outcome = [o \in Orders |-> "NONE"]
    /\ captured = [o \in Orders |-> {}]

Place(o) ==
    /\ outcome[o] = "NONE"
    /\ outcome' = [outcome EXCEPT ![o] = "PENDING"]
    /\ UNCHANGED captured

Capture(o, p) ==
    /\ outcome[o] # "NONE"
    /\ captured' = [captured EXCEPT ![o] = @ \cup {p}]
    /\ UNCHANGED outcome

Settle(o) ==
    /\ outcome[o] = "PENDING"
    /\ captured[o] # {}
    /\ outcome' = [outcome EXCEPT ![o] = "PAID"]
    /\ UNCHANGED captured

GiveUp(o) ==
    /\ outcome[o] = "PENDING"
    /\ outcome' = [outcome EXCEPT ![o] = "FAILED"]
    /\ UNCHANGED captured

Next ==
    \E o \in Orders :
        \/ Place(o) \/ Settle(o) \/ GiveUp(o)
        \/ \E p \in Payments : Capture(o, p)

Spec == Init /\ [][Next]_avars

=============================================================================
