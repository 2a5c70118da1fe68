--------------------------- MODULE RazorpayProvider ---------------------------
(***************************************************************************)
(* The payment provider, as far as payment_service.py uses it: orders that *)
(* it creates on request, payments customers make on them, and the state   *)
(* that GET /orders, GET /orders/{id}/payments and GET /payments report.   *)
(* A captured or failed payment can be announced by a webhook at any later *)
(* time, any number of times and in any order, or never, so webhooks need  *)
(* no queue of their own: a payment's state says which may be delivered.   *)
(***************************************************************************)
EXTENDS UserSubscriptions

CONSTANTS
    Price,      \* what the paid plan costs, in paise
    Charged     \* Charged[p]: the amount of payment p

VARIABLES
    orderState,   \* "none", "created", "attempted" or "paid"
    payState,     \* "none", "authorized", "captured" or "failed"
    payOrder      \* the order a payment was made on

providerVars == <<orderState, payState, payOrder>>

OrderStates == {"none", "created", "attempted", "paid"}
PayStates == {"none", "authorized", "captured", "failed"}

ProviderTypeOK ==
    /\ orderState \in [Orders -> OrderStates]
    /\ payState \in [Payments -> PayStates]
    /\ payOrder \in [Payments -> Orders \cup {Nobody}]

ProviderInit ==
    /\ orderState = [o \in Orders |-> "none"]
    /\ payState = [p \in Payments |-> "none"]
    /\ payOrder = [p \in Payments |-> Nobody]

\* POST /orders: the provider answers with a new order id.
ProviderCreatesOrder(o) ==
    /\ orderState[o] = "none"
    /\ orderState' = [orderState EXCEPT ![o] = "created"]
    /\ UNCHANGED <<payState, payOrder>>

\* A customer who was given order o tries to pay it.
CustomerPays(p, o) ==
    /\ orderState[o] \in {"created", "attempted"}
    /\ payState[p] = "none"
    /\ payState' = [payState EXCEPT ![p] = "authorized"]
    /\ payOrder' = [payOrder EXCEPT ![p] = o]
    /\ orderState' = [orderState EXCEPT ![o] = "attempted"]

\* An order is paid by one captured payment.
PaymentCaptured(p) ==
    /\ payState[p] = "authorized"
    /\ orderState[payOrder[p]] = "attempted"
    /\ payState' = [payState EXCEPT ![p] = "captured"]
    /\ orderState' = [orderState EXCEPT ![payOrder[p]] = "paid"]
    /\ UNCHANGED payOrder

PaymentFails(p) ==
    /\ payState[p] = "authorized"
    /\ payState' = [payState EXCEPT ![p] = "failed"]
    /\ UNCHANGED <<orderState, payOrder>>

\* GET /orders/{id}/payments, filtered as both callers filter it.
ReportedPayments(o) ==
    {p \in Payments : payOrder[p] = o /\ payState[p] \in {"captured", "authorized"}}

ValidWhenAuthorized(p, o) ==  \* mutant: an authorization counts as a payment
    /\ p \in ReportedPayments(o)
    /\ Charged[p] = Price

\* What _validate_provider_payment accepts: the payment is of this order,
\* captured, and of the price that was asked.
ValidPayment(p, o) ==
    /\ payOrder[p] = o
    /\ payState[p] = "captured"
    /\ Charged[p] = Price

=============================================================================
