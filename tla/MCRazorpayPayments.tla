-------------------------- MODULE MCRazorpayPayments --------------------------
(***************************************************************************)
(* Values for the constants of RazorpayPayments that a .cfg cannot write.  *)
(***************************************************************************)
EXTENDS RazorpayPayments, TLC

\* Every payment is of the asked price, or every payment but one.
AsAsked == [p \in Payments |-> Price]
OneShort == LET short == CHOOSE p \in Payments : TRUE
            IN [p \in Payments |-> IF p = short THEN Price - 1 ELSE Price]

\* Orders and request sessions are interchangeable; so are payments of the
\* same amount.
Interchangeable == Permutations(Orders) \cup Permutations(Requests)

=============================================================================
