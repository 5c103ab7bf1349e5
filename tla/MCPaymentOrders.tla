-------------------------- MODULE MCPaymentOrders --------------------------
(* Instances of PaymentOrders for TLC.                                     *)
EXTENDS PaymentOrders, TLC

\* Refunds of equal amounts are interchangeable.
RefundSymmetry == Permutations(Refund)
=============================================================================
