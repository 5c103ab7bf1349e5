------------------------ MODULE MCUsageReservation ------------------------
(* Instances of UsageReservation for TLC. Requests are model values that   *)
(* nothing orders, so safety runs identify states up to their permutation. *)
EXTENDS UsageReservation, TLC

RequestSymmetry == Permutations(Request)
=============================================================================
