------------------------- MODULE MCSwicoFreeQueue -------------------------
(* Instances of SwicoFreeQueue for TLC. Workers are interchangeable.       *)
EXTENDS SwicoFreeQueue, TLC

WorkerSymmetry == Permutations(Worker)
=============================================================================
