----------------------------- MODULE MCVideoJobs -----------------------------
(* Instances of VideoJobs for TLC: two users who do not pay, whose videos  *)
(* compete for the node, or one who does.                                  *)
EXTENDS VideoJobs

Payer == CHOOSE j \in Job : TRUE

MCInit == Init /\ paying \in {{}, {Payer}}

\* Bounds: who pays is alone; a fault and an answer of the node that is late
\* happen to who pays, and not both.
Bounds == IF paying = {} THEN UNCHANGED <<faults, late>>
          ELSE /\ \A j \in Job \ paying : job'[j].state = "none"
               /\ late' # Idle => faults' = [crashes |-> 0, losses |-> 0]

MCSpec == MCInit /\ [][Next /\ Bounds]_vars /\ Fairness
=============================================================================
