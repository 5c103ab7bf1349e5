--------------------------- MODULE MCKnowledgeJobs ---------------------------
(* An instance of KnowledgeJobs for TLC.                                   *)
EXTENDS KnowledgeJobs

First   == CHOOSE d \in Document : TRUE
Earlier == CHOOSE q \in Request : TRUE

\* Bounds: First is approved first, Earlier is made first; a fault, a newer
\* version or a second request of the owner, not two of them; a charge found
\* stale with none of the three; the stages after the embedding with one
\* worker at a time.
Bounds == /\ jobs' # <<>> => jobs'[1].document = First
          /\ made' # {} => Earlier \in made'
          /\ faults' = 0 \/ replaced' = {}
          /\ made' # Request \/ (faults' = 0 /\ replaced' = {})
          /\ (\E d \in Document : charge[d] = "reserved" /\ charge'[d] = "released"
                                   /\ worker' = worker)
               => faults = 0 /\ replaced = {} /\ made # Request
          /\ \A i \in 1 .. Len(jobs') :
               jobs'[i].type = "hierarchy" /\ jobs'[i].status = "running"
                 => Cardinality({w \in Worker : worker'[w].at # "idle"}) <= 1

MCSpec == Init /\ [][Next /\ Bounds]_vars /\ Fairness
=============================================================================
