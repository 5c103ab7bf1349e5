------------------------ MODULE FirstComeFirstServed ------------------------
(* What the queue of Swico Free promises the people who wait in it, apart  *)
(* from how job_queue.py keeps it: requests are served one at a time, in   *)
(* the order in which they were accepted. One that has to be served again  *)
(* keeps its place, and one that is over stays so, unless its user has     *)
(* cancelled it, when a worker that did not know may put it back.          *)
EXTENDS Naturals, Sequences

CONSTANTS Request, Cancellable

VARIABLES
    line,   \* the requests, as they were accepted
    served  \* "none", "waiting", "running" or "over"

Waits(r) == served[r] = "waiting"

Older(q, r) == \E i, j \in DOMAIN line : i < j /\ line[i] = q /\ line[j] = r

Becomes(r, status) == served' = [served EXCEPT ![r] = status]

Init ==
    /\ line = <<>>
    /\ served = [r \in Request |-> "none"]

Accept(r) ==
    /\ served[r] = "none"
    /\ line' = Append(line, r)
    /\ Becomes(r, "waiting")

Serve(r) ==
    /\ Waits(r)
    /\ \A q \in Request : served[q] # "running" /\ (Older(q, r) => ~Waits(q))
    /\ Becomes(r, "running")
    /\ UNCHANGED line

Again(r) ==
    /\ served[r] = "running"
    /\ Becomes(r, "waiting")
    /\ UNCHANGED line

End(r) ==
    /\ served[r] \in {"waiting", "running"}
    /\ served[r] = "waiting" => r \in Cancellable
    /\ Becomes(r, "over")
    /\ UNCHANGED line

PutBack(r) ==
    /\ served[r] = "over"
    /\ r \in Cancellable
    /\ Becomes(r, "waiting")
    /\ UNCHANGED line

Next == \E r \in Request : Accept(r) \/ Serve(r) \/ Again(r) \/ End(r) \/ PutBack(r)

Spec == Init /\ [][Next]_<<line, served>>
=============================================================================
