------------------------- MODULE SwicoFreeQueue_proofs -------------------------
(* Proofs about SwicoFreeQueue, for every set of requests and workers and   *)
(* every bound.                                                            *)
EXTENDS SwicoFreeQueue, SequenceTheorems, TLAPS

USE DEF Active, Waiting, Terminal, Charges, Steps, Outcomes

\* What a worker turns to next is a thing a worker may be doing.
LEMMA DoTypes ==
    ASSUME worker \in [Worker -> Doing],
           NEW w \in Worker, NEW at \in Steps, NEW r \in Request \cup {None},
           NEW outcome \in Outcomes
    PROVE  /\ Do(w, at, r, outcome) => worker' \in [Worker -> Doing]
           /\ worker' = [worker EXCEPT ![w] = Resting] => worker' \in [Worker -> Doing]
<1>1. [at |-> at, request |-> r, outcome |-> outcome, signal |-> FALSE] \in Doing
  BY DEF Doing
<1>2. Resting \in Doing
  BY DEF Resting, Doing
<1>3. Do(w, at, r, outcome) => worker' \in [Worker -> Doing]
  BY <1>1 DEF Do
<1>4. worker' = [worker EXCEPT ![w] = Resting] => worker' \in [Worker -> Doing]
  BY <1>2
<1>5. QED BY <1>3, <1>4

\* A worker that is neither idle nor looking has a job.
LEMMA HasJob ==
    ASSUME TypeOK, WorkersKnow, NEW w \in Worker,
           worker[w].at \notin {"idle", "looked"}
    PROVE  worker[w].request \in Request /\ worker[w].outcome \in Outcomes
BY DEF TypeOK, WorkersKnow, Doing

\* A release leaves every charge in a status of charges.
LEMMA ReleasedTypes ==
    ASSUME TypeOK, NEW r \in Request
    PROVE  Released(r) \in [Request -> Charges]
<1>1. charge \in [Request -> Charges]
  BY DEF TypeOK
<1>2. QED BY <1>1 DEF Released

\* The head of the line is a request.
LEMMA FirstTypes ==
    ASSUME TypeOK, NEW places \in SUBSET DOMAIN line
    PROVE  First(places) \subseteq Request
BY DEF TypeOK, First

\* Type correctness: the steps of the clients' calls keep it.
LEMMA ClientsKeepTypes ==
    ASSUME TypeOK, NEW r \in Request,
           \/ Admit(r) \/ Refuse(r) \/ Enqueue(r) \/ Abandon(r)
           \/ CancelRead(r) \/ CancelWrite(r)
           \/ \E w \in Worker : CancelRunning(r, w)
           \/ Age(r) \/ RunAt(r)
    PROVE  TypeOK'
<1>1. CASE Admit(r)
  BY <1>1, BoundsAssumption DEF Admit, TypeOK, Opened
<1>2. CASE Refuse(r)
  BY <1>2, BoundsAssumption DEF Refuse, TypeOK, Released
<1>3. CASE Enqueue(r)
  <2>1. line' \in Seq(Request)
    <3>1. line \in Seq(Request)
      BY DEF TypeOK
    <3>2. Append(line, r) \in Seq(Request)
      BY <3>1, AppendProperties
    <3>3. line' = Append(line, r) \/ line' = line
      BY <1>3 DEF Enqueue
    <3>4. QED BY <3>1, <3>2, <3>3
  <2>2. QED BY <1>3, <2>1, BoundsAssumption DEF Enqueue, TypeOK
<1>4. CASE Abandon(r)
  BY <1>4, BoundsAssumption DEF Abandon, TypeOK
<1>5. CASE CancelRead(r)
  BY <1>5, BoundsAssumption DEF CancelRead, TypeOK
<1>6. CASE CancelWrite(r)
  BY <1>6, BoundsAssumption DEF CancelWrite, TypeOK
<1>7. CASE \E w \in Worker : CancelRunning(r, w)
  <2>1. PICK w \in Worker : CancelRunning(r, w)
    BY <1>7
  <2>2. worker' \in [Worker -> Doing]
    <3>1. worker \in [Worker -> Doing]
      BY DEF TypeOK
    <3>2. worker' = [worker EXCEPT ![w] = [worker[w] EXCEPT !.signal = TRUE]]
      BY <2>1 DEF CancelRunning
    <3>3. [worker[w] EXCEPT !.signal = TRUE] \in Doing
      BY <3>1 DEF Doing
    <3>4. QED BY <3>1, <3>2, <3>3
  <2>3. QED BY <2>1, <2>2 DEF CancelRunning, TypeOK
<1>8. CASE Age(r)
  BY <1>8, BoundsAssumption DEF Age, TypeOK
<1>9. CASE RunAt(r)
  BY <1>9, BoundsAssumption DEF RunAt, TypeOK
<1> QED BY <1>1, <1>2, <1>3, <1>4, <1>5, <1>6, <1>7, <1>8, <1>9

\* The steps of the workers keep it.
LEMMA WorkersKeepTypes ==
    ASSUME TypeOK, WorkersKnow, NEW w \in Worker, Work(w) \/ Crash(w)
    PROVE  TypeOK'
<1>1. CASE \E r \in Request : SeeStale(w, r)
  <2>1. PICK r \in Request : SeeStale(w, r)
    BY <1>1
  <2>2. worker' \in [Worker -> Doing]
    BY <2>1, DoTypes DEF SeeStale, TypeOK
  <2>3. QED BY <2>1, <2>2 DEF SeeStale, TypeOK
<1>2. CASE Requeue(w)
  <2>1. worker[w].request \in Request /\ worker[w].outcome \in {"queued", "completed"}
    BY <1>2, HasJob DEF Requeue, WorkersKnow
  <2>2. worker' \in [Worker -> Doing]
    BY <1>2, DoTypes DEF Requeue, TypeOK
  <2>3. QED BY <1>2, <2>1, <2>2 DEF Requeue, TypeOK
<1>3. CASE Look(w)
  <2>1. worker' \in [Worker -> Doing]
    BY <1>3, DoTypes DEF Look, TypeOK
  <2>2. QED BY <1>3, <2>1 DEF Look, TypeOK
<1>4. CASE Pick(w)
  <2>1. First(InLine) \subseteq Request
    BY FirstTypes DEF InLine
  <2>2. worker' \in [Worker -> Doing]
    BY <1>4, <2>1, DoTypes DEF Pick, TypeOK
  <2>3. QED BY <1>4, <2>2 DEF Pick, TypeOK
<1>5. CASE Claim(w)
  <2>1. worker[w].request \in Request
    BY <1>5, HasJob DEF Claim
  <2>2. worker' \in [Worker -> Doing]
    BY <1>5, <2>1, DoTypes DEF Claim, TypeOK
  <2>3. QED BY <1>5, <2>1, <2>2 DEF Claim, TypeOK
<1>6. CASE Start(w)
  <2>1. worker[w].request \in Request
    BY <1>6, HasJob DEF Start
  <2>2. worker' \in [Worker -> Doing]
    BY <1>6, <2>1, DoTypes DEF Start, End, TypeOK
  <2>3. QED BY <1>6, <2>2 DEF Start, TypeOK
<1>7. CASE Prepare(w)
  <2>1. worker[w].request \in Request
    BY <1>7, HasJob DEF Prepare
  <2>2. worker' \in [Worker -> Doing]
    BY <1>7, <2>1, DoTypes DEF Prepare, End, TypeOK
  <2>3. QED BY <1>7, <2>1, <2>2 DEF Prepare, Opened, TypeOK
<1>8. CASE PrepareFails(w)
  <2>1. worker[w].request \in Request
    BY <1>8, HasJob DEF PrepareFails
  <2>2. worker' \in [Worker -> Doing]
    BY <1>8, <2>1, DoTypes DEF PrepareFails, End, TypeOK
  <2>3. QED BY <1>8, <2>2 DEF PrepareFails, TypeOK
<1>9. CASE \E got \in {"partial", "complete"} : Generate(w, got)
  <2>1. PICK got \in {"partial", "complete"} : Generate(w, got)
    BY <1>9
  <2>2. worker[w].request \in Request
    BY <2>1, HasJob DEF Generate
  <2>3. worker' \in [Worker -> Doing]
    BY <2>1, <2>2, DoTypes DEF Generate, End, TypeOK
  <2>4. charge' \in [Request -> Charges]
    <3>1. \/ charge' = [charge EXCEPT ![worker[w].request] = "free"]
          \/ charge' = Released(worker[w].request)
      BY <2>1 DEF Generate
    <3>2. charge \in [Request -> Charges]
      BY DEF TypeOK
    <3>3. Released(worker[w].request) \in [Request -> Charges]
      BY <2>2, ReleasedTypes
    <3>4. QED BY <2>2, <3>1, <3>2, <3>3
  <2>5. answer' \in [Request -> {"none", "partial", "complete"}]
    <3>1. answer' = [answer EXCEPT ![worker[w].request] = got] \/ answer' = answer
      BY <2>1 DEF Generate
    <3>2. answer \in [Request -> {"none", "partial", "complete"}]
      BY DEF TypeOK
    <3>3. QED BY <2>2, <3>1, <3>2
  <2>6. QED BY <2>1, <2>3, <2>4, <2>5 DEF Generate, TypeOK
<1>10. CASE Busy(w) \/ Fail(w) \/ Stop(w)
  <2>1. worker[w].request \in Request
    BY <1>10, HasJob DEF Busy, Fail, Stop
  <2>2. worker' \in [Worker -> Doing]
    BY <1>10, <2>1, DoTypes DEF Busy, Fail, Stop, End, TypeOK
  <2>3. charge' \in [Request -> Charges]
    <3>1. charge' = Released(worker[w].request)
      BY <1>10 DEF Busy, Fail, Stop
    <3>2. QED BY <2>1, <3>1, ReleasedTypes
  <2>4. QED BY <1>10, <2>2, <2>3 DEF Busy, Fail, Stop, TypeOK
<1>11. CASE Finish(w)
  <2>1. /\ worker[w].request \in Request
        /\ worker[w].outcome \in Outcomes
    BY <1>11, HasJob DEF Finish
  <2>2. worker' \in [Worker -> Doing]
    BY <1>11, DoTypes DEF Finish, TypeOK
  <2>3. QED BY <1>11, <2>1, <2>2 DEF Finish, Written, TypeOK
<1>12. CASE Crash(w)
  <2>1. worker' \in [Worker -> Doing]
    BY <1>12, DoTypes DEF Crash, TypeOK
  <2>2. QED BY <1>12, <2>1, BoundsAssumption DEF Crash, TypeOK
<1> QED BY <1>1, <1>2, <1>3, <1>4, <1>5, <1>6, <1>7, <1>8, <1>9, <1>10, <1>11, <1>12 DEF Work

-----------------------------------------------------------------------------
(* The invariant.                                                          *)

IInv == TypeOK /\ WorkersKnow /\ CompletedIsAnswered /\ AnsweredIsSettled

\* With no job there is no answer and nothing a worker could know.
LEMMA InitHolds == Init => IInv
<1>1. Init => TypeOK
  BY BoundsAssumption, EmptySeq DEF Init, TypeOK, Doing, Resting
<1>2. Init => WorkersKnow /\ CompletedIsAnswered /\ AnsweredIsSettled
  BY DEF Init, WorkersKnow, CompletedIsAnswered, AnsweredIsSettled, Resting
<1>3. QED BY <1>1, <1>2 DEF IInv

\* A step that leaves what workers do, answers and cancellations alone leaves
\* them knowing what they knew.
LEMMA ClientsKeepInv ==
    ASSUME IInv, NEW r \in Request,
           \/ Admit(r) \/ Refuse(r) \/ Enqueue(r) \/ Abandon(r)
           \/ CancelRead(r) \/ CancelWrite(r)
           \/ \E w \in Worker : CancelRunning(r, w)
           \/ Age(r) \/ RunAt(r)
    PROVE  WorkersKnow' /\ CompletedIsAnswered' /\ AnsweredIsSettled'
<1> USE DEF IInv, TypeOK
<1>1. CASE Admit(r)
  BY <1>1 DEF Admit, Opened, WorkersKnow, CompletedIsAnswered, AnsweredIsSettled
<1>2. CASE Refuse(r)
  BY <1>2 DEF Refuse, Released, WorkersKnow, CompletedIsAnswered, AnsweredIsSettled
<1>3. CASE Enqueue(r)
  BY <1>3 DEF Enqueue, WorkersKnow, CompletedIsAnswered, AnsweredIsSettled
<1>4. CASE Abandon(r)
  BY <1>4 DEF Abandon, WorkersKnow, CompletedIsAnswered, AnsweredIsSettled
<1>5. CASE CancelRead(r)
  BY <1>5 DEF CancelRead, WorkersKnow, CompletedIsAnswered, AnsweredIsSettled
<1>6. CASE CancelWrite(r)
  BY <1>6 DEF CancelWrite, WorkersKnow, CompletedIsAnswered, AnsweredIsSettled
<1>7. CASE \E w \in Worker : CancelRunning(r, w)
  BY <1>7 DEF CancelRunning, Doing, WorkersKnow, CompletedIsAnswered, AnsweredIsSettled
<1>8. CASE Age(r)
  BY <1>8 DEF Age, WorkersKnow, CompletedIsAnswered, AnsweredIsSettled
<1>9. CASE RunAt(r)
  BY <1>9 DEF RunAt, WorkersKnow, CompletedIsAnswered, AnsweredIsSettled
<1> QED BY <1>1, <1>2, <1>3, <1>4, <1>5, <1>6, <1>7, <1>8, <1>9

\* What a worker turns to keeps WorkersKnow, if it has seen what it must.
LEMMA TurnKeepsKnowledge ==
    ASSUME TypeOK, WorkersKnow,
           NEW w \in Worker, NEW at \in Steps, NEW r \in Request \cup {None},
           NEW outcome \in Outcomes \ {"stopped"},
           Do(w, at, r, outcome),
           at \notin {"idle", "looked"} => r \in Request,
           at = "recovering" => outcome \in {"queued", "completed"},
           outcome = "completed" => r \in Request /\ answer'[r] # "none",
           \A q \in Request : answer[q] # "none" => answer'[q] # "none",
           canceller' = canceller
    PROVE  WorkersKnow'
<1>1. worker'[w] = [at |-> at, request |-> r, outcome |-> outcome, signal |-> FALSE]
  BY DEF Do, TypeOK
<1>2. \A v \in Worker \ {w} : worker'[v] = worker[v]
  BY DEF Do, TypeOK
<1>3. ASSUME NEW v \in Worker
      PROVE  /\ worker'[v].at \notin {"idle", "looked"} => worker'[v].request \in Request
             /\ worker'[v].at = "recovering"
                   => worker'[v].outcome \in {"queued", "completed"}
             /\ worker'[v].outcome = "completed"
                   => /\ worker'[v].request \in Request
                      /\ answer'[worker'[v].request] # "none"
             /\ worker'[v].signal \/ worker'[v].outcome = "stopped"
                   => worker'[v].request \in Cancellable
  <2>1. CASE v = w
    BY <1>1, <2>1
  <2>2. CASE v # w
    BY <1>2, <2>2 DEF WorkersKnow
  <2>3. QED BY <2>1, <2>2
<1>4. QED BY <1>3 DEF WorkersKnow

\* A worker that rests knows nothing that could be wrong.
LEMMA RestKeepsKnowledge ==
    ASSUME TypeOK, WorkersKnow, NEW w \in Worker,
           worker' = [worker EXCEPT ![w] = Resting],
           answer' = answer, canceller' = canceller
    PROVE  WorkersKnow'
BY DEF TypeOK, WorkersKnow, Resting

\* Workers complete a job only with the answer they have seen, and an answer is
\* not taken back.
LEMMA WorkersKeepInv ==
    ASSUME IInv, NEW w \in Worker, Work(w) \/ Crash(w)
    PROVE  WorkersKnow' /\ CompletedIsAnswered' /\ AnsweredIsSettled'
<1> USE DEF IInv, TypeOK
<1>1. CASE \E r \in Request : SeeStale(w, r)
  BY <1>1 DEF SeeStale, Do, Doing, WorkersKnow, CompletedIsAnswered, AnsweredIsSettled
<1>2. CASE Requeue(w)
  BY <1>2 DEF Requeue, Resting, Doing, WorkersKnow, CompletedIsAnswered, AnsweredIsSettled
<1>3. CASE Look(w)
  BY <1>3 DEF Look, Do, Doing, WorkersKnow, CompletedIsAnswered, AnsweredIsSettled
<1>4. CASE Pick(w)
  <2>1. First(InLine) \subseteq Request
    BY FirstTypes DEF InLine
  <2>2. WorkersKnow'
    BY <1>4, <2>1, TurnKeepsKnowledge, RestKeepsKnowledge DEF Pick
  <2>3. QED BY <1>4, <2>2 DEF Pick, CompletedIsAnswered, AnsweredIsSettled
<1>5. CASE Claim(w)
  <2>1. worker[w].request \in Request
    BY <1>5, HasJob DEF Claim
  <2>2. WorkersKnow'
    BY <1>5, <2>1, TurnKeepsKnowledge, RestKeepsKnowledge DEF Claim
  <2>3. QED BY <1>5, <2>1, <2>2 DEF Claim, CompletedIsAnswered, AnsweredIsSettled
<1>6. CASE Start(w)
  <2>1. worker[w].request \in Request
    BY <1>6, HasJob DEF Start
  <2>2. WorkersKnow'
    BY <1>6, <2>1, TurnKeepsKnowledge DEF Start, End
  <2>3. QED BY <1>6, <2>2 DEF Start, CompletedIsAnswered, AnsweredIsSettled
<1>7. CASE Prepare(w)
  <2>1. worker[w].request \in Request
    BY <1>7, HasJob DEF Prepare
  <2>2. WorkersKnow'
    BY <1>7, <2>1, TurnKeepsKnowledge DEF Prepare, End
  <2>3. QED BY <1>7, <2>1, <2>2 DEF Prepare, Opened, CompletedIsAnswered, AnsweredIsSettled
<1>8. CASE PrepareFails(w)
  BY <1>8 DEF PrepareFails, Do, End, Doing, WorkersKnow, CompletedIsAnswered, AnsweredIsSettled
<1>9. CASE \E got \in {"partial", "complete"} : Generate(w, got)
  <2>1. PICK got \in {"partial", "complete"} : Generate(w, got)
    BY <1>9
  <2> DEFINE r == worker[w].request
  <2>2. r \in Request
    BY <2>1, HasJob DEF Generate
  <2>3. CASE /\ charge[r] = "free_pending"
             /\ answer[r] = "none"
             /\ answer' = [answer EXCEPT ![r] = got]
             /\ charge' = [charge EXCEPT ![r] = "free"]
             /\ End(w, "completed")
    <3>1. WorkersKnow'
      <4>1. answer'[r] # "none" /\ \A q \in Request : answer[q] # "none" => answer'[q] # "none"
        BY <2>1, <2>2, <2>3
      <4>2. canceller' = canceller /\ Do(w, "finishing", r, "completed")
        BY <2>1, <2>3 DEF Generate, End
      <4>3. QED BY <2>2, <4>1, <4>2, TurnKeepsKnowledge
    <3>2. CompletedIsAnswered'
      BY <2>1, <2>2, <2>3 DEF Generate, CompletedIsAnswered
    <3>3. AnsweredIsSettled'
      BY <2>1, <2>2, <2>3 DEF Generate, AnsweredIsSettled
    <3>4. QED BY <3>1, <3>2, <3>3
  <2>4. CASE /\ charge[r] # "free_pending" \/ answer[r] # "none"
             /\ charge' = Released(r)
             /\ End(w, "failed")
             /\ UNCHANGED answer
    <3>1. WorkersKnow'
      BY <2>1, <2>2, <2>4, TurnKeepsKnowledge DEF Generate, End
    <3>2. QED BY <2>1, <2>2, <2>4, <3>1 DEF Generate, Released, CompletedIsAnswered, AnsweredIsSettled
  <2>5. QED BY <2>1, <2>3, <2>4 DEF Generate
<1>10. CASE Busy(w)
  BY <1>10 DEF Busy, Do, End, Released, Doing, WorkersKnow, CompletedIsAnswered, AnsweredIsSettled
<1>11. CASE Fail(w)
  BY <1>11 DEF Fail, Do, End, Released, Doing, WorkersKnow, CompletedIsAnswered, AnsweredIsSettled
<1>12. CASE Stop(w)
  BY <1>12 DEF Stop, Do, End, Released, Doing, WorkersKnow, CompletedIsAnswered, AnsweredIsSettled
<1>13. CASE Finish(w)
  BY <1>13 DEF Finish, Written, Resting, Doing, WorkersKnow, CompletedIsAnswered, AnsweredIsSettled
<1>14. CASE Crash(w)
  BY <1>14 DEF Crash, Resting, Doing, WorkersKnow, CompletedIsAnswered, AnsweredIsSettled
<1> QED BY <1>1, <1>2, <1>3, <1>4, <1>5, <1>6, <1>7, <1>8, <1>9, <1>10, <1>11, <1>12, <1>13, <1>14 DEF Work

\* Each step of chat_stream, a cancellation, the recovery or a worker keeps the
\* invariant.
LEMMA StepKeepsInv == IInv /\ [Next]_vars => IInv'
<1> SUFFICES ASSUME IInv, [Next]_vars
             PROVE  IInv'
  OBVIOUS
<1>1. CASE \E r \in Request :
              \/ Admit(r) \/ Refuse(r) \/ Enqueue(r) \/ Abandon(r)
              \/ CancelRead(r) \/ CancelWrite(r)
              \/ \E w \in Worker : CancelRunning(r, w)
              \/ Age(r) \/ RunAt(r)
  BY <1>1, ClientsKeepTypes, ClientsKeepInv DEF IInv
<1>2. CASE \E w \in Worker : Work(w) \/ Crash(w)
  BY <1>2, WorkersKeepTypes, WorkersKeepInv DEF IInv
<1>3. CASE UNCHANGED vars
  BY <1>3 DEF IInv, TypeOK, WorkersKnow, CompletedIsAnswered, AnsweredIsSettled, vars
<1>4. QED BY <1>1, <1>2, <1>3 DEF Next

\* The invariant of the queue, from which the two theorems below follow.
LEMMA InvHolds == Spec => []IInv
<1>1. Init => IInv
  BY InitHolds
<1>2. IInv /\ [Next]_vars => IInv'
  BY StepKeepsInv
<1>3. QED BY <1>1, <1>2, PTL DEF Spec

\* A completed job has an answer to show, with any number of workers and
\* generations of a job, crashes, cancellations and repeated posts
\* (_process_one, _stale_recovery and _handle_swico_free_chat).
THEOREM CompletedAnswered == Spec => []CompletedIsAnswered
<1>1. IInv => CompletedIsAnswered
  BY DEF IInv
<1>2. QED BY <1>1, InvHolds, PTL

\* An answer is persisted exactly when the charge is settled, and stays so, of
\* every request that its user does not cancel (execute_web_turn,
\* settle_swico_free_usage and release_swico_free_usage).
THEOREM AnsweredSettled == Spec => []AnsweredIsSettled
<1>1. IInv => AnsweredIsSettled
  BY DEF IInv
<1>2. QED BY <1>1, InvHolds, PTL

-----------------------------------------------------------------------------
(* One worker: one job at a time, in the order of the line. (Two workers    *)
(* may both see that no job runs before either of them claims one.)        *)

\* Type correctness: every status that is written is one that readers know
\* (job_queue.py, Job.status).
THEOREM TypeCorrect == Spec => []TypeOK
<1>1. IInv => TypeOK
  BY DEF IInv
<1>2. QED BY <1>1, InvHolds, PTL

\* A deployment whose old instance has stopped has one queue thread.
OneWorker == \A v, w \in Worker : v = w

\* The steps at which a worker has a job that it claimed or found stale.
Holding == {"recovering", "claimed", "preparing", "generating", "finishing"}

OlderInLine(q, r) == \E i, j \in DOMAIN line : i < j /\ line[i] = q /\ line[j] = r

\* What a worker has looked up stays true until it claims: no job runs, and no
\* job before the head of the line waits.
LookedUp(w) ==
    /\ worker[w].at \in {"looked", "picked"} => \A r \in Request : job[r] # "running"
    /\ worker[w].at = "picked"
          => \A q \in Request : OlderInLine(q, worker[w].request) => job[q] \notin Waiting

\* The job of a worker runs, unless its user has cancelled it.
HoldsRunning(w) ==
    worker[w].at \in Holding
       => \/ job[worker[w].request] = "running"
          \/ job[worker[w].request] = "cancelled" /\ worker[w].request \in Cancellable

\* The request a worker has picked has a job.
PickedIsAccepted(w) == worker[w].at = "picked" => job[worker[w].request] # "none"

\* A request is in the line once, and those in it have a job for good.
LineIsAccepted ==
    /\ \A i, j \in DOMAIN line : line[i] = line[j] => i = j
    /\ \A i \in DOMAIN line : job[line[i]] # "none"
    /\ \A r \in Request : canceller[r] # "none" => job[r] # "none"

Turns ==
    /\ OneRunning
    /\ LineIsAccepted
    /\ \A w \in Worker : LookedUp(w) /\ PickedIsAccepted(w) /\ HoldsRunning(w)

\* An empty queue is in turn.
LEMMA InitTurns == Init => Turns
BY EmptySeq DEF Init, Turns, OneRunning, LineIsAccepted, LookedUp, PickedIsAccepted,
           HoldsRunning, Holding, Resting

\* What Append does to the places of a line.
LEMMA Appended ==
    ASSUME NEW s \in Seq(Request), NEW r \in Request
    PROVE  /\ DOMAIN s = 1 .. Len(s) /\ Len(s) \in Nat
           /\ DOMAIN Append(s, r) = 1 .. (Len(s) + 1)
           /\ \A i \in DOMAIN s : i \in DOMAIN Append(s, r) /\ Append(s, r)[i] = s[i]
           /\ Append(s, r)[Len(s) + 1] = r
           /\ \A i \in DOMAIN Append(s, r) : i \notin DOMAIN s => i = Len(s) + 1
<1>1. Append(s, r) \in Seq(Request)
  BY AppendProperties
<1>2. Len(Append(s, r)) = Len(s) + 1 /\ Append(s, r)[Len(s) + 1] = r
      /\ \A i \in 1 .. Len(s) : Append(s, r)[i] = s[i]
  BY AppendProperties
<1>3. DOMAIN s = 1 .. Len(s) /\ Len(s) \in Nat /\ DOMAIN Append(s, r) = 1 .. (Len(s) + 1)
  BY <1>1, <1>2, LenProperties
<1>4. QED BY <1>2, <1>3

\* A new job joins the end of the line, and is older than none that is in it.
LEMMA EnqueueKeepsTurns ==
    ASSUME IInv, Turns, NEW r \in Request, Enqueue(r), job[r] = "none"
    PROVE  /\ LineIsAccepted'
           /\ \A p, q \in Request : job[q] # "none" /\ OlderInLine(p, q)' => OlderInLine(p, q)
<1>1. line \in Seq(Request) /\ job \in [Request -> Active \cup Terminal \cup {"none"}]
  BY DEF IInv, TypeOK
<1>2. line' = Append(line, r) /\ job' = [job EXCEPT ![r] = "queued"] /\ canceller' = canceller
  BY DEF Enqueue
<1>3. \A i \in DOMAIN line : line[i] \in Request /\ line[i] # r
  BY <1>1, ElementOfSeq, LenProperties DEF Turns, LineIsAccepted
<1>4. /\ \A i \in DOMAIN line : i \in DOMAIN line' /\ line'[i] = line[i]
      /\ \A i \in DOMAIN line' : i \notin DOMAIN line => i = Len(line) + 1
      /\ line'[Len(line) + 1] = r
      /\ DOMAIN line = 1 .. Len(line) /\ Len(line) \in Nat
      /\ DOMAIN line' = 1 .. (Len(line) + 1)
  BY <1>1, <1>2, Appended
<1>5. LineIsAccepted'
  <2>1. \A i, j \in DOMAIN line' : line'[i] = line'[j] => i = j
    BY <1>3, <1>4 DEF Turns, LineIsAccepted
  <2>2. \A i \in DOMAIN line' : job'[line'[i]] # "none"
    BY <1>1, <1>2, <1>3, <1>4 DEF Turns, LineIsAccepted
  <2>3. \A q \in Request : canceller'[q] # "none" => job'[q] # "none"
    BY <1>1, <1>2 DEF Turns, LineIsAccepted
  <2>4. QED BY <2>1, <2>2, <2>3 DEF LineIsAccepted
<1>6. ASSUME NEW p \in Request, NEW q \in Request, job[q] # "none", OlderInLine(p, q)'
      PROVE  OlderInLine(p, q)
  <2>1. PICK i, j \in DOMAIN line' : i < j /\ line'[i] = p /\ line'[j] = q
    BY <1>6 DEF OlderInLine
  <2>2. j \in DOMAIN line
    BY <1>4, <1>6, <2>1
  <2>3. i \in DOMAIN line
    BY <1>4, <2>1, <2>2
  <2>4. QED BY <1>4, <2>1, <2>2, <2>3 DEF OlderInLine
<1>7. QED BY <1>5, <1>6

\* The calls of clients: a cancellation ends a job whatever it has become, and
\* the line only grows.
LEMMA ClientsKeepTurns ==
    ASSUME IInv, Turns, NEW r \in Request,
           \/ Admit(r) \/ Refuse(r) \/ Enqueue(r) \/ Abandon(r)
           \/ CancelRead(r) \/ CancelWrite(r)
           \/ \E w \in Worker : CancelRunning(r, w)
           \/ Age(r) \/ RunAt(r)
    PROVE  Turns'
<1> USE DEF IInv, TypeOK
<1>1. CASE Admit(r) \/ Refuse(r) \/ Abandon(r) \/ Age(r) \/ RunAt(r)
  <2>1. UNCHANGED <<job, line, canceller, worker>>
    BY <1>1 DEF Admit, Refuse, Abandon, Age, RunAt
  <2>2. QED BY <2>1 DEF Turns, OneRunning, LineIsAccepted, LookedUp, HoldsRunning, OlderInLine, PickedIsAccepted
<1>2. CASE Enqueue(r) /\ job[r] = "none"
  <2>1. job' = [job EXCEPT ![r] = "queued"] /\ worker' = worker
    BY <1>2 DEF Enqueue
  <2>2. OneRunning'
    BY <2>1 DEF Turns, OneRunning
  <2>3. ASSUME NEW w \in Worker
        PROVE  LookedUp(w)' /\ HoldsRunning(w)'
    <3>1. worker[w].at \in {"looked", "picked"} => \A q \in Request : job'[q] # "running"
      BY <2>1 DEF Turns, LookedUp
    <3>2. ASSUME worker[w].at = "picked", NEW q \in Request,
                 OlderInLine(q, worker[w].request)'
          PROVE  job'[q] \notin Waiting
      <4>1. worker[w].request \in Request
        BY <3>2, HasJob
      <4>2. job[worker[w].request] # "none"
        <5>1. PICK i, j \in DOMAIN line' : i < j /\ line'[i] = q /\ line'[j] = worker[w].request
          BY <3>2, <2>1 DEF OlderInLine
        <5>2. PickedIsAccepted(w)
          BY <3>2 DEF Turns
        <5>3. QED BY <3>2, <5>2 DEF PickedIsAccepted
      <4>3. OlderInLine(q, worker[w].request)
        <5>1. PICK p \in Request : p = worker[w].request
          BY <4>1
        <5>2. OlderInLine(q, p)'
          BY <3>2, <5>1, <2>1
        <5>3. QED BY <1>2, <4>2, <5>1, <5>2, EnqueueKeepsTurns
      <4>4. job[q] # "none"
        BY <4>3, ElementOfSeq DEF OlderInLine, Turns, LineIsAccepted
      <4>5. job[q] \notin Waiting
        BY <3>2, <4>3 DEF Turns, LookedUp
      <4>6. QED BY <1>2, <2>1, <4>4, <4>5
    <3>3. HoldsRunning(w)'
      BY <1>2, <2>1, HasJob DEF Turns, HoldsRunning, Holding
    <3>4. QED BY <2>1, <3>1, <3>2, <3>3 DEF LookedUp
  <2>4. LineIsAccepted'
    BY <1>2, EnqueueKeepsTurns
  <2>5. ASSUME NEW w \in Worker PROVE PickedIsAccepted(w)'
    BY <2>1 DEF Turns, PickedIsAccepted
  <2>6. QED BY <2>2, <2>3, <2>4, <2>5 DEF Turns
<1>3. CASE Enqueue(r) /\ job[r] # "none"
  <2>1. UNCHANGED <<job, line, canceller, worker>>
    BY <1>3 DEF Enqueue
  <2>2. QED BY <2>1 DEF Turns, OneRunning, LineIsAccepted, LookedUp, HoldsRunning, OlderInLine, PickedIsAccepted
<1>4. CASE CancelRead(r)
  <2>1. UNCHANGED <<job, line, worker>> /\ job[r] # "none"
        /\ canceller' = [canceller EXCEPT ![r] = charge[r]]
    BY <1>4 DEF CancelRead
  <2>2. QED BY <2>1 DEF Turns, OneRunning, LineIsAccepted, LookedUp, HoldsRunning, OlderInLine, PickedIsAccepted
<1>5. CASE CancelWrite(r)
  <2>1. /\ job' = [job EXCEPT ![r] = "cancelled"]
        /\ r \in Cancellable
        /\ canceller' = [canceller EXCEPT ![r] = "none"]
        /\ UNCHANGED <<line, worker>>
    BY <1>5 DEF CancelWrite, WorkersKnow
  <2>2. OneRunning' /\ LineIsAccepted'
    BY <2>1, ElementOfSeq DEF Turns, OneRunning, LineIsAccepted
  <2>3. ASSUME NEW w \in Worker
        PROVE  LookedUp(w)' /\ HoldsRunning(w)' /\ PickedIsAccepted(w)'
    BY <2>1 DEF Turns, LookedUp, HoldsRunning, PickedIsAccepted, OlderInLine
  <2>4. QED BY <2>2, <2>3 DEF Turns
<1>6. CASE \E w \in Worker : CancelRunning(r, w)
  <2>1. PICK w \in Worker : CancelRunning(r, w)
    BY <1>6
  <2>2. UNCHANGED <<job, line, canceller>>
    BY <2>1 DEF CancelRunning
  <2>3. \A v \in Worker : worker'[v].at = worker[v].at /\ worker'[v].request = worker[v].request
    BY <2>1 DEF CancelRunning, Doing
  <2>4. OneRunning' /\ LineIsAccepted'
    BY <2>2 DEF Turns, OneRunning, LineIsAccepted
  <2>5. ASSUME NEW v \in Worker
        PROVE  LookedUp(v)' /\ PickedIsAccepted(v)' /\ HoldsRunning(v)'
    <3>1. worker'[v].at = worker[v].at /\ worker'[v].request = worker[v].request
      BY <2>3
    <3>2. LookedUp(v) /\ PickedIsAccepted(v) /\ HoldsRunning(v)
      BY DEF Turns
    <3>3. LookedUp(v)'
      BY <2>2, <3>1, <3>2 DEF LookedUp, OlderInLine
    <3>4. PickedIsAccepted(v)' /\ HoldsRunning(v)'
      BY <2>2, <3>1, <3>2 DEF PickedIsAccepted, HoldsRunning
    <3>5. QED BY <3>3, <3>4
  <2>6. QED BY <2>4, <2>5 DEF Turns
<1>7. QED BY <1>1, <1>2, <1>3, <1>4, <1>5, <1>6

\* A step of the only worker that leaves the jobs alone: what it turns to fits
\* the jobs.
LEMMA TurnKeepsTurns ==
    ASSUME OneWorker, TypeOK, Turns,
           NEW w \in Worker, NEW at \in Steps, NEW r \in Request \cup {None},
           NEW outcome \in Outcomes,
           Do(w, at, r, outcome),
           UNCHANGED <<job, line, canceller>>,
           at \in {"looked", "picked"} => \A q \in Request : job[q] # "running",
           at = "picked" => job[r] # "none" /\ \A q \in Request : OlderInLine(q, r) => job[q] \notin Waiting,
           at \in Holding => job[r] = "running" \/ (job[r] = "cancelled" /\ r \in Cancellable)
    PROVE  Turns'
<1>1. worker'[w].at = at /\ worker'[w].request = r
  BY DEF Do, TypeOK
<1>2. LookedUp(w)' /\ PickedIsAccepted(w)' /\ HoldsRunning(w)'
  BY <1>1 DEF LookedUp, PickedIsAccepted, HoldsRunning, OlderInLine
<1>3. OneRunning' /\ LineIsAccepted'
  BY DEF Turns, OneRunning, LineIsAccepted
<1>4. \A v \in Worker : v = w
  BY DEF OneWorker
<1>5. QED BY <1>2, <1>3, <1>4 DEF Turns

\* When the only worker rests, the jobs have to be right and nothing else.
LEMMA RestKeepsTurns ==
    ASSUME OneWorker, TypeOK, NEW w \in Worker,
           worker' = [worker EXCEPT ![w] = Resting],
           OneRunning', LineIsAccepted'
    PROVE  Turns'
<1>1. worker'[w].at = "idle"
  BY DEF TypeOK, Resting
<1>2. LookedUp(w)' /\ PickedIsAccepted(w)' /\ HoldsRunning(w)'
  BY <1>1 DEF LookedUp, PickedIsAccepted, HoldsRunning, Holding
<1>3. \A v \in Worker : v = w
  BY DEF OneWorker
<1>4. QED BY <1>2, <1>3 DEF Turns

\* A job that stops running, or goes from one status to another, keeps the
\* line and the jobs right.
LEMMA WrittenKeepsJobs ==
    ASSUME IInv, Turns, NEW r \in Request, NEW status,
           status \notin {"none", "running"},
           job' = [job EXCEPT ![r] = status],
           UNCHANGED <<line, canceller>>
    PROVE  OneRunning' /\ LineIsAccepted'
<1>1. job \in [Request -> Active \cup Terminal \cup {"none"}] /\ line \in Seq(Request)
  BY DEF IInv, TypeOK
<1>2. \A i \in DOMAIN line : line[i] \in Request
  BY <1>1, ElementOfSeq, LenProperties
<1>3. \A q \in Request : job'[q] = IF q = r THEN status ELSE job[q]
  BY <1>1
<1>4. QED BY <1>2, <1>3 DEF Turns, OneRunning, LineIsAccepted

\* The head of the line waits, and nothing before it does.
LEMMA HeadIsFirst ==
    ASSUME IInv, Turns, NEW r \in First(InLine)
    PROVE  /\ r \in Request
           /\ job[r] \in Waiting
           /\ \A q \in Request : OlderInLine(q, r) => job[q] \notin Waiting
<1>1. PICK i \in InLine : r = line[i] /\ \A j \in InLine : i <= j
  BY DEF First
<1>2. line \in Seq(Request) /\ DOMAIN line = 1 .. Len(line) /\ Len(line) \in Nat
  BY LenProperties DEF IInv, TypeOK
<1>3. i \in DOMAIN line /\ job[line[i]] \in Waiting
  BY DEF InLine
<1>4. r \in Request
  BY <1>1, <1>2, <1>3, ElementOfSeq
<1>5. ASSUME NEW q \in Request, OlderInLine(q, r), job[q] \in Waiting
      PROVE  FALSE
  <2>1. PICK k, m \in DOMAIN line : k < m /\ line[k] = q /\ line[m] = r
    BY <1>5 DEF OlderInLine
  <2>2. m = i
    BY <1>1, <1>3, <2>1 DEF Turns, LineIsAccepted
  <2>3. k \in InLine
    BY <1>5, <2>1 DEF InLine
  <2>4. i <= k
    BY <1>1, <2>3
  <2>5. QED BY <1>2, <2>1, <2>2, <2>4
<1>6. QED BY <1>1, <1>3, <1>4, <1>5

\* The steps of the only worker: it claims a job when none runs, which is the
\* oldest that waits, and it has one job at a time.
LEMMA WorkersKeepTurns ==
    ASSUME OneWorker, IInv, Turns, NEW w \in Worker, Work(w) \/ Crash(w)
    PROVE  Turns'
<1> DEFINE r == worker[w].request
<1>0. /\ TypeOK /\ WorkersKnow
      /\ OneRunning /\ LineIsAccepted
      /\ LookedUp(w) /\ PickedIsAccepted(w) /\ HoldsRunning(w)
  BY DEF IInv, Turns
<1>1. CASE \E q \in Request : SeeStale(w, q)
  <2>1. PICK q \in Request : SeeStale(w, q)
    BY <1>1
  <2>2. QED BY <1>0, <2>1, TurnKeepsTurns DEF SeeStale
<1>2. CASE Requeue(w)
  <2>1. r \in Request /\ worker[w].outcome \in {"queued", "completed"}
    BY <1>0, <1>2, HasJob DEF Requeue, WorkersKnow
  <2>2. OneRunning' /\ LineIsAccepted'
    BY <1>2, <2>1, WrittenKeepsJobs DEF Requeue
  <2>3. QED BY <1>0, <1>2, <2>2, RestKeepsTurns DEF Requeue
<1>3. CASE Look(w)
  BY <1>0, <1>3, TurnKeepsTurns DEF Look, Holding
<1>4. CASE Pick(w)
  <2>1. UNCHANGED <<job, line, canceller>> /\ \A q \in Request : job[q] # "running"
    BY <1>0, <1>4 DEF Pick, LookedUp
  <2>2. CASE \E q \in First(InLine) \cap due : Do(w, "picked", q, "queued")
    <3>1. PICK q \in First(InLine) : Do(w, "picked", q, "queued")
      BY <2>2
    <3>2. /\ q \in Request /\ job[q] # "none"
          /\ \A p \in Request : OlderInLine(p, q) => job[p] \notin Waiting
      BY HeadIsFirst
    <3>3. QED BY <1>0, <2>1, <3>1, <3>2, TurnKeepsTurns DEF Holding
  <2>3. CASE worker' = [worker EXCEPT ![w] = Resting]
    <3>1. OneRunning' /\ LineIsAccepted'
      BY <1>0, <2>1 DEF OneRunning, LineIsAccepted
    <3>2. QED BY <1>0, <2>3, <3>1, RestKeepsTurns
  <2>4. QED BY <1>4, <2>2, <2>3 DEF Pick
<1>5. CASE Claim(w)
  <2>1. r \in Request /\ UNCHANGED <<line, canceller>>
    BY <1>0, <1>5, HasJob DEF Claim
  <2>2. CASE job' = [job EXCEPT ![r] = "running"] /\ Do(w, "claimed", r, "queued")
    <3>1. \A q \in Request : job[q] # "running"
      BY <1>0, <1>5 DEF Claim, LookedUp
    <3>2. \A q \in Request : job'[q] = IF q = r THEN "running" ELSE job[q]
      BY <1>0, <2>2 DEF TypeOK
    <3>3. OneRunning'
      BY <3>1, <3>2 DEF OneRunning
    <3>4. LineIsAccepted'
      <4>1. \A i \in DOMAIN line : line[i] \in Request
        BY <1>0, ElementOfSeq, LenProperties DEF TypeOK
      <4>2. QED BY <1>0, <2>1, <3>2, <4>1 DEF LineIsAccepted
    <3>5. worker'[w].at = "claimed" /\ worker'[w].request = r
      BY <1>0, <2>2 DEF Do, TypeOK
    <3>6. LookedUp(w)' /\ PickedIsAccepted(w)' /\ HoldsRunning(w)'
      BY <2>1, <3>2, <3>5 DEF LookedUp, PickedIsAccepted, HoldsRunning
    <3>7. QED BY <3>3, <3>4, <3>6 DEF Turns, OneWorker
  <2>3. CASE worker' = [worker EXCEPT ![w] = Resting] /\ UNCHANGED job
    <3>1. OneRunning' /\ LineIsAccepted'
      BY <1>0, <2>1, <2>3 DEF OneRunning, LineIsAccepted
    <3>2. QED BY <1>0, <2>3, <3>1, RestKeepsTurns
  <2>4. QED BY <1>5, <2>2, <2>3 DEF Claim
<1>6. CASE \/ Start(w) \/ Prepare(w) \/ PrepareFails(w)
           \/ \E got \in {"partial", "complete"} : Generate(w, got)
           \/ Busy(w) \/ Fail(w) \/ Stop(w)
  <2>1. /\ worker[w].at \in Holding \ {"recovering", "finishing"}
        /\ UNCHANGED <<job, line, canceller>>
        /\ \E at \in {"preparing", "generating", "finishing"}, outcome \in Outcomes :
              Do(w, at, r, outcome)
    BY <1>6 DEF Start, Prepare, PrepareFails, Generate, Busy, Fail, Stop, End, Holding
  <2>2. PICK at \in {"preparing", "generating", "finishing"}, outcome \in Outcomes :
             Do(w, at, r, outcome)
    BY <2>1
  <2>3. r \in Request
    BY <1>0, <2>1, HasJob DEF Holding
  <2>4. job[r] = "running" \/ (job[r] = "cancelled" /\ r \in Cancellable)
    BY <1>0, <2>1 DEF HoldsRunning
  <2>5. QED BY <1>0, <2>1, <2>2, <2>3, <2>4, TurnKeepsTurns
<1>7. CASE Finish(w)
  <2>1. r \in Request /\ worker[w].outcome \in Outcomes
    BY <1>0, <1>7, HasJob DEF Finish
  <2>2. Written(r, worker[w].outcome) \notin {"none", "running"}
    BY <2>1 DEF Written
  <2>3. OneRunning' /\ LineIsAccepted'
    BY <1>7, <2>1, <2>2, WrittenKeepsJobs DEF Finish
  <2>4. QED BY <1>0, <1>7, <2>3, RestKeepsTurns DEF Finish
<1>8. CASE Crash(w)
  <2>1. OneRunning' /\ LineIsAccepted'
    BY <1>0, <1>8 DEF Crash, OneRunning, LineIsAccepted
  <2>2. QED BY <1>0, <1>8, <2>1, RestKeepsTurns DEF Crash
<1>9. QED BY <1>1, <1>2, <1>3, <1>4, <1>5, <1>6, <1>7, <1>8 DEF Work

\* Each step of a queue with one thread keeps the turns.
LEMMA StepKeepsTurns == OneWorker /\ IInv /\ Turns /\ [Next]_vars => Turns'
<1> SUFFICES ASSUME OneWorker, IInv, Turns, [Next]_vars
             PROVE  Turns'
  OBVIOUS
<1>1. CASE \E r \in Request :
              \/ Admit(r) \/ Refuse(r) \/ Enqueue(r) \/ Abandon(r)
              \/ CancelRead(r) \/ CancelWrite(r)
              \/ \E w \in Worker : CancelRunning(r, w)
              \/ Age(r) \/ RunAt(r)
  BY <1>1, ClientsKeepTurns
<1>2. CASE \E w \in Worker : Work(w) \/ Crash(w)
  BY <1>2, WorkersKeepTurns
<1>3. CASE UNCHANGED vars
  BY <1>3 DEF Turns, OneRunning, LineIsAccepted, LookedUp, PickedIsAccepted, HoldsRunning,
              OlderInLine, vars
<1>4. QED BY <1>1, <1>2, <1>3 DEF Next

\* What the theorems about one worker rest on.
LEMMA TurnsHold ==
    ASSUME OneWorker
    PROVE  Spec => []Turns
<1>1. Init => Turns
  BY InitTurns
<1>2. IInv /\ Turns /\ [Next]_vars => Turns'
  BY StepKeepsTurns
<1>3. QED BY <1>1, <1>2, InvHolds, PTL DEF Spec

\* With one worker no two jobs run at once, however clients cancel and repeat
\* their posts and the worker crashes: the next is claimed when none runs, and
\* what a crash leaves running is recovered first (_claim_next_job).
THEOREM OneAtATime ==
    ASSUME OneWorker
    PROVE  Spec => []OneRunning
<1>1. Turns => OneRunning
  BY DEF Turns
<1>2. QED BY <1>1, TurnsHold, PTL

-----------------------------------------------------------------------------
(* The queue implements FirstComeFirstServed, step by step.                *)

\* A status as those who wait tell it apart.
Seen(status) == IF status \in Waiting THEN "waiting"
                ELSE IF status \in Terminal THEN "over" ELSE status

\* A write of one job changes what is seen of that job alone.
LEMMA ServedChanges ==
    ASSUME TypeOK, NEW r \in Request, NEW status \in Active \cup Terminal,
           job' = [job EXCEPT ![r] = status]
    PROVE  /\ Served' = [Served EXCEPT ![r] = Seen(status)]
           /\ \A q \in Request : Served[q] = Seen(job[q])
<1>1. job \in [Request -> Active \cup Terminal \cup {"none"}]
  BY DEF TypeOK
<1>2. \A q \in Request : Served[q] = Seen(job[q])
  BY <1>1 DEF Served, Seen
<1>3. \A q \in Request : Served'[q] = Seen(job'[q])
  BY <1>1 DEF Served, Seen
<1>4. \A q \in Request : job'[q] = IF q = r THEN status ELSE job[q]
  BY <1>1
<1>5. Served' = [q \in Request |-> Served'[q]] /\ Served = [q \in Request |-> Served[q]]
  BY DEF Served
<1>6. QED BY <1>2, <1>3, <1>4, <1>5

\* The abstract queue sees the jobs and the line, and nothing else.
LEMMA ServedStays ==
    ASSUME UNCHANGED <<job, line>>
    PROVE  UNCHANGED <<line, Served>>
BY DEF Served

\* The abstract queue begins empty.
LEMMA InitServes == Init => Promise!Init
BY DEF Init, Promise!Init, Served

\* A job that its worker or a cancellation writes: it runs or was cancelled, so
\* it starts again, ends or is put back, or nothing is seen of it.
LEMMA WrittenServes ==
    ASSUME IInv, NEW r \in Request, NEW status \in Waiting \cup Terminal,
           \/ job[r] = "running"
           \/ job[r] \in Terminal /\ r \in Cancellable
           \/ job[r] \in Waiting \cup Terminal /\ r \in Cancellable /\ status \in Terminal,
           job' = [job EXCEPT ![r] = status], line' = line
    PROVE  [Promise!Next]_<<line, Served>>
<1>1. /\ Served' = [Served EXCEPT ![r] = Seen(status)]
      /\ Served[r] = Seen(job[r])
      /\ Served = [q \in Request |-> Served[q]]
  BY ServedChanges DEF IInv, Served
<1>2. CASE job[r] = "running" /\ status \in Waiting
  BY <1>1, <1>2 DEF Seen, Promise!Next, Promise!Again, Promise!Becomes
<1>3. CASE job[r] = "running" /\ status \in Terminal
  BY <1>1, <1>3 DEF Seen, Promise!Next, Promise!End, Promise!Becomes
<1>4. CASE job[r] \in Terminal /\ r \in Cancellable /\ status \in Waiting
  BY <1>1, <1>4 DEF Seen, Promise!Next, Promise!PutBack, Promise!Becomes
<1>5. CASE job[r] \in Terminal /\ status \in Terminal
  <2>1. Served' = Served
    BY <1>1, <1>5 DEF Seen
  <2>2. QED BY <2>1
<1>6. CASE job[r] \in Waiting /\ r \in Cancellable /\ status \in Terminal
  BY <1>1, <1>6 DEF Seen, Promise!Next, Promise!End, Promise!Becomes
<1>7. QED BY <1>2, <1>3, <1>4, <1>5, <1>6

\* The calls of clients: to enqueue accepts, to cancel ends.
LEMMA ClientsServe ==
    ASSUME IInv, Turns, NEW r \in Request,
           \/ Admit(r) \/ Refuse(r) \/ Enqueue(r) \/ Abandon(r)
           \/ CancelRead(r) \/ CancelWrite(r)
           \/ \E w \in Worker : CancelRunning(r, w)
           \/ Age(r) \/ RunAt(r)
    PROVE  [Promise!Next]_<<line, Served>>
<1>1. CASE UNCHANGED <<job, line>>
  BY <1>1, ServedStays
<1>2. CASE Enqueue(r) /\ job[r] = "none"
  <2>1. line' = Append(line, r) /\ job' = [job EXCEPT ![r] = "queued"]
    BY <1>2 DEF Enqueue
  <2>2. Served' = [Served EXCEPT ![r] = "waiting"] /\ Served[r] = "none"
    BY <1>2, <2>1, ServedChanges DEF IInv, Seen
  <2>3. QED BY <2>1, <2>2 DEF Promise!Next, Promise!Accept, Promise!Becomes
<1>3. CASE CancelWrite(r)
  <2>1. /\ r \in Cancellable /\ job[r] \in Active \cup Terminal
        /\ job' = [job EXCEPT ![r] = "cancelled"] /\ line' = line
    BY <1>3 DEF CancelWrite, IInv, TypeOK, WorkersKnow, Turns, LineIsAccepted
  <2>2. QED BY <2>1, WrittenServes
<1>4. QED BY <1>1, <1>2, <1>3
          DEF Admit, Refuse, Enqueue, Abandon, CancelRead, CancelRunning, Age, RunAt

\* The steps of the only worker: to claim serves, to finish or to recover ends
\* or starts again, and the others are not seen.
LEMMA WorkersServe ==
    ASSUME OneWorker, IInv, Turns, NEW w \in Worker, Work(w) \/ Crash(w)
    PROVE  [Promise!Next]_<<line, Served>>
<1> DEFINE r == worker[w].request
<1>0. LookedUp(w) /\ HoldsRunning(w) /\ TypeOK /\ WorkersKnow
  BY DEF IInv, Turns
<1>1. CASE UNCHANGED <<job, line>>
  BY <1>1, ServedStays
<1>2. CASE Requeue(w)
  <2>1. /\ r \in Request /\ worker[w].outcome \in {"queued", "completed"}
        /\ job' = [job EXCEPT ![r] = worker[w].outcome] /\ line' = line
    BY <1>0, <1>2, HasJob DEF Requeue, WorkersKnow
  <2>2. job[r] = "running" \/ (job[r] = "cancelled" /\ r \in Cancellable)
    BY <1>0, <1>2 DEF Requeue, HoldsRunning, Holding
  <2>3. QED BY <2>1, <2>2, WrittenServes
<1>3. CASE Claim(w) /\ job' = [job EXCEPT ![r] = "running"] /\ job[r] \in Waiting
  <2>1. r \in Request /\ line' = line
    BY <1>0, <1>3, HasJob DEF Claim
  <2>2. /\ Served' = [Served EXCEPT ![r] = "running"]
        /\ \A q \in Request : Served[q] = Seen(job[q])
    BY <1>0, <1>3, <2>1, ServedChanges DEF Seen
  <2>3. \A q \in Request : job[q] # "running" /\ (OlderInLine(q, r) => job[q] \notin Waiting)
    BY <1>0, <1>3 DEF Claim, LookedUp
  <2>4. Served[r] = "waiting"
    BY <1>3, <2>1, <2>2 DEF Seen
  <2>5. \A q \in Request : Served[q] # "running" /\ (OlderInLine(q, r) => Served[q] # "waiting")
    BY <2>2, <2>3 DEF Seen, IInv, TypeOK
  <2>6. \A q \in Request : Promise!Older(q, r) <=> OlderInLine(q, r)
    BY DEF Promise!Older, OlderInLine
  <2>7. Promise!Serve(r)
    BY <2>1, <2>2, <2>4, <2>5, <2>6 DEF Promise!Serve, Promise!Waits, Promise!Becomes
  <2>8. QED BY <2>1, <2>7 DEF Promise!Next
<1>4. CASE Finish(w)
  <2>1. r \in Request /\ worker[w].outcome \in Outcomes
    BY <1>0, <1>4, HasJob DEF Finish
  <2>2. job' = [job EXCEPT ![r] = Written(r, worker[w].outcome)] /\ line' = line
    BY <1>4 DEF Finish
  <2>3. Written(r, worker[w].outcome) \in Waiting \cup Terminal
    BY <2>1 DEF Written
  <2>4. job[r] = "running" \/ (job[r] = "cancelled" /\ r \in Cancellable)
    BY <1>0, <1>4 DEF Finish, HoldsRunning, Holding
  <2>5. QED BY <2>1, <2>2, <2>3, <2>4, WrittenServes
<1>5. QED BY <1>1, <1>2, <1>3, <1>4
          DEF Work, SeeStale, Look, Pick, Claim, Start, Prepare, PrepareFails, Generate, Busy,
              Fail, Stop, Crash

\* With one worker the queue of job_queue.py serves requests one at a time and
\* in the order in which it accepted them: one that is delayed, retried or
\* recovered keeps its place, and one that is over stays so, unless its user
\* has cancelled it (DBJobQueue with strict_fifo).
THEOREM ServesInOrder ==
    ASSUME OneWorker
    PROVE  Spec => KeepsPromise
<1>1. Init => Promise!Init
  BY InitServes
<1>2. IInv /\ Turns /\ [Next]_vars => [Promise!Next]_<<line, Served>>
  <2> SUFFICES ASSUME IInv, Turns, [Next]_vars
               PROVE  [Promise!Next]_<<line, Served>>
    OBVIOUS
  <2>1. CASE \E r \in Request :
                \/ Admit(r) \/ Refuse(r) \/ Enqueue(r) \/ Abandon(r)
                \/ CancelRead(r) \/ CancelWrite(r)
                \/ \E w \in Worker : CancelRunning(r, w)
                \/ Age(r) \/ RunAt(r)
    <3>1. PICK r \in Request :
                \/ Admit(r) \/ Refuse(r) \/ Enqueue(r) \/ Abandon(r)
                \/ CancelRead(r) \/ CancelWrite(r)
                \/ \E w \in Worker : CancelRunning(r, w)
                \/ Age(r) \/ RunAt(r)
      BY <2>1
    <3>2. QED BY <3>1, ClientsServe
  <2>2. CASE \E w \in Worker : Work(w) \/ Crash(w)
    BY <2>2, WorkersServe
  <2>3. CASE UNCHANGED vars
    BY <2>3, ServedStays DEF vars
  <2>4. QED BY <2>1, <2>2, <2>3 DEF Next
<1>3. QED BY <1>1, <1>2, InvHolds, TurnsHold, PTL DEF Spec, KeepsPromise, Promise!Spec
=============================================================================
