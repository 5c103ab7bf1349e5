---------------------------- MODULE SwicoFreeQueue ----------------------------
(* The durable first-come queue of Swico Free chat turns.                  *)
(* backend/app/job_queue.py (DBJobQueue with strict_fifo),                 *)
(* backend/app/web_api/swico_free_queue.py, and what chat_stream,          *)
(* cancel_generation and execute_web_turn do to the job and its charge.    *)
(*                                                                         *)
(* A worker is a process with one queue thread; a deployment has two of    *)
(* them while the old instance drains. What a worker reads in one          *)
(* statement and writes in a later one is two actions here; to prepare a   *)
(* turn and to persist its answer are one action each (UsageReservation    *)
(* has the races of creating a charge).                                    *)
EXTENDS Naturals, FiniteSets, Sequences

CONSTANTS
    Request,      \* request ids of one or several users, one job each
    Worker,       \* queue workers
    Cancellable,  \* requests their users may cancel
    MaxPosts,     \* bound: times a client posts one request
    MaxCrashes,   \* bound: crashes of workers
    None          \* "no request"

ASSUME RequestAssumption == IsFiniteSet(Request) /\ None \notin Request
ASSUME CancelAssumption  == Cancellable \subseteq Request
ASSUME BoundsAssumption  == MaxPosts \in Nat /\ MaxCrashes \in Nat

VARIABLES
    job,        \* Job.status by request, "none" before the job is enqueued
    line,       \* jobs in the order of (created_at, id)
    due,        \* jobs whose run_at has come
    aged,       \* running jobs whose started_at is before the stale cutoff
    charge,     \* UsageCharge.status of the request
    answer,     \* the assistant's message: "none", "partial" or "complete"
    posting,    \* the chat_stream call of each request between prepare_web_turn
                \* and the enqueue: "new", or "resumed" (resume_accepted_queue)
    canceller,  \* the charge a cancellation loaded with a job it saw waiting
    worker,     \* what each worker is doing
    posts,      \* bound: calls of chat_stream
    crashes     \* bound: crashes

vars == <<job, line, due, aged, charge, answer, posting, canceller, worker,
          posts, crashes>>

-----------------------------------------------------------------------------
Waiting  == {"queued", "retrying"}
Active   == Waiting \cup {"running"}
Terminal == {"completed", "cancelled", "failed"}

Charges == {"none", "free_pending", "released", "free"}

\* recovering: between reading a stale job and writing it; looked: no job was
\* running; picked: the head was read; claimed: it is running and the handler
\* starts; preparing, generating: in prepare_web_turn, in execute_web_turn;
\* finishing: the handler is over, the job is not written yet.
Steps == {"idle", "recovering", "looked", "picked", "claimed", "preparing",
          "generating", "finishing"}

\* What becomes of the job; "stopped" also releases the charge.
Outcomes == {"queued", "completed", "cancelled", "stopped", "retrying", "failed"}

Doing == [at: Steps, request: Request \cup {None}, outcome: Outcomes,
          signal: BOOLEAN]

Resting == [at |-> "idle", request |-> None, outcome |-> "queued", signal |-> FALSE]

Do(w, at, r, outcome) ==
    worker' = [worker EXCEPT ![w] = [at |-> at, request |-> r, outcome |-> outcome,
                                     signal |-> FALSE]]

\* A handler's end with its outcome.
End(w, outcome) == Do(w, "finishing", worker[w].request, outcome)

\* Mutant: a charge is released whatever its status.
ReleasedAny(r) == [charge EXCEPT ![r] = "released"]

\* release_swico_free_usage
Released(r) ==
    [charge EXCEPT ![r] = IF @ = "free_pending" THEN "released" ELSE @]

\* create_swico_free_usage
Opened(r) ==
    [charge EXCEPT ![r] = IF @ \in {"none", "released"} THEN "free_pending" ELSE @]

-----------------------------------------------------------------------------
Init ==
    /\ job = [r \in Request |-> "none"]
    /\ line = <<>>
    /\ due = {}
    /\ aged = {}
    /\ charge = [r \in Request |-> "none"]
    /\ answer = [r \in Request |-> "none"]
    /\ posting = [r \in Request |-> "none"]
    /\ canceller = [r \in Request |-> "none"]
    /\ worker = [w \in Worker |-> Resting]
    /\ posts = [r \in Request |-> 0]
    /\ crashes = 0

-----------------------------------------------------------------------------
(* chat_stream.                                                            *)

\* prepare_web_turn: a request with an answer is replayed and one in progress
\* is refused, unless its job was found active.
Admit(r) ==
    /\ posts[r] < MaxPosts
    /\ posting[r] = "none"
    /\ answer[r] = "none"
    /\ charge[r] \in {"none", "released"} \/ job[r] \in Active
    /\ charge' = Opened(r)
    /\ posting' = [posting EXCEPT ![r] =
                     IF job[r] \in Active THEN "resumed" ELSE "new"]
    /\ posts' = [posts EXCEPT ![r] = @ + 1]
    /\ UNCHANGED <<job, line, due, aged, answer, canceller, worker, crashes>>

\* _enforce_swico_free_limits refuses a request that is not resumed.
Refuse(r) ==
    /\ posting[r] = "new"
    /\ charge' = Released(r)
    /\ posting' = [posting EXCEPT ![r] = "none"]
    /\ UNCHANGED <<job, line, due, aged, answer, canceller, worker, posts, crashes>>

\* enqueue_swico_free_chat: a job the request already has is returned, a job
\* that is over included.
Enqueue(r) ==
    /\ posting[r] # "none"
    /\ posting' = [posting EXCEPT ![r] = "none"]
    /\ \/ /\ job[r] = "none"
          /\ job' = [job EXCEPT ![r] = "queued"]
          /\ line' = Append(line, r)
          /\ due' = due \cup {r}
       \/ /\ job[r] # "none"
          /\ UNCHANGED <<job, line, due>>
    /\ UNCHANGED <<aged, charge, answer, canceller, worker, posts, crashes>>

\* The server dies between the two commits.
Abandon(r) ==
    /\ posting[r] # "none"
    /\ posting' = [posting EXCEPT ![r] = "none"]
    /\ UNCHANGED <<job, line, due, aged, charge, answer, canceller, worker,
                   posts, crashes>>

-----------------------------------------------------------------------------
(* cancel_generation.                                                      *)

\* It loads the charge and the job ...
CancelRead(r) ==
    /\ r \in Cancellable
    /\ canceller[r] = "none"
    /\ job[r] \in Waiting
    /\ canceller' = [canceller EXCEPT ![r] = charge[r]]
    /\ UNCHANGED <<job, line, due, aged, charge, answer, posting, worker, posts,
                   crashes>>

\* ... and writes them by id: the status of the job is not looked at again,
\* and release_swico_free_usage gets the charge that was loaded.
CancelWrite(r) ==
    /\ canceller[r] # "none"
    /\ job' = [job EXCEPT ![r] = "cancelled"]
    /\ charge' = IF canceller[r] = "free_pending"
                 THEN [charge EXCEPT ![r] = "released"] ELSE charge
    /\ canceller' = [canceller EXCEPT ![r] = "none"]
    /\ UNCHANGED <<line, due, aged, answer, posting, worker, posts, crashes>>

\* A running job is signalled, when the worker is in the process that serves
\* the cancellation and has registered for it.
CancelRunning(r, w) ==
    /\ r \in Cancellable
    /\ job[r] = "running"
    /\ worker[w].at = "generating"
    /\ worker[w].request = r
    /\ worker' = [worker EXCEPT ![w].signal = TRUE]
    /\ UNCHANGED <<job, line, due, aged, charge, answer, posting, canceller,
                   posts, crashes>>

-----------------------------------------------------------------------------
(* _claim_next_job.                                                        *)

\* _recover_stale_jobs with _stale_recovery: a stale job is loaded, and its
\* answer looked for ...
SeeStale(w, r) ==
    /\ worker[w].at = "idle"
    /\ job[r] = "running"
    /\ r \in aged
    /\ Do(w, "recovering", r, IF answer[r] = "complete" THEN "completed" ELSE "queued")
    /\ UNCHANGED <<job, line, due, aged, charge, answer, posting, canceller,
                   posts, crashes>>

\* Mutant: a stale job is taken for completed.
CompleteStale(w) ==
    /\ worker[w].at = "recovering"
    /\ job' = [job EXCEPT ![worker[w].request] = "completed"]
    /\ worker' = [worker EXCEPT ![w] = Resting]
    /\ UNCHANGED <<line, due, aged, charge, answer, posting, canceller, posts,
                   crashes>>

\* Mutant: a stale job without an answer is left running.
LeaveStale(w) ==
    /\ worker[w].at = "recovering"
    /\ worker[w].outcome = "completed"
    /\ job' = [job EXCEPT ![worker[w].request] = "completed"]
    /\ worker' = [worker EXCEPT ![w] = Resting]
    /\ UNCHANGED <<line, due, aged, charge, answer, posting, canceller, posts,
                   crashes>>

\* ... and it is written by id.
Requeue(w) ==
    /\ worker[w].at = "recovering"
    /\ LET r == worker[w].request
       IN  /\ job' = [job EXCEPT ![r] = worker[w].outcome]
           /\ due' = due \cup {r}
           /\ aged' = aged \ {r}
    /\ worker' = [worker EXCEPT ![w] = Resting]
    /\ UNCHANGED <<line, charge, answer, posting, canceller, posts, crashes>>

\* Mutant: running jobs are not looked for.
LookAnyway(w) ==
    /\ worker[w].at = "idle"
    /\ Do(w, "looked", None, "queued")
    /\ UNCHANGED <<job, line, due, aged, charge, answer, posting, canceller,
                   posts, crashes>>

\* No job may be running.
Look(w) ==
    /\ worker[w].at = "idle"
    /\ \A r \in Request : job[r] # "running"
    /\ Do(w, "looked", None, "queued")
    /\ UNCHANGED <<job, line, due, aged, charge, answer, posting, canceller,
                   posts, crashes>>

InLine == { i \in DOMAIN line : job[line[i]] \in Waiting }

\* The request at the first of some places in the line, if there is one.
First(places) == { line[i] : i \in { k \in places : \A j \in places : k <= j } }

\* Mutant: a delayed head is passed by the first job that is due.
PickDue(w) ==
    /\ worker[w].at = "looked"
    /\ LET head == First({ i \in InLine : line[i] \in due })
       IN  \/ \E r \in head : Do(w, "picked", r, "queued")
           \/ head = {} /\ worker' = [worker EXCEPT ![w] = Resting]
    /\ UNCHANGED <<job, line, due, aged, charge, answer, posting, canceller,
                   posts, crashes>>

\* The head of the line; a delayed head blocks all younger jobs.
Pick(w) ==
    /\ worker[w].at = "looked"
    /\ \/ \E r \in First(InLine) \cap due : Do(w, "picked", r, "queued")
       \/ /\ First(InLine) \cap due = {}
          /\ worker' = [worker EXCEPT ![w] = Resting]
    /\ UNCHANGED <<job, line, due, aged, charge, answer, posting, canceller,
                   posts, crashes>>

\* The conditional UPDATE, which fails when the job is no longer waiting.
Claim(w) ==
    /\ worker[w].at = "picked"
    /\ LET r == worker[w].request
       IN  \/ /\ job[r] \in Waiting
              /\ r \in due
              /\ job' = [job EXCEPT ![r] = "running"]
              /\ aged' = aged \ {r}
              /\ Do(w, "claimed", r, "queued")
           \/ /\ job[r] \notin Waiting \/ r \notin due
              /\ worker' = [worker EXCEPT ![w] = Resting]
              /\ UNCHANGED <<job, aged>>
    /\ UNCHANGED <<line, due, charge, answer, posting, canceller, posts, crashes>>

-----------------------------------------------------------------------------
(* _handle_swico_free_chat.                                                *)

\* The session of the handler keeps the charge it loads here.
Start(w) ==
    /\ worker[w].at = "claimed"
    /\ LET r == worker[w].request
       IN  \/ answer[r] = "complete" /\ End(w, "completed")
           \/ /\ answer[r] # "complete"
              /\ charge[r] # "free_pending"
              /\ End(w, "cancelled")
           \/ /\ answer[r] # "complete"
              /\ charge[r] = "free_pending"
              /\ Do(w, "preparing", r, "queued")
    /\ UNCHANGED <<job, line, due, aged, charge, answer, posting, canceller,
                   posts, crashes>>

\* prepare_web_turn; with an answer there is nothing to generate, and the
\* route is not the one the handler expects.
Prepare(w) ==
    /\ worker[w].at = "preparing"
    /\ LET r == worker[w].request
       IN  \/ /\ answer[r] = "none"
              /\ charge' = Opened(r)
              /\ Do(w, "generating", r, "queued")
           \/ /\ answer[r] # "none"
              /\ End(w, "failed")
              /\ UNCHANGED charge
    /\ UNCHANGED <<job, line, due, aged, answer, posting, canceller, posts, crashes>>

\* It fails for a reason of its own; its session rolls back.
PrepareFails(w) ==
    /\ worker[w].at = "preparing"
    /\ End(w, "failed")
    /\ UNCHANGED <<job, line, due, aged, charge, answer, posting, canceller,
                   posts, crashes>>

\* execute_web_turn persists an answer, the part of it that was generated when
\* it was stopped included, and settles the charge in the same transaction. It
\* fails when the charge is not pending any more or an answer is there.
Generate(w, got) ==
    /\ worker[w].at = "generating"
    /\ got = "partial" => worker[w].signal
    /\ LET r == worker[w].request
       IN  \/ /\ charge[r] = "free_pending"
              /\ answer[r] = "none"
              /\ answer' = [answer EXCEPT ![r] = got]
              /\ charge' = [charge EXCEPT ![r] = "free"]
              /\ End(w, "completed")
           \/ /\ charge[r] # "free_pending" \/ answer[r] # "none"
              /\ charge' = Released(r)
              /\ End(w, "failed")
              /\ UNCHANGED answer
    /\ UNCHANGED <<job, line, due, aged, posting, canceller, posts, crashes>>

\* The laptop that serves the model is busy or unavailable. execute_web_turn
\* releases the charge in a session of its own; the handler then sets the
\* charge it has in memory to free_pending, which it already is there, so
\* nothing is written.
Busy(w) ==
    /\ worker[w].at = "generating"
    /\ charge' = Released(worker[w].request)
    /\ End(w, "retrying")
    /\ UNCHANGED <<job, line, due, aged, answer, posting, canceller, posts, crashes>>

\* Any other error of the provider.
Fail(w) ==
    /\ worker[w].at = "generating"
    /\ charge' = Released(worker[w].request)
    /\ End(w, "failed")
    /\ UNCHANGED <<job, line, due, aged, answer, posting, canceller, posts, crashes>>

\* GenerationCancelled before any text.
Stop(w) ==
    /\ worker[w].at = "generating"
    /\ worker[w].signal
    /\ charge' = Released(worker[w].request)
    /\ End(w, "stopped")
    /\ UNCHANGED <<job, line, due, aged, answer, posting, canceller, posts, crashes>>

-----------------------------------------------------------------------------
(* The end of _process_one.                                                *)

\* Mutant: a stopped job gets a status that no reader of the queue knows.
WrittenAsIs(r, outcome) ==
    IF outcome = "completed" /\ job[r] = "cancelled" THEN "cancelled" ELSE outcome

\* A completed job is read again: one that was cancelled stays so. A failure
\* (max_attempts is 1) and a retry are written whatever the job has become.
\* After a stop the handler's session also writes the charge it had loaded.
Written(r, outcome) ==
    IF outcome = "stopped" \/ (outcome = "completed" /\ job[r] = "cancelled")
    THEN "cancelled" ELSE outcome

Finish(w) ==
    /\ worker[w].at = "finishing"
    /\ LET r       == worker[w].request
           outcome == worker[w].outcome
       IN  /\ job' = [job EXCEPT ![r] = Written(r, outcome)]
           /\ due' = IF outcome = "retrying" THEN due \ {r} ELSE due
           /\ charge' = IF outcome = "stopped"
                        THEN [charge EXCEPT ![r] = "released"] ELSE charge
    /\ worker' = [worker EXCEPT ![w] = Resting]
    /\ UNCHANGED <<line, aged, answer, posting, canceller, posts, crashes>>

-----------------------------------------------------------------------------
(* Crashes and time.                                                       *)

\* The job stays running in the database.
Crash(w) ==
    /\ crashes < MaxCrashes
    /\ worker[w] # Resting
    /\ crashes' = crashes + 1
    /\ worker' = [worker EXCEPT ![w] = Resting]
    /\ UNCHANGED <<job, line, due, aged, charge, answer, posting, canceller, posts>>

Age(r) ==
    /\ job[r] = "running"
    /\ r \notin aged
    /\ aged' = aged \cup {r}
    /\ UNCHANGED <<job, line, due, charge, answer, posting, canceller, worker,
                   posts, crashes>>

RunAt(r) ==
    /\ job[r] \in Waiting
    /\ r \notin due
    /\ due' = due \cup {r}
    /\ UNCHANGED <<job, line, aged, charge, answer, posting, canceller, worker,
                   posts, crashes>>

-----------------------------------------------------------------------------
Work(w) ==
    \/ \E r \in Request : SeeStale(w, r)
    \/ Requeue(w)
    \/ Look(w)
    \/ Pick(w)
    \/ Claim(w)
    \/ Start(w)
    \/ Prepare(w)
    \/ PrepareFails(w)
    \/ \E got \in {"partial", "complete"} : Generate(w, got)
    \/ Busy(w)
    \/ Fail(w)
    \/ Stop(w)
    \/ Finish(w)

Next ==
    \/ \E r \in Request :
          \/ Admit(r)
          \/ Refuse(r)
          \/ Enqueue(r)
          \/ Abandon(r)
          \/ CancelRead(r)
          \/ CancelWrite(r)
          \/ \E w \in Worker : CancelRunning(r, w)
          \/ Age(r)
          \/ RunAt(r)
    \/ \E w \in Worker : Work(w) \/ Crash(w)

Spec == Init /\ [][Next]_vars

\* The queue thread polls for ever, a call of the provider has a timeout, and
\* the clock runs. Nothing is assumed of clients and of the servers' calls.
Fairness ==
    /\ \A w \in Worker : WF_vars(Work(w))
    /\ \A r \in Request : WF_vars(Age(r)) /\ WF_vars(RunAt(r))

FairSpec == Spec /\ Fairness

-----------------------------------------------------------------------------
(* Properties.                                                             *)

\* Every variable has its type; the statuses of a job are those every reader
\* of the queue knows.
TypeOK ==
    /\ job \in [Request -> Active \cup Terminal \cup {"none"}]
    /\ line \in Seq(Request)
    /\ due \subseteq Request
    /\ aged \subseteq Request
    /\ charge \in [Request -> Charges]
    /\ answer \in [Request -> {"none", "partial", "complete"}]
    /\ posting \in [Request -> {"none", "new", "resumed"}]
    /\ canceller \in [Request -> Charges]
    /\ worker \in [Worker -> Doing]
    /\ posts \in [Request -> 0 .. MaxPosts]
    /\ crashes \in 0 .. MaxCrashes

\* The statuses as those who wait tell them apart.
Served ==
    [r \in Request |-> CASE job[r] \in Waiting  -> "waiting"
                         [] job[r] \in Terminal -> "over"
                         [] OTHER               -> job[r]]

Promise == INSTANCE FirstComeFirstServed WITH served <- Served

\* The queue keeps the promise: one job runs at a time, no younger one starts
\* while an older one waits, a retried or recovered one keeps its place, and
\* what is over is over, unless its user has cancelled it (job_queue.py).
KeepsPromise == Promise!Spec

\* With one queue thread, no second job runs beside the first: not when the
\* thread dies and leaves its job running, when that job is found stale and put
\* back, or when a cancellation is written over it or written over by a retry
\* (_claim_next_job, _recover_stale_jobs, cancel_generation). Two threads may
\* both see that nothing runs, and claim one job each.
OneRunning == \A q, r \in Request : job[q] = "running" /\ job[r] = "running" => q = r

\* A completed job has an answer to show, whoever completed it: the worker
\* that generated it, a later one that found it, or the stale recovery.
CompletedIsAnswered ==
    \A r \in Request : job[r] = "completed" => answer[r] # "none"

\* An answer and the end of its charge are one: two generations of one job, one
\* of which answers while the other fails, retries or is recovered, neither
\* release nor reopen the charge that was settled. A cancellation may (it
\* writes a charge it loaded earlier).
AnsweredIsSettled ==
    \A r \in Request \ Cancellable : answer[r] # "none" <=> charge[r] = "free"

\* What makes the two inductive: a worker that is about to complete a job has
\* seen its answer, only a request its user may cancel is stopped or has a
\* cancellation under way, and only a resting worker has no request.
WorkersKnow ==
    /\ \A w \in Worker :
          /\ worker[w].at \notin {"idle", "looked"} => worker[w].request \in Request
          /\ worker[w].at = "recovering"
                => worker[w].outcome \in {"queued", "completed"}
          /\ worker[w].outcome = "completed"
                => /\ worker[w].request \in Request
                   /\ answer[worker[w].request] # "none"
          /\ worker[w].signal \/ worker[w].outcome = "stopped"
                => worker[w].request \in Cancellable
    /\ \A r \in Request \ Cancellable : canceller[r] = "none"

\* An accepted request is answered, stopped or given up in the end, although
\* workers crash and the provider is busy; younger requests wait for it.
JobsEnd == \A r \in Request : job[r] \in Active ~> job[r] \notin Active

=============================================================================
