---------------------------- MODULE KnowledgeJobs ----------------------------
(* The knowledge library: versions of one source, the jobs that index them *)
(* and the paid embedding of their chunks. backend/app/web_ai:             *)
(* knowledge_jobs.py and retrieval/persistent_knowledge.py; the owner's    *)
(* requests are in web_api/knowledge_library.py and router.py, the queue   *)
(* (without strict_fifo) in job_queue.py and knowledge_worker.py.          *)
(*                                                                         *)
(* A document is written by id with the columns that differ from what the  *)
(* writer read, and nobody locks what he reads: an ingest and a request of *)
(* the owner are two actions each. From the first write of an ingest to    *)
(* its commit the row of the document is locked, so its job, which a       *)
(* request cancels together with the document, is finished in that action. *)
(* The delay of a retry is left out: a job that waits may wait for long.   *)
(* The batch holds every chunk. Nobody passes a charge of his own with a   *)
(* job, so _accounted_stage is not reached.                                *)
EXTENDS Naturals, FiniteSets, Sequences

CONSTANTS
    Document,     \* the versions of one source
    Worker,       \* the queues of the knowledge worker
    Enabled,      \* the derived stages the settings and the tier allow
    Attempts,     \* max_attempts, 3 in enqueue_knowledge_job
    Request,      \* cancellations, deletions and re-indexings
    MaxFaults,    \* bound: crashes and database errors of workers
    None          \* "not made" or "over"

DerivedTypes == <<"embedding", "hierarchy", "triplet">>
Types == {"ingest"} \cup {DerivedTypes[i] : i \in 1 .. 3}

ASSUME DocumentAssumption == IsFiniteSet(Document)
ASSUME RequestsAssumption == /\ IsFiniteSet(Request)
                             /\ Request \cap {"approval", "chain"} = {}
ASSUME EnabledAssumption  == Enabled \subseteq Types \ {"ingest"}
ASSUME KnowledgeBounds    == /\ Attempts \in Nat \ {0}
                             /\ MaxFaults \in Nat

VARIABLES
    doc,       \* WebKnowledgeDocument with its chunks and what is derived
    jobs,      \* Job, in the order of (created_at, id)
    stage,     \* WebUsageStage.status of the embedding of a document
    charge,    \* UsageCharge.status of that stage's request
    worker,    \* what each worker is doing
    request,   \* requests of the owner between their reads and their writes
    made,      \* requests made
    faults,    \* bound: faults so far
    answers,   \* history: embedding calls the provider has answered
    unsettled, \* history: documents whose answer could not be committed
    replaced,  \* history: documents a newer version has invalidated
    partly     \* history: documents a re-indexing set to "indexing" and not
               \* their chunks to "pending"

vars == <<doc, jobs, stage, charge, worker, request, made, faults, answers,
          unsettled, replaced, partly>>

billing == <<stage, charge, answers, unsettled>>
bounds  == <<made, faults>>
history == <<replaced, partly>>

-----------------------------------------------------------------------------
Waiting == {"queued", "retrying"}
Active  == Waiting \cup {"running"}
Over    == {"completed", "failed", "cancelled"}

\* built: the derived stages whose rows are "ready".
Knowledge ==
    [status: {"none", "indexing", "ready", "failed", "invalidated", "deleted"},
     chunks: {"pending", "ready", "invalidated"}, vectors: BOOLEAN,
     built: SUBSET Types]

\* key tells idempotency keys apart: of an approval, of the chain, or of a
\* request, a re-indexing.
Keys == {"approval", "chain"} \cup Request

Job == [document: Document, type: Types, key: Keys, status: Active \cup Over,
        attempts: 0 .. Attempts]

\* read: the document is current; reserved, running: the stage is, and that
\* is committed; calling, answered; storing: the vectors are to be kept; done:
\* the handler has returned; seen: and its job was refreshed.
Steps == {"idle", "claimed", "read", "reserved", "running", "calling",
          "answered", "storing", "done", "seen"}

\* saw is what the worker or the request has read: the document, or (when
\* "seen") its job as it was. dropped: the result is {"status": "cancelled"}.
Doing == [at: Steps, job: Nat, saw: Knowledge, status: Active \cup Over,
          dropped: BOOLEAN]

Nothing == [status |-> "none", chunks |-> "pending", vectors |-> FALSE,
            built |-> {}]

Resting == [at |-> "idle", job |-> 0, saw |-> Nothing, status |-> "queued",
            dropped |-> FALSE]

\* An ingest for each approval and each request, and the chain of a document.
JobCount == Cardinality(Document) * (1 + Cardinality(Enabled)) + Cardinality(Request)

NewJob(d, t, k) ==
    [document |-> d, type |-> t, key |-> k, status |-> "queued", attempts |-> 0]

\* What worker w works on.
Mine(w)  == jobs[worker[w].job]
About(w) == Mine(w).document

Go(w, at) == worker' = [worker EXCEPT ![w].at = at, ![w].saw = Nothing]

\* A handler returns; what is dropped is not followed by another job.
Return(w)        == Go(w, "done")
ReturnDropped(w) == worker' = [worker EXCEPT ![w].at = "done", ![w].saw = Nothing,
                                             ![w].dropped = TRUE]

\* knowledge_job_cancelled
Cancelled(w) == Mine(w).status = "cancelled"

-----------------------------------------------------------------------------
Init ==
    /\ doc = [d \in Document |-> Nothing]
    /\ jobs = <<>>
    /\ stage = [d \in Document |-> "none"]
    /\ charge = [d \in Document |-> "none"]
    /\ worker = [w \in Worker |-> Resting]
    /\ request = [q \in Request |-> None]
    /\ made = {}
    /\ faults = 0
    /\ answers = [d \in Document |-> 0]
    /\ unsettled = {}
    /\ replaced = {}
    /\ partly = {}

-----------------------------------------------------------------------------
(* The owner.                                                              *)

Exists(d) == doc[d].status \notin {"none", "deleted"}

\* invalidate_knowledge_source
Invalidated(k) ==
    [k EXCEPT !.status = "invalidated", !.chunks = "invalidated",
              !.vectors = FALSE, !.built = {}]

\* approve_persistent_knowledge, and the ingest job in the same commit.
Approve(d) ==
    /\ doc[d].status = "none"
    /\ doc' = [e \in Document |->
                 IF e = d THEN [Nothing EXCEPT !.status = "indexing"]
                 ELSE IF Exists(e) THEN Invalidated(doc[e]) ELSE doc[e]]
    /\ jobs' = Append(jobs, NewJob(d, "ingest", "approval"))
    /\ replaced' = replaced \cup {e \in Document \ {d} : Exists(e)}
    /\ UNCHANGED <<billing, worker, request, bounds, partly>>

ActiveJobs(d) == {i \in 1 .. Len(jobs) : /\ jobs[i].document = d
                                          /\ jobs[i].status \in Active}

\* latest_owned_knowledge_job, when it may be cancelled.
LatestActive(d) ==
    {i \in ActiveJobs(d) : \A n \in i + 1 .. Len(jobs) : jobs[n].document # d}

\* The reads of cancel_knowledge_document_job, delete_ and
\* reindex_owned_knowledge_document.
Ask(q, d, op) ==
    /\ q \notin made
    /\ Exists(d)
    /\ op = "cancel" => LatestActive(d) # {}
    /\ op = "reindex" => doc[d].status # "invalidated"
    /\ request' = [request EXCEPT ![q] =
                     [op |-> op, document |-> d, saw |-> doc[d],
                      jobs |-> IF op = "cancel" THEN LatestActive(d)
                                                ELSE ActiveJobs(d)]]
    /\ made' = made \cup {q}
    /\ UNCHANGED <<doc, jobs, billing, worker, faults, history>>

Asks(q, op) == request[q] # None /\ request[q].op = op

\* cancel_knowledge_job of the jobs the request has read.
JobsCancelled(q) ==
    [i \in 1 .. Len(jobs) |->
       IF i \in request[q].jobs THEN [jobs[i] EXCEPT !.status = "cancelled"]
                                ELSE jobs[i]]

\* A column is written when it differs from what was read.
Updated(now, saw, value) == IF saw = value THEN now ELSE value

\* The writes of a request; the document is k after them.
Write(q, k) ==
    /\ Exists(request[q].document)
    /\ doc' = [doc EXCEPT ![request[q].document] = k]
    /\ request' = [request EXCEPT ![q] = None]
    /\ UNCHANGED <<billing, worker, bounds, replaced>>

Cancel(q) ==
    LET now == doc[request[q].document] IN
    /\ Asks(q, "cancel")
    /\ jobs' = JobsCancelled(q)
    /\ UNCHANGED partly
    /\ Write(q, [now EXCEPT !.status = Updated(@, request[q].saw.status, "failed")])

Delete(q) ==
    /\ Asks(q, "delete")
    /\ jobs' = JobsCancelled(q)
    /\ UNCHANGED partly
    /\ Write(q, [Nothing EXCEPT !.status = "deleted"])

\* Mutant: a re-indexing resets the chunks only.
ResetChunks(now, saw) ==
    [now EXCEPT !.chunks = Updated(@, saw.chunks, "pending"), !.vectors = FALSE,
                !.built = {}]

Reset(now, saw) ==
    [status  |-> Updated(now.status, saw.status, "indexing"),
     chunks  |-> Updated(now.chunks, saw.chunks, "pending"),
     vectors |-> Updated(now.vectors, saw.vectors, FALSE),
     built   |-> {}]

Reindex(q) ==
    LET d == request[q].document
        k == Reset(doc[d], request[q].saw)
    IN /\ Asks(q, "reindex")
       /\ jobs' = Append(JobsCancelled(q), NewJob(d, "ingest", q))
       /\ Write(q, k)
       /\ partly' = IF k.status = "indexing" /\ k.chunks # "pending"
                    THEN partly \cup {d} ELSE partly

\* The document was deleted after the reads: the update of its row fails.
AskInVain(q) ==
    /\ request[q] # None
    /\ ~Exists(request[q].document)
    /\ request' = [request EXCEPT ![q] = None]
    /\ UNCHANGED <<doc, jobs, billing, worker, bounds, history>>

-----------------------------------------------------------------------------
(* The worker: a claim, and how a job ends.                                *)

Oldest == {i \in 1 .. Len(jobs) : /\ jobs[i].status \in Waiting
                                 /\ \A n \in 1 .. i - 1 : jobs[n].status \notin Waiting}

\* _claim_next_job
Claim(w) ==
    /\ worker[w].at = "idle"
    /\ \E i \in Oldest :
         /\ jobs' = [jobs EXCEPT ![i].status = "running"]
         /\ worker' = [worker EXCEPT ![w] = [Resting EXCEPT !.at = "claimed", !.job = i]]
    /\ UNCHANGED <<doc, billing, request, bounds, history>>

\* Mutant: attempts are not counted against max_attempts.
MayRetryAlways(i) == jobs[i].status \in Active \cup Over

MayRetry(i) == jobs[i].attempts + 1 < Attempts

\* The exception path of _process_one, whatever became of the job meanwhile.
Fail(w) ==
    LET i == worker[w].job IN
    /\ jobs' = [jobs EXCEPT ![i].attempts = IF @ < Attempts THEN @ + 1 ELSE @,
                            ![i].status = IF MayRetry(i) THEN "retrying" ELSE "failed"]
    /\ worker' = [worker EXCEPT ![w] = Resting]

\* The first enabled stage after type t, if any.
After(t) ==
    LET first == IF t = "ingest" THEN 1
                 ELSE 1 + CHOOSE i \in 1 .. 3 : DerivedTypes[i] = t
        later == {i \in first .. 3 : DerivedTypes[i] \in Enabled}
    IN {DerivedTypes[i] : i \in {n \in later : \A m \in later : n <= m}}

\* Mutant: a job of the chain is enqueued once more.
EnqueuedAgain(list, d, t) == Append(list, NewJob(d, t, "chain"))

\* enqueue_knowledge_job, with the key of the chain.
Enqueued(list, d, t) ==
    IF \E i \in 1 .. Len(list) : /\ list[i].document = d
                                 /\ list[i].type = t
                                 /\ list[i].key = "chain"
    THEN list ELSE Append(list, NewJob(d, t, "chain"))

\* The job of w when its handler has returned, and what enqueue_next_
\* knowledge_job adds while the document is status.
Completed(w, seen, status) ==
    LET i    == worker[w].job
        over == [jobs EXCEPT ![i].status = "completed"]
        next == After(jobs[i].type)
    IN IF seen = "cancelled" THEN jobs
       ELSE IF worker[w].dropped \/ status # "ready" \/ next = {} THEN over
       ELSE Enqueued(over, About(w), CHOOSE t \in next : TRUE)

\* session.refresh(job)
See(w) ==
    /\ worker[w].at = "done"
    /\ worker' = [worker EXCEPT ![w].at = "seen", ![w].status = Mine(w).status]
    /\ UNCHANGED <<doc, jobs, billing, request, bounds, history>>

Complete(w) ==
    /\ worker[w].at = "seen"
    /\ jobs' = Completed(w, worker[w].status, doc[About(w)].status)
    /\ worker' = [worker EXCEPT ![w] = Resting]
    /\ UNCHANGED <<doc, billing, request, bounds, history>>

\* A database error: what is not committed is rolled back.
Break(w) ==
    /\ worker[w].at \notin {"idle"}
    /\ faults < MaxFaults
    /\ faults' = faults + 1
    /\ unsettled' = IF worker[w].at \in {"answered", "storing"}
                    THEN unsettled \cup {About(w)} ELSE unsettled
    /\ Fail(w)
    /\ UNCHANGED <<doc, stage, charge, answers, request, made, history>>

\* Nothing recovers a job whose worker has died.
Crash(w) ==
    /\ worker[w].at # "idle"
    /\ faults < MaxFaults
    /\ faults' = faults + 1
    /\ unsettled' = IF worker[w].at \in {"answered", "storing"}
                    THEN unsettled \cup {About(w)} ELSE unsettled
    /\ worker' = [worker EXCEPT ![w] = Resting]
    /\ UNCHANGED <<doc, jobs, stage, charge, answers, request, made, history>>

-----------------------------------------------------------------------------
(* handle_knowledge_ingest, handle_hierarchy_build, handle_triplet_extract. *)

MayRead(w) ==
    doc[About(w)].status \in
        (IF Mine(w).type = "ingest" THEN {"indexing", "ready"} ELSE {"ready"})

\* _require_current_document
Read(w) ==
    /\ worker[w].at = "claimed"
    /\ Mine(w).type # "embedding"
    /\ \/ Cancelled(w) /\ ReturnDropped(w) /\ UNCHANGED jobs
       \/ ~Cancelled(w) /\ ~MayRead(w) /\ Fail(w)
       \/ /\ ~Cancelled(w) /\ MayRead(w)
          /\ worker' = [worker EXCEPT ![w].at = "read", ![w].saw = doc[About(w)]]
          /\ UNCHANGED jobs
    /\ UNCHANGED <<doc, billing, request, bounds, history>>

\* finalize_knowledge_ingest and the end of its job.
Ingest(w) ==
    LET d   == About(w)
        saw == worker[w].saw
    IN /\ worker[w].at = "read"
       /\ Mine(w).type = "ingest"
       /\ \/ /\ Exists(d)
             /\ doc' = [doc EXCEPT ![d].status = Updated(@, saw.status, "ready"),
                                   ![d].chunks = Updated(@, saw.chunks, "ready")]
             /\ jobs' = Completed(w, Mine(w).status, doc'[d].status)
             /\ worker' = [worker EXCEPT ![w] = Resting]
          \/ ~Exists(d) /\ Fail(w) /\ UNCHANGED doc
       /\ UNCHANGED <<billing, request, bounds, history>>

\* The rows of the stage; a document that is gone refuses them. A cancelled
\* build commits what it has.
Build(w) ==
    LET d == About(w) IN
    /\ worker[w].at = "read"
    /\ Mine(w).type \notin {"ingest", "embedding"}
    /\ \/ /\ Exists(d)
          /\ \/ ~Cancelled(w) /\ Return(w) /\ doc' = [doc EXCEPT ![d].built = @ \cup {Mine(w).type}]
             \/ Cancelled(w) /\ ReturnDropped(w) /\ UNCHANGED doc
          /\ UNCHANGED jobs
       \/ ~Exists(d) /\ Fail(w) /\ UNCHANGED doc
    /\ UNCHANGED <<billing, request, bounds, history>>

-----------------------------------------------------------------------------
(* handle_embedding_backfill.                                              *)

\* Stages whose call may have been made.
Attempted == {"running", "settled", "released", "failed"}

\* Mutant: a stage that was running is attempted again.
MayAttemptRunning(d) == stage[d] \notin Attempted \ {"running"}

MayAttempt(d) == stage[d] \notin Attempted

\* _release_embedding_attempt
ReleaseAttempt(d, status) ==
    /\ stage' = [stage EXCEPT ![d] = IF @ = "settled" THEN @ ELSE status]
    /\ charge' = [charge EXCEPT ![d] = IF @ = "reserved" THEN "released" ELSE @]

ToEmbed(d) == doc[d].chunks = "ready" /\ ~doc[d].vectors

\* The checks and _accounted_embedding_stage.
Reserve(w) ==
    LET d == About(w) IN
    /\ worker[w].at = "claimed"
    /\ Mine(w).type = "embedding"
    /\ \/ Cancelled(w) /\ ReturnDropped(w) /\ UNCHANGED <<jobs, stage, charge>>
       \/ /\ ~Cancelled(w)
          /\ doc[d].status # "ready"
          /\ Fail(w)
          /\ UNCHANGED <<stage, charge>>
       \/ /\ ~Cancelled(w)
          /\ doc[d].status = "ready"
          /\ UNCHANGED jobs
          /\ \/ \* nothing to embed, or no credit
                Return(w) /\ UNCHANGED <<stage, charge>>
             \/ /\ ToEmbed(d)
                /\ ~MayAttempt(d)
                /\ Return(w)
                /\ IF charge[d] = "reserved" THEN ReleaseAttempt(d, "released")
                                             ELSE UNCHANGED <<stage, charge>>
             \/ /\ ToEmbed(d)
                /\ MayAttempt(d)
                /\ charge[d] # "debited"
                /\ stage' = [stage EXCEPT ![d] = "reserved"]
                /\ charge' = [charge EXCEPT ![d] = "reserved"]
                /\ Go(w, "reserved")
    /\ UNCHANGED <<doc, answers, unsettled, request, bounds, history>>

\* The provider is there, or it cannot be made.
Start(w) ==
    LET d == About(w) IN
    /\ worker[w].at = "reserved"
    /\ \/ /\ stage' = [stage EXCEPT ![d] = "running"]
          /\ Go(w, "running")
          /\ UNCHANGED charge
       \/ ReleaseAttempt(d, "failed") /\ Return(w)
    /\ UNCHANGED <<doc, jobs, answers, unsettled, request, bounds, history>>

\* The checks before the call.
Call(w) ==
    LET d == About(w) IN
    /\ worker[w].at = "running"
    /\ \/ Cancelled(w) /\ ReleaseAttempt(d, "released") /\ ReturnDropped(w)
       \/ /\ ~Cancelled(w)
          /\ doc[d].status # "ready"
          /\ ReleaseAttempt(d, "released")
          /\ Return(w)
       \/ /\ ~Cancelled(w)
          /\ doc[d].status = "ready"
          /\ Go(w, "calling")
          /\ UNCHANGED <<stage, charge>>
    /\ UNCHANGED <<doc, jobs, answers, unsettled, request, bounds, history>>

\* The provider answers, or the call raises.
Answer(w) ==
    LET d == About(w) IN
    /\ worker[w].at = "calling"
    /\ \/ /\ answers' = [answers EXCEPT ![d] = @ + 1]
          /\ Go(w, "answered")
          /\ UNCHANGED <<stage, charge>>
       \/ ReleaseAttempt(d, "failed") /\ Return(w) /\ UNCHANGED answers
    /\ UNCHANGED <<doc, jobs, unsettled, request, bounds, history>>

\* Mutant: a charge that was released meanwhile is left, the stage is not.
SettledUnchecked(d) ==
    /\ stage' = [stage EXCEPT ![d] = "settled"]
    /\ charge' = [charge EXCEPT ![d] = IF @ = "reserved" THEN "debited" ELSE @]
    /\ UNCHANGED unsettled

\* _settle_paid_stage: a charge that was released meanwhile refuses, and the
\* transaction is rolled back.
Settled(d) ==
    /\ charge[d] \in {"reserved", "debited"}
    /\ stage' = [stage EXCEPT ![d] = "settled"]
    /\ charge' = [charge EXCEPT ![d] = "debited"]
    /\ UNCHANGED unsettled

Unsettled(w, d) ==
    /\ Fail(w)
    /\ unsettled' = unsettled \cup {d}
    /\ UNCHANGED <<stage, charge>>

\* Mutant: what is not kept is not paid for.
DiscardedFree(d) == ReleaseAttempt(d, "released") /\ UNCHANGED unsettled

\* The vectors of an answer that is discarded are paid for.
Discarded(d) == Settled(d)

\* The checks after the call. A malformed answer is discarded as well.
Judge(w) ==
    LET d == About(w) IN
    /\ worker[w].at = "answered"
    /\ \/ /\ ~Cancelled(w) /\ doc[d].status = "ready"
          /\ Go(w, "storing")
          /\ UNCHANGED <<jobs, stage, charge, unsettled>>
       \/ /\ Discarded(d)
          /\ IF Cancelled(w) THEN ReturnDropped(w) ELSE Return(w)
          /\ UNCHANGED jobs
       \/ charge[d] \notin {"reserved", "debited"} /\ Unsettled(w, d)
    /\ UNCHANGED <<doc, answers, request, bounds, history>>

\* The vectors and the settlement in one commit.
Store(w) ==
    LET d == About(w) IN
    /\ worker[w].at = "storing"
    /\ \/ /\ Exists(d)
          /\ Settled(d)
          /\ doc' = [doc EXCEPT ![d].vectors = TRUE]
          /\ Return(w)
          /\ UNCHANGED jobs
       \/ /\ ~Exists(d) \/ charge[d] \notin {"reserved", "debited"}
          /\ Unsettled(w, d)
          /\ UNCHANGED doc
    /\ UNCHANGED <<answers, request, bounds, history>>

\* recover_stale_usage_reservations, of billing.
RecoverStale(d) ==
    /\ charge[d] = "reserved"
    /\ charge' = [charge EXCEPT ![d] = "released"]
    /\ UNCHANGED <<doc, jobs, stage, worker, request, bounds, answers, unsettled,
                   history>>

-----------------------------------------------------------------------------
Owner == \/ \E d \in Document : Approve(d)
         \/ \E q \in Request :
              \/ \E d \in Document, op \in {"cancel", "delete", "reindex"} : Ask(q, d, op)
              \/ Cancel(q) \/ Delete(q) \/ Reindex(q) \/ AskInVain(q)

Handle(w) == \/ Read(w) \/ Ingest(w) \/ Build(w)
             \/ Reserve(w) \/ Start(w) \/ Call(w) \/ Answer(w) \/ Judge(w) \/ Store(w)
             \/ See(w) \/ Complete(w)

Next == \/ Owner
        \/ \E w \in Worker : Claim(w) \/ Handle(w) \/ Break(w) \/ Crash(w)
        \/ \E d \in Document : RecoverStale(d)

Spec == Init /\ [][Next]_vars

\* The queues poll, and the provider's client has a timeout.
Fairness == \A w \in Worker : WF_vars(Claim(w) \/ Handle(w))

FairSpec == Spec /\ Fairness

-----------------------------------------------------------------------------
(* Properties.                                                             *)

TypeOK ==
    /\ doc \in [Document -> Knowledge]
    /\ jobs \in Seq(Job) /\ Len(jobs) <= JobCount
    /\ stage \in [Document -> {"none", "reserved"} \cup Attempted]
    /\ charge \in [Document -> {"none", "reserved", "debited", "released"}]
    /\ worker \in [Worker -> Doing]
    /\ \A q \in Request : request[q] # None => /\ request[q].saw \in Knowledge
                                              /\ request[q].jobs \subseteq 1 .. Len(jobs)
    /\ made \subseteq Request
    /\ faults \in 0 .. MaxFaults
    /\ answers \in [Document -> Nat]
    /\ unsettled \subseteq Document
    /\ replaced \subseteq Document /\ partly \subseteq Document

\* A document is sent to the paid provider once, however its jobs are
\* repeated: re-indexings and the end of two jobs share the chain's key, and
\* a retry or a job of another worker finds the stage that was running.
PaidOnce == \A d \in Document : answers[d] <= 1

\* The stage is settled exactly when its charge is debited, and only for an
\* answer of the provider.
StageMatchesCharge ==
    \A d \in Document : /\ stage[d] = "settled" <=> charge[d] = "debited"
                        /\ charge[d] = "debited" => answers[d] > 0

\* Once no worker is at it, an answer has been charged, the ones that came
\* after a cancellation, a deletion or a newer version included, unless its
\* settlement could not be committed.
AnswersAreCharged ==
    \A d \in Document :
      answers[d] > 0 /\ d \notin unsettled
        /\ (\A w \in Worker : worker[w].at \in {"answered", "storing"} => About(w) # d)
      => charge[d] = "debited"

\* What the library offers to retrieval has its chunks: a document is ready
\* only with ready chunks, though ingests and re-indexings overlap. Unless a
\* newer version has replaced it, or a re-indexing that had read chunks from
\* before an ingest left them as the ingest made them.
ReadyIsSearchable ==
    \A d \in Document \ (replaced \cup partly) :
        doc[d].status = "ready" => doc[d].chunks = "ready"

\* In the end every job is over, unless the worker that ran it has died: a
\* retry, a cancellation or a document that is gone keeps none waiting.
JobsEnd ==
    <>[](\A i \in 1 .. Len(jobs) :
           jobs[i].status \in Active =>
             /\ jobs[i].status = "running"
             /\ \A w \in Worker : worker[w].job # i)

\* A version that a newer one has replaced is not served again: re-indexing
\* is refused for an invalidated document.
ReplacedStaysOut == \A d \in replaced : doc[d].status # "ready"

=============================================================================
