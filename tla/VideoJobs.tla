------------------------------ MODULE VideoJobs ------------------------------
(* Paid and complimentary video jobs, from the upload of the photos to the *)
(* delivery or the refund. backend/app/video (service.py, router.py,       *)
(* maintenance.py, cache.py) and swico_video_node/worker.py.               *)
(*                                                                         *)
(* Most transactions lock the VideoControl row first and are one action.   *)
(* Two of them read jobs before they lock them, and write what follows     *)
(* from what they read: the sweep, and the completion of an attempt. Each  *)
(* is two actions. The payment handlers, the refunds and the media request *)
(* lock the job only, so they run in between; fulfil_video judges by the   *)
(* clock before it commits, and is two actions too.                        *)
(*                                                                         *)
(* Every job is of a user of its own. Photos, consent, templates and the   *)
(* budget of the cache only guard actions that may be refused.             *)
EXTENDS Naturals, FiniteSets

CONSTANTS
    Job,        \* video jobs
    Attempts,   \* 3 in sweep: leases after which a lapse is a failure
    Tries,      \* 4 in deliver_one: requests before an operator is asked
    Earlier,    \* complimentary videos each user had today
    MaxFaults,  \* bound: crashes of the API and outputs the cache loses
    Idle        \* "nothing in progress"

ASSUME JobAssumption   == IsFiniteSet(Job) /\ Idle \notin Job
ASSUME VideoBounds     == /\ Attempts \in Nat \ {0}
                          /\ Tries \in Nat \ {0}
                          /\ Earlier \in Nat
                          /\ MaxFaults \in Nat

VARIABLES
    paying,     \* jobs whose users choose to pay
    job,        \* VideoJob
    used,       \* VideoQuota.used of the user's day
    cache,      \* the attempt whose output is in the cache, or 0
    order,      \* PaymentOrder of the job
    razorpay,   \* what Razorpay knows: the payment, its notices, the refund
    intent,     \* VideoOutbox of kind "refund"
    delivery,   \* deliver_one between its two transactions
    fulfil,     \* what fulfill_video has decided and not committed
    txn,        \* the transaction that holds VideoControl and has read jobs
    cleaning,   \* jobs whose media the sweep is about to delete
    worker,     \* the job and the attempt the node works on
    late,       \* a completion the node no longer waits for
    faults,     \* bound: crashes and losses so far
    overwritten \* history: jobs written by who had not seen their last commit

vars == <<paying, job, used, cache, order, razorpay, intent, delivery, fulfil, txn,
          cleaning, worker, late, faults, overwritten>>

-----------------------------------------------------------------------------
Running  == {"preflighting", "processing"}
Terminal == {"ready", "expired", "failed", "cancelled", "refund_pending", "refunded"}
States   == {"none", "uploading", "preflight_queued", "validated", "checkout",
             "queued"} \cup Running \cup Terminal

\* time: "late" when the 300 seconds of a checkout are over, "over" when the
\* deadline is, or the 600 seconds of delivery once expires (expires_at) is
\* set. swept: the phase is media_deleted. hash is the attempt uploaded last.
VideoJob == [state: States, attempt: 0 .. Attempts + 1, lease: {"none", "held", "lapsed"},
             time: {"early", "late", "over"}, expires: BOOLEAN, hash: Nat,
             quota: {"none", "reserved", "consumed", "restored"}, swept: BOOLEAN]

NewJob == [state |-> "none", attempt |-> 0, lease |-> "none", time |-> "early",
           expires |-> FALSE, hash |-> 0, quota |-> "none", swept |-> FALSE]

\* captured: provider_payment_id is set.
Order    == [status: {"none", "creating", "created", "failed"},
             captured: BOOLEAN, refunded: {"no", "partly", "fully"}]
NoOrder  == [status |-> "none", captured |-> FALSE, refunded |-> "no"]

\* refund: ours, or "other" for one an operator made. asked: our requests on
\* their way; made: the refunds they have made.
Razorpay  == [paid: BOOLEAN, notices: 0 .. 2, asked: Nat, made: Nat,
              refund: {"none", "pending", "processed", "failed", "other"}]
NoPayment == [paid |-> FALSE, notices |-> 0, asked |-> 0, made |-> 0, refund |-> "none"]

Open      == {"pending", "submitted", "ambiguous"}
Intent    == [state: Open \cup {"none", "processed", "failed", "manual_review"},
              attempts: 0 .. Tries]
NoIntent  == [state |-> "none", attempts |-> 0]

Init ==
    /\ paying \in SUBSET Job
    /\ job = [j \in Job |-> NewJob]
    /\ used = [j \in Job |-> Earlier]
    /\ cache = [j \in Job |-> 0]
    /\ order = [j \in Job |-> NoOrder]
    /\ razorpay = [j \in Job |-> NoPayment]
    /\ intent = [j \in Job |-> NoIntent]
    /\ delivery = [j \in Job |-> Idle]
    /\ fulfil = [j \in Job |-> Idle]
    /\ txn = Idle
    /\ cleaning = {}
    /\ worker = Idle
    /\ late = Idle
    /\ faults = [crashes |-> 0, losses |-> 0]
    /\ overwritten = {}

money    == <<order, razorpay, intent, delivery, fulfil>>
node     == <<worker, late, paying>>
upkeep   == <<txn, cleaning, faults, overwritten>>

\* A transaction that takes both locks can run now.
Free(j) == txn = Idle /\ fulfil[j] = Idle

-----------------------------------------------------------------------------
(* fail, outbox and restore_allowance.                                     *)

\* outbox: one intent for each job and kind.
Wanted(j) == [intent EXCEPT ![j].state = IF @ = "none" THEN "pending" ELSE @]

Compensates(j) == order[j].captured /\ order[j].refunded = "no"

Restores(quota, infrastructure) ==
    quota = "reserved" \/ (infrastructure /\ quota = "consumed")

\* What fail writes to a job whose quota_state it has read.
FailedJob(j, quota, infrastructure, compensates, state) ==
    [job[j] EXCEPT !.state = IF compensates THEN "refund_pending" ELSE state,
                   !.lease = "none",
                   !.quota = IF Restores(quota, infrastructure) THEN "restored" ELSE @]

\* Mutant: a video that is not given back is counted down too.
LessUsedAlways(j, quota, infrastructure) == IF used[j] > 0 THEN used[j] - 1 ELSE 0

LessUsed(j, quota, infrastructure) ==
    IF Restores(quota, infrastructure) /\ used[j] > 0 THEN used[j] - 1 ELSE used[j]

\* fail in a transaction that has locked the job.
Fail(j, infrastructure, state) ==
    LET quota == job[j].quota
    IN  /\ job' = [job EXCEPT ![j] =
                     FailedJob(j, quota, infrastructure, Compensates(j), state)]
        /\ used' = [used EXCEPT ![j] = LessUsed(j, quota, infrastructure)]
        /\ intent' = IF Compensates(j) THEN Wanted(j) ELSE intent

-----------------------------------------------------------------------------
(* The user's requests.                                                    *)

\* create, if no validation and no render is queued before it.
Create(j) ==
    /\ Free(j)
    /\ job[j].state = "none"
    /\ \A k \in Job : job[k].state \notin Running \cup {"preflight_queued"}
    /\ job' = [job EXCEPT ![j].state = "uploading"]
    /\ UNCHANGED <<used, cache, money, node, upkeep>>

Preflight(j) ==
    /\ Free(j)
    /\ job[j].state = "uploading" /\ job[j].time # "over"
    /\ job' = [job EXCEPT ![j].state = "preflight_queued"]
    /\ UNCHANGED <<used, cache, money, node, upkeep>>

\* admit, complimentary: the quota row is locked and counted.
AdmitFree(j) ==
    /\ Free(j)
    /\ j \notin paying
    /\ job[j].state = "validated" /\ job[j].time # "over"
    /\ job' = [job EXCEPT ![j].state = "queued", ![j].quota = "reserved",
                          ![j].time = "early"]
    /\ used' = [used EXCEPT ![j] = @ + 1]
    /\ UNCHANGED <<cache, money, node, upkeep>>

\* admit, paid: the order and the hold are committed before Razorpay is asked.
AdmitPaid(j) ==
    /\ Free(j)
    /\ j \in paying
    /\ job[j].state = "validated" /\ job[j].time # "over"
    /\ job' = [job EXCEPT ![j].state = "checkout", ![j].time = "early"]
    /\ order' = [order EXCEPT ![j].status = "creating"]
    /\ UNCHANGED <<used, cache, razorpay, intent, delivery, fulfil, node, upkeep>>

OrderCreated(j) ==
    /\ order[j].status = "creating"
    /\ order' = [order EXCEPT ![j].status = "created"]
    /\ UNCHANGED <<job, used, cache, razorpay, intent, delivery, fulfil, node,
                   upkeep>>

\* The answer is lost: the job fails, whatever it has become meanwhile.
OrderUnknown(j) ==
    /\ order[j].status = "creating"
    /\ order' = [order EXCEPT ![j].status = "failed"]
    /\ job' = [job EXCEPT ![j].state = "failed", ![j].lease = "none"]
    /\ UNCHANGED <<used, cache, razorpay, intent, delivery, fulfil, node, upkeep>>

\* admit again after the hold: no second order is made.
AdmitAgain(j) ==
    /\ Free(j)
    /\ job[j].state = "checkout" /\ job[j].time # "early"
    /\ Fail(j, TRUE, "failed")
    /\ UNCHANGED <<cache, order, razorpay, delivery, fulfil, node, upkeep>>

Cancel(j) ==
    /\ Free(j)
    /\ job[j].state \notin Terminal \cup {"none"}
    /\ Fail(j, FALSE, "cancelled")
    /\ cache' = [cache EXCEPT ![j] = 0]
    /\ UNCHANGED <<order, razorpay, delivery, fulfil, node, upkeep>>

\* media finds the output gone before it expires. It locks the job only.
Media(j) ==
    /\ fulfil[j] = Idle
    /\ job[j].state = "ready" /\ job[j].time # "over"
    /\ cache[j] # job[j].hash
    /\ Fail(j, TRUE, "failed")
    /\ UNCHANGED <<cache, order, razorpay, delivery, fulfil, node, upkeep>>

-----------------------------------------------------------------------------
(* The payment.                                                            *)

\* The user pays; the payment and the order are announced, once each.
Pay(j) ==
    /\ order[j].status = "created" /\ ~razorpay[j].paid
    /\ razorpay' = [razorpay EXCEPT ![j].paid = TRUE, ![j].notices = 2]
    /\ UNCHANGED <<job, used, cache, order, intent, delivery, fulfil, node, upkeep>>

\* fulfill_video has the order and the job, and looks at the clock. The cache
\* may refuse to pin the sources.
FulfilRead(j) ==
    /\ fulfil[j] = Idle
    /\ razorpay[j].notices > 0
    /\ razorpay' = [razorpay EXCEPT ![j].notices = @ - 1]
    /\ \E verdict \in {"queue", "fail"} :
        /\ verdict = "queue" => job[j].state = "checkout" /\ job[j].time = "early"
        /\ fulfil' = [fulfil EXCEPT ![j] = verdict]
    /\ UNCHANGED <<job, used, cache, order, intent, delivery, node, upkeep>>

FulfilCommit(j) ==
    /\ fulfil[j] # Idle
    /\ fulfil' = [fulfil EXCEPT ![j] = Idle]
    /\ order' = [order EXCEPT ![j].captured = TRUE]
    /\ LET pending == order[j].refunded = "no"
       IN  \/ /\ job[j].state \in Terminal
              /\ pending /\ job[j].state \notin {"ready", "expired", "refunded"}
              /\ job' = [job EXCEPT ![j].state = "refund_pending"]
              /\ intent' = Wanted(j)
           \/ /\ job[j].state = "checkout" /\ pending /\ fulfil[j] = "queue"
              /\ job' = [job EXCEPT ![j].state = "queued"]
              /\ UNCHANGED intent
           \/ /\ job[j].state = "checkout" /\ pending /\ fulfil[j] = "fail"
              /\ job' = [job EXCEPT ![j].state = "refund_pending"]
              /\ intent' = Wanted(j)
           \/ /\ \/ job[j].state \notin Terminal \cup {"checkout"}
                 \/ job[j].state \in {"ready", "expired", "refunded"}
                 \/ ~pending
              /\ UNCHANGED <<job, intent>>
    /\ UNCHANGED <<used, cache, razorpay, delivery, node, upkeep>>

\* video_refund: the refund of the whole amount, or of a part.
Refunded(j, total) ==
    /\ order' = [order EXCEPT ![j].refunded = total]
    /\ job' = [job EXCEPT ![j].lease = "none", ![j].state =
                 IF total = "fully" THEN "refunded" ELSE "refund_pending"]
    /\ intent' = [intent EXCEPT ![j].state =
                    IF total = "fully" THEN "processed" ELSE "manual_review"]

\* refund.processed for the refund the outbox asked for.
RefundNotice(j) ==
    /\ fulfil[j] = Idle
    /\ razorpay[j].refund = "processed" /\ order[j].refunded # "fully"
    /\ Refunded(j, "fully")
    /\ UNCHANGED <<used, cache, razorpay, delivery, fulfil, node, upkeep>>

\* refund.processed for a refund an operator made, at any time.
OtherRefund(j, total) ==
    /\ fulfil[j] = Idle
    /\ order[j].captured /\ order[j].refunded = "no"
    /\ razorpay[j].refund = "none"
    /\ razorpay' = [razorpay EXCEPT ![j].refund = "other"]
    /\ Refunded(j, total)
    /\ UNCHANGED <<used, cache, delivery, fulfil, node, upkeep>>

-----------------------------------------------------------------------------
(* deliver_one, for refunds.                                               *)

\* Mutant: the intent is marked only when the provider has answered.
TakenUnmarked(j) == [intent EXCEPT ![j].attempts = IF @ < Tries THEN @ + 1 ELSE @]

\* The intent is marked ambiguous before the provider is asked.
Taken(j) ==
    [intent EXCEPT ![j].state = "ambiguous",
                   ![j].attempts = IF @ < Tries THEN @ + 1 ELSE @]

Deliver(j) ==
    /\ delivery[j] = Idle
    /\ intent[j].state \in Open
    /\ intent' = Taken(j)
    /\ delivery' = [delivery EXCEPT ![j] = [was |-> intent[j].state, got |-> "nothing"]]
    /\ UNCHANGED <<job, used, cache, order, razorpay, fulfil, node, upkeep>>

\* It looks for a refund with its receipt, and only the first time asks for one.
Ask(j) ==
    /\ delivery[j] # Idle /\ delivery[j].got = "nothing"
    /\ LET refund == razorpay[j].refund
           absent == refund \in {"none", "other"}
       IN  \/ /\ ~absent
              /\ delivery' = [delivery EXCEPT ![j].got =
                                IF refund = "pending" THEN "submitted" ELSE refund]
              /\ UNCHANGED razorpay
           \/ /\ absent /\ delivery[j].was # "pending"
              /\ delivery' = [delivery EXCEPT ![j].got = "manual_review"]
              /\ UNCHANGED razorpay
           \/ /\ absent /\ delivery[j].was = "pending"
              /\ razorpay' = [razorpay EXCEPT ![j].asked = @ + 1]
              /\ delivery' = [delivery EXCEPT ![j].got = "asked"]
    /\ UNCHANGED <<job, used, cache, order, intent, fulfil, node, upkeep>>

\* Razorpay makes the refund, unless the payment is refunded already. Who
\* asked may have gone.
MakeRefund(j) ==
    /\ razorpay[j].asked > 0
    /\ razorpay' = [razorpay EXCEPT ![j].asked = @ - 1,
                       ![j].made = IF razorpay[j].refund = "other" THEN @ ELSE @ + 1,
                       ![j].refund = IF @ = "none" THEN "pending" ELSE @]
    /\ delivery' = [delivery EXCEPT ![j] =
                       IF @ # Idle /\ @.got = "asked" /\ razorpay[j].refund # "other"
                       THEN [@ EXCEPT !.got = "submitted"] ELSE @]
    /\ UNCHANGED <<job, used, cache, order, intent, fulfil, node, upkeep>>

\* A request fails or times out.
AskInVain(j) ==
    /\ delivery[j] # Idle /\ delivery[j].got \in {"nothing", "asked"}
    /\ delivery' = [delivery EXCEPT ![j].got = "ambiguous"]
    /\ UNCHANGED <<job, used, cache, order, razorpay, intent, fulfil, node, upkeep>>

\* Mutant: an ambiguous answer is tried again for ever.
AnsweredLiterally(j) == delivery[j].got

Answered(j) ==
    IF delivery[j].got = "ambiguous" /\ intent[j].attempts = Tries
    THEN "manual_review" ELSE delivery[j].got

\* The second transaction, after a look at whether a webhook came first.
Delivered(j) ==
    /\ delivery[j] # Idle /\ delivery[j].got \notin {"nothing", "asked"}
    /\ fulfil[j] = Idle
    /\ delivery' = [delivery EXCEPT ![j] = Idle]
    /\ LET got == delivery[j].got
       IN  \/ /\ intent[j].state = "processed"
              /\ UNCHANGED <<job, order, intent>>
           \/ /\ intent[j].state # "processed" /\ got = "processed"
              /\ Refunded(j, "fully")
           \/ /\ intent[j].state # "processed" /\ got # "processed"
              /\ intent' = [intent EXCEPT ![j].state = Answered(j)]
              /\ UNCHANGED <<job, order>>
    /\ UNCHANGED <<used, cache, razorpay, fulfil, node, upkeep>>

DeliveryCrash(j) ==
    /\ delivery[j] # Idle
    /\ faults.crashes + faults.losses < MaxFaults
    /\ faults' = [faults EXCEPT !.crashes = @ + 1]
    /\ delivery' = [delivery EXCEPT ![j] = Idle]
    /\ UNCHANGED <<job, used, cache, order, razorpay, intent, fulfil, node, txn,
                   cleaning, overwritten>>

\* Razorpay decides.
RefundDecided(j, status) ==
    /\ razorpay[j].refund = "pending"
    /\ razorpay' = [razorpay EXCEPT ![j].refund = status]
    /\ UNCHANGED <<job, used, cache, order, intent, delivery, fulfil, node, upkeep>>

-----------------------------------------------------------------------------
(* The node.                                                               *)

\* Mutant: a validation may run beside a render.
NoneRendering == \A j \in Job : job[j].state # "processing"

NoneRunning == \A j \in Job : job[j].state \notin Running

\* claim: nothing runs, and paid or admitted work goes first. A lock on a job
\* is skipped.
Claim(j) ==
    /\ Free(j)
    /\ worker = Idle
    /\ NoneRunning
    /\ job[j].state \in {"queued", "preflight_queued"} /\ job[j].time # "over"
    /\ job[j].state = "preflight_queued" =>
        \A k \in Job : job[k].state = "queued" /\ job[k].time # "over"
                         => fulfil[k] # Idle
    /\ job' = [job EXCEPT ![j].state = IF @ = "queued" THEN "processing"
                                       ELSE "preflighting",
                          ![j].attempt = @ + 1,
                          ![j].lease = "held",
                          ![j].quota = IF @ = "reserved" /\ job[j].state = "queued"
                                       THEN "consumed" ELSE @]
    /\ worker' = [job |-> j, attempt |-> job[j].attempt + 1,
                  renders |-> job[j].state = "queued", outcome |-> "working"]
    /\ UNCHANGED <<used, cache, money, late, paying, upkeep>>

\* Or its template has changed.
ClaimStale(j) ==
    /\ Free(j)
    /\ worker = Idle
    /\ NoneRunning
    /\ job[j].state \in {"queued", "preflight_queued"} /\ job[j].time # "over"
    /\ Fail(j, TRUE, "failed")
    /\ UNCHANGED <<cache, order, razorpay, delivery, fulfil, node, upkeep>>

\* fenced, and the heartbeats that keep the lease from lapsing.
Fenced(j, attempt) ==
    /\ job[j].state \in Running
    /\ job[j].lease = "held" /\ job[j].time # "over"
    /\ job[j].attempt = attempt

\* The node has validated the photos or failed.
Judge(outcome) ==
    /\ worker # Idle /\ worker.outcome = "working"
    /\ worker.renders => outcome = "failed"
    /\ worker' = [worker EXCEPT !.outcome = outcome]
    /\ UNCHANGED <<job, used, cache, money, late, paying, upkeep>>

\* Or it has rendered a video, and uploads it: the cache takes no other bytes
\* than those it has.
Upload ==
    /\ worker # Idle /\ worker.outcome = "working" /\ worker.renders
    /\ LET j == worker.job
       IN  /\ Free(j)
           /\ Fenced(j, worker.attempt) /\ job[j].state = "processing"
           /\ cache[j] \in {0, worker.attempt}
           /\ cache' = [cache EXCEPT ![j] = worker.attempt]
           /\ job' = [job EXCEPT ![j].hash = worker.attempt]
    /\ worker' = [worker EXCEPT !.outcome = "ready"]
    /\ UNCHANGED <<used, money, late, paying, upkeep>>

\* It stops, is refused or loses the answer: what it sent last may have been
\* lost, or come later.
GiveUp ==
    /\ worker # Idle
    /\ \/ UNCHANGED late
       \/ worker.outcome # "working" /\ late' = worker
    /\ worker' = Idle
    /\ UNCHANGED <<job, used, cache, money, paying, upkeep>>

-----------------------------------------------------------------------------
(* The transactions that read jobs before they lock them.                  *)

\* What a transaction knows of the jobs it is going to write.
Knows(kind, verdict) ==
    txn' = [kind |-> kind, verdict |-> verdict,
            seen |-> [j \in {k \in DOMAIN verdict : verdict[k] # "clean"} |-> job[j]],
            compensates |-> {j \in DOMAIN verdict : Compensates(j)}]

\* complete, from the node or late.
CompleteRead(request) ==
    LET j == request.job
    IN  /\ txn = Idle
        /\ Fenced(j, request.attempt)
        /\ request.outcome \in {"valid", "failed", "ready"}
        /\ request.outcome = "valid" => job[j].state = "preflighting"
        /\ request.outcome = "ready" =>
            /\ job[j].state = "processing"
            /\ cache[j] = request.attempt /\ job[j].hash = request.attempt
        /\ Knows("complete", [k \in {j} |-> request.outcome])
        /\ worker' = IF worker = request THEN Idle ELSE worker
        /\ late' = IF late = request THEN Idle ELSE late
        /\ UNCHANGED <<job, used, cache, money, paying, cleaning, faults, overwritten>>

\* Mutant: one attempt more.
MayRetryOnceMore(row) == row.attempt <= Attempts

MayRetry(row) == row.attempt < Attempts

\* The order of the tests of sweep.
Verdict(j) ==
    LET row == job[j]
    IN  IF row.expires /\ row.time = "over" THEN "expire"
        ELSE IF row.state = "ready" THEN IF cache[j] = 0 THEN "fail" ELSE "keep"
        ELSE IF row.state \in Terminal THEN "clean"
        ELSE IF row.time = "over" THEN "fail"
        ELSE IF row.state = "checkout" /\ row.time # "early" THEN "fail"
        ELSE IF row.state \in Running /\ row.lease = "lapsed"
             THEN IF MayRetry(row) THEN "requeue" ELSE "fail"
        ELSE "keep"

SweepRead ==
    LET rows  == {j \in Job : job[j].state # "none" /\ ~job[j].swept}
        moved == {j \in rows : Verdict(j) # "keep"}
    IN  /\ txn = Idle /\ cleaning = {}
        /\ moved # {}
        /\ Knows("sweep", [j \in moved |-> Verdict(j)])
        /\ UNCHANGED <<job, used, cache, money, node, cleaning, faults, overwritten>>

\* The row a verdict leaves. Only attributes that it changes are written.
Written(j, verdict, compensates) ==
    CASE verdict = "expire"  -> [job[j] EXCEPT !.state =
                                   IF txn.seen[j].state = "expired" THEN @ ELSE "expired"]
      [] verdict \in {"fail", "failed"} ->
           FailedJob(j, txn.seen[j].quota, TRUE, compensates, "failed")
      [] verdict = "requeue" -> [job[j] EXCEPT !.lease = "none", !.hash = 0, !.state =
                                   IF txn.seen[j].state = "processing" THEN "queued"
                                   ELSE "preflight_queued"]
      [] verdict = "valid"   -> [job[j] EXCEPT !.lease = "none", !.state = "validated"]
      [] verdict = "ready"   -> [job[j] EXCEPT !.lease = "none", !.state = "ready",
                                               !.expires = TRUE, !.time = "early"]
      [] verdict = "clean"   -> job[j]

\* Mutant: the media of a job that waits again are deleted with the others.
DiscardedAll == {"expire", "fail", "clean", "requeue"}

\* The verdicts after which the sweep deletes the media of a job.
Discarded == {"expire", "fail", "clean"}

\* The commit of either. The order may have been read later than the job.
Commit(kind) ==
    LET about(verdicts) == {j \in DOMAIN txn.verdict : txn.verdict[j] \in verdicts}
        writes == DOMAIN txn.verdict \ about({"clean"})
        fails  == about({"fail", "failed"})
    IN  /\ txn # Idle /\ txn.kind = kind
        /\ \A j \in writes : fulfil[j] = Idle
        /\ \A j \in about({"ready"}) : cache[j] = job[j].hash
        /\ \E paid \in {txn.compensates, {j \in fails : Compensates(j)}} :
            /\ job' = [j \in Job |-> IF j \in DOMAIN txn.verdict
                                     THEN Written(j, txn.verdict[j], j \in paid)
                                     ELSE job[j]]
            /\ intent' = [j \in Job |-> IF j \in fails \cap paid
                                        THEN Wanted(j)[j] ELSE intent[j]]
        /\ used' = [j \in Job |-> IF j \in fails
                                  THEN LessUsed(j, txn.seen[j].quota, TRUE)
                                  ELSE used[j]]
        /\ cache' = [j \in Job |-> IF j \in about({"requeue"}) THEN 0 ELSE cache[j]]
        /\ cleaning' = IF kind = "sweep" THEN about(Discarded) ELSE cleaning
        /\ overwritten' = overwritten \cup
             {j \in writes : [job[j] EXCEPT !.time = "early"]
                               # [txn.seen[j] EXCEPT !.time = "early"]}
        /\ txn' = Idle
        /\ UNCHANGED <<order, razorpay, delivery, fulfil, node, faults>>

\* expire_output finds no output: the transaction rolls back.
CompleteAbort ==
    /\ txn # Idle /\ txn.kind = "complete"
    /\ \E j \in DOMAIN txn.verdict : txn.verdict[j] = "ready" /\ cache[j] # job[j].hash
    /\ txn' = Idle
    /\ UNCHANGED <<job, used, cache, money, node, cleaning, faults, overwritten>>

\* After the sweep has committed: the media, then the phase.
Clean(j) ==
    /\ j \in cleaning
    /\ cleaning' = cleaning \ {j}
    /\ cache' = [cache EXCEPT ![j] = 0]
    /\ job' = [job EXCEPT ![j].swept = @ \/ job[j].state \in Terminal \ {"ready"}]
    /\ UNCHANGED <<used, money, node, txn, faults, overwritten>>

\* The API stops in the middle of a sweep.
SweepCrash ==
    /\ faults.crashes + faults.losses < MaxFaults
    /\ faults' = [faults EXCEPT !.crashes = @ + 1]
    /\ \/ txn # Idle /\ txn.kind = "sweep"
       \/ cleaning # {}
    /\ txn' = Idle
    /\ cleaning' = {}
    /\ UNCHANGED <<job, used, cache, money, node, overwritten>>

-----------------------------------------------------------------------------
(* Time and the cache.                                                     *)

\* The cache drops an output when its deadline passes, or its delivery ends.
Tick(j) ==
    /\ job[j].time # "over"
    /\ job[j].state \notin Terminal \cup {"none"} \/ job[j].expires
    /\ LET time == IF job[j].state = "checkout" /\ job[j].time = "early"
                   THEN "late" ELSE "over"
       IN  /\ job' = [job EXCEPT ![j].time = time]
           /\ cache' = [cache EXCEPT ![j] = IF time = "over" THEN 0 ELSE @]
    /\ UNCHANGED <<used, money, node, upkeep>>

LeaseLapses(j) ==
    /\ job[j].lease = "held"
    /\ job' = [job EXCEPT ![j].lease = "lapsed"]
    /\ UNCHANGED <<used, cache, money, node, upkeep>>

LoseOutput(j) ==
    /\ cache[j] # 0
    /\ faults.crashes + faults.losses < MaxFaults
    /\ faults' = [faults EXCEPT !.losses = @ + 1]
    /\ cache' = [cache EXCEPT ![j] = 0]
    /\ UNCHANGED <<job, used, money, node, txn, cleaning, overwritten>>

-----------------------------------------------------------------------------
User(j) == Create(j) \/ Preflight(j) \/ AdmitFree(j) \/ AdmitPaid(j)
             \/ AdmitAgain(j) \/ Cancel(j) \/ Media(j) \/ Pay(j)

Decided(j) == \E status \in {"processed", "failed"} : RefundDecided(j, status)

Payments(j) == OrderCreated(j) \/ OrderUnknown(j) \/ FulfilRead(j)
                 \/ FulfilCommit(j) \/ RefundNotice(j)
                 \/ \E total \in {"partly", "fully"} : OtherRefund(j, total)
                 \/ Decided(j)

Delivery(j) == Deliver(j) \/ Ask(j) \/ MakeRefund(j) \/ AskInVain(j)
                 \/ Delivered(j)
                 \/ DeliveryCrash(j)

Node == \/ \E j \in Job : Claim(j) \/ ClaimStale(j)
        \/ \E outcome \in {"valid", "failed"} : Judge(outcome)
        \/ Upload \/ GiveUp

Complete == \/ \E request \in {worker, late} \ {Idle} : CompleteRead(request)
            \/ Commit("complete") \/ CompleteAbort

Sweep == SweepRead \/ Commit("sweep") \/ SweepCrash \/ \E j \in Job : Clean(j)

Clock(j) == Tick(j) \/ LeaseLapses(j) \/ LoseOutput(j)

Next == \/ \E j \in Job : User(j) \/ Payments(j) \/ Delivery(j) \/ Clock(j)
        \/ Node \/ Complete \/ Sweep

Spec == Init /\ [][Next]_vars

Maintained == SweepRead \/ Commit("sweep") \/ \E j \in Job : Clean(j)

\* The clock, the maintenance thread, the handlers that have begun and
\* Razorpay do not stop; users and the node may.
Fairness ==
    /\ WF_vars(Maintained)
    /\ WF_vars(Commit("complete") \/ CompleteAbort)
    /\ \A j \in Job :
        /\ WF_vars(Tick(j))
        /\ WF_vars(FulfilRead(j) \/ FulfilCommit(j))
        /\ WF_vars(MakeRefund(j) \/ Decided(j) \/ RefundNotice(j))
        /\ WF_vars(Deliver(j) \/ Ask(j) \/ AskInVain(j) \/ Delivered(j))

FairSpec == Spec /\ Fairness

-----------------------------------------------------------------------------
(* Properties                                                              *)

\* Types of the rows; no quota is negative, and a job is leased Attempts times
\* at most, or once more for the render of a validation that used them all.
TypeOK ==
    /\ paying \subseteq Job
    /\ job \in [Job -> VideoJob]
    /\ used \in [Job -> Nat]
    /\ cache \in [Job -> Nat]
    /\ order \in [Job -> Order]
    /\ razorpay \in [Job -> Razorpay]
    /\ intent \in [Job -> Intent]
    /\ cleaning \subseteq Job /\ overwritten \subseteq Job

\* "Only one preflight/render may run at a time": no claim, lapse, late
\* answer or repeated sweep ever leaves two jobs running (claim, sweep).
OneRunning == \A j, k \in Job : job[j].state \in Running /\ job[k].state \in Running
                                  => j = k

\* A refund is asked for once, through crashes, lost answers and the webhook
\* of a refund that an operator has made (deliver_one).
RefundedOnce == \A j \in Job : razorpay[j].made <= 1

\* While a video can be downloaded, the bytes in the cache are the ones that
\* the job names, unless the cache has lost them (output, complete, sweep).
OutputIsDelivered ==
    \A j \in Job : job[j].state = "ready" /\ job[j].time # "over" /\ faults.losses = 0
                     => cache[j] = job[j].hash

\* A complimentary video counts once, until it is given back, unless a sweep
\* gave back what a media request had (reserve_allowance, restore_allowance).
QuotaIsExact ==
    \A j \in Job \ overwritten :
        used[j] = Earlier + IF job[j].quota \in {"reserved", "consumed"} THEN 1 ELSE 0

\* What a captured payment comes to.
Ended(j) == \/ job[j].state \in {"ready", "expired"}
            \/ order[j].refunded # "no"
            \/ intent[j].state \in {"processed", "failed", "manual_review"}

\* A captured payment buys a video, or is refunded, or an operator is told
\* (the audit's video_refund_attention), unless a sweep wrote over its capture.
CapturesEnd ==
    \A j \in Job : razorpay[j].paid ~> (Ended(j) \/ j \in overwritten)

\* "late capture initiates compensation" (docs/VIDEO_GENERATION.md:52): a job
\* that has failed with a captured payment has an intent to refund it.
CapturedIsCompensated ==
    \A j \in Job : job[j].state \in {"failed", "cancelled"} /\ order[j].captured
                     => intent[j].state # "none" \/ order[j].refunded # "no"
=============================================================================
