-------------------------- MODULE VideoJobs_proofs --------------------------
(* Proofs about VideoJobs. Every step moves the row of a job in one of     *)
(* seven ways; what is known of jobs, transactions and refunds follows     *)
(* from those.                                                             *)
EXTENDS VideoJobs, TLAPS

-----------------------------------------------------------------------------
(* What is known besides the types.                                        *)

\* A job that is over and cannot be downloaded.
Gone == Terminal \ {"ready"}

\* Who works on what.
NodeKnown ==
    /\ worker # Idle => worker.job \in Job
    /\ late # Idle => late.job \in Job

\* What deliver_one has in hand.
Outcomes == {"submitted", "processed", "failed", "manual_review", "ambiguous"}
InHand   == [was: Open, got: Outcomes \cup {"nothing", "asked"}]
DeliveryKnown ==
    /\ delivery = [j \in Job |-> delivery[j]]
    /\ \A j \in Job : delivery[j] # Idle => delivery[j] \in InHand

\* What a transaction that has read jobs may conclude.
Verdicts(kind) == IF kind = "sweep" THEN {"expire", "fail", "clean", "requeue"}
                                    ELSE {"valid", "failed", "ready"}

\* What a transaction that has read jobs knows of them: leases are not taken
\* while it runs, and what is over stays over.
TxnKnown ==
    txn # Idle =>
      /\ txn.kind \in {"complete", "sweep"}
      /\ DOMAIN txn.verdict \subseteq Job
      /\ txn.kind = "sweep" => cleaning = {}
      /\ \A j \in DOMAIN txn.verdict :
           LET verdict == txn.verdict[j]
               seen    == txn.seen[j]
           IN /\ verdict \in Verdicts(txn.kind)
              /\ verdict # "clean" => seen \in VideoJob /\ job[j].attempt = seen.attempt
              /\ verdict = "requeue" => /\ seen.state \in Running
                                        /\ seen.attempt < Attempts
              /\ verdict = "valid" => /\ seen.state = "preflighting"
                                      /\ seen.attempt <= Attempts
              /\ verdict = "clean" => job[j].state \in Gone
              /\ verdict = "expire" /\ seen.state = "expired" => job[j].state \in Gone
              /\ txn.kind = "complete" => j \notin cleaning

\* The sweep deletes the media of jobs that are over.
CleanKnown == \A j \in cleaning : job[j].state \in Gone

\* A validation or a render has a lease left.
AttemptsKnown ==
    \A j \in Job :
      /\ job[j].state \in {"none", "uploading", "preflight_queued"}
           => job[j].attempt < Attempts
      /\ job[j].state \in {"preflighting", "validated", "checkout", "queued"}
           => job[j].attempt <= Attempts

Known == TypeOK /\ NodeKnown /\ DeliveryKnown /\ TxnKnown /\ CleanKnown /\ AttemptsKnown

-----------------------------------------------------------------------------
(* How a step moves the row of a job.                                      *)

\* Its state stays; its time does not come back.
Rests(j) ==
    /\ job'[j].state = job[j].state
    /\ job'[j].attempt = job[j].attempt
    /\ job'[j].quota = job[j].quota
    /\ job'[j].hash = job[j].hash
    /\ job[j].time = "over" => job'[j].time = "over"
    /\ used'[j] = used[j]

\* Its user or its payment brings it on.
Starts(j) ==
    /\ <<job[j].state, job'[j].state>> \in
         {<<"none", "uploading">>, <<"uploading", "preflight_queued">>,
          <<"validated", "checkout">>, <<"checkout", "queued">>}
    /\ job'[j].attempt = job[j].attempt
    /\ job'[j].quota = job[j].quota
    /\ used'[j] = used[j]

\* It counts against the quota.
Admitted(j) ==
    /\ txn = Idle
    /\ job[j].state = "validated" /\ job'[j].state = "queued"
    /\ job'[j].attempt = job[j].attempt
    /\ job'[j].quota = "reserved"
    /\ used'[j] = used[j] + 1

\* The node takes it, when nothing runs.
Claimed(j) ==
    /\ txn = Idle /\ NoneRunning
    /\ <<job[j].state, job'[j].state>> \in
         {<<"queued", "processing">>, <<"preflight_queued", "preflighting">>}
    /\ job'[j].attempt = job[j].attempt + 1
    /\ job'[j].quota = IF job[j].quota = "reserved" /\ job[j].state = "queued"
                       THEN "consumed" ELSE job[j].quota
    /\ used'[j] = used[j]
    /\ \A k \in Job : k # j => job'[k] = job[k]

\* Its output arrives.
Uploads(j) ==
    /\ txn = Idle
    /\ job[j].state = "processing" /\ job'[j].state = "processing"
    /\ job'[j].attempt = job[j].attempt
    /\ job'[j].quota = job[j].quota
    /\ used'[j] = used[j]

\* It is over, and its quota may be given back.
Stops(j) ==
    /\ job'[j].state \in {"failed", "cancelled", "refund_pending", "refunded"}
    /\ job'[j].attempt = job[j].attempt
    /\ \/ job'[j].quota = job[j].quota /\ used'[j] = used[j]
       \/ /\ job[j].quota \in {"reserved", "consumed"}
          /\ job'[j].quota = "restored"
          /\ used'[j] = IF used[j] > 0 THEN used[j] - 1 ELSE used[j]

\* A transaction writes what follows from what it has read.
Commits(j) ==
    /\ txn # Idle
    /\ j \in DOMAIN txn.verdict
    /\ txn.verdict[j] # "clean"
    /\ \E compensates \in BOOLEAN :
         job'[j] = Written(j, txn.verdict[j], compensates)
    /\ used'[j] = IF txn.verdict[j] \in {"fail", "failed"}
                  THEN LessUsed(j, txn.seen[j].quota, TRUE) ELSE used[j]
    /\ j \in overwritten' \/ [job[j] EXCEPT !.time = "early"]
                               = [txn.seen[j] EXCEPT !.time = "early"]
    /\ txn.verdict[j] = "ready" => cache[j] = job[j].hash

Moves(j) == \/ Rests(j) \/ Starts(j) \/ Admitted(j) \/ Claimed(j) \/ Uploads(j)
            \/ Stops(j)

-----------------------------------------------------------------------------
\* One row is written.
LEMMA RowWritten ==
    ASSUME TypeOK, NEW j \in Job, NEW row \in VideoJob,
           job' = [job EXCEPT ![j] = row]
    PROVE  /\ job' \in [Job -> VideoJob]
           /\ job'[j] = row
           /\ \A k \in Job : k # j => job'[k] = job[k]
BY DEF TypeOK

\* Whose row and count are left alone rests.
LEMMA OthersRest ==
    ASSUME NEW k \in Job, job'[k] = job[k], used'[k] = used[k]
    PROVE  Moves(k)
BY DEF Moves, Rests

\* fail, in a transaction that has locked the job.
LEMMA FailStops ==
    ASSUME TypeOK, NEW j \in Job, NEW infrastructure \in BOOLEAN,
           NEW state \in {"failed", "cancelled"}, Fail(j, infrastructure, state)
    PROVE  /\ job' \in [Job -> VideoJob]
           /\ used' \in [Job -> Nat]
           /\ Stops(j)
           /\ \A k \in Job : k # j => job'[k] = job[k] /\ used'[k] = used[k]
<1> DEFINE quota == job[j].quota
           row == FailedJob(j, quota, infrastructure, Compensates(j), state)
<1>1. job[j] \in VideoJob /\ used \in [Job -> Nat] /\ used[j] \in Nat
  BY DEF TypeOK
<1>2. /\ job' = [job EXCEPT ![j] = row]
      /\ used' = [used EXCEPT ![j] = LessUsed(j, quota, infrastructure)]
  BY DEF Fail
<1>3. /\ row \in VideoJob
      /\ row.state \in {state, "refund_pending"}
      /\ row.attempt = job[j].attempt
      /\ row.quota = IF Restores(quota, infrastructure) THEN "restored" ELSE quota
  BY <1>1 DEF FailedJob, VideoJob, States, Terminal
<1>4. LessUsed(j, quota, infrastructure) \in Nat
  BY <1>1 DEF LessUsed
<1>5. Restores(quota, infrastructure) => quota \in {"reserved", "consumed"}
  BY DEF Restores
<1> HIDE DEF row
<1>6. /\ job' \in [Job -> VideoJob]
      /\ job'[j] = row
      /\ \A k \in Job : k # j => job'[k] = job[k]
  BY <1>2, <1>3, RowWritten
<1>7. /\ used' \in [Job -> Nat]
      /\ used'[j] = LessUsed(j, quota, infrastructure)
      /\ \A k \in Job : k # j => used'[k] = used[k]
  BY <1>1, <1>2, <1>4
<1>8. used'[j] = IF Restores(quota, infrastructure) /\ used[j] > 0
                 THEN used[j] - 1 ELSE used[j]
  BY <1>7 DEF LessUsed
<1>9. Stops(j)
  BY <1>3, <1>5, <1>6, <1>8 DEF Stops
<1>10. QED BY <1>6, <1>7, <1>9

\* The step moves rows as it should, and they keep their types.
Moved == /\ job' \in [Job -> VideoJob]
         /\ used' \in [Job -> Nat]
         /\ \A k \in Job : Moves(k)

\* The step commits what a transaction concludes.
Committed == /\ job' \in [Job -> VideoJob]
             /\ used' \in [Job -> Nat]
             /\ txn # Idle /\ txn' = Idle
             /\ \A k \in Job : \/ /\ job'[k] = job[k] /\ used'[k] = used[k]
                                  /\ k \in DOMAIN txn.verdict => txn.verdict[k] = "clean"
                               \/ Commits(k)

\* A step that leaves the rows of jobs alone.
LEMMA NoneMoves ==
    ASSUME TypeOK, UNCHANGED <<job, used>>
    PROVE  Moved
BY DEF Moved, Moves, Rests, TypeOK

\* A step that writes one row, and counts no quota.
LEMMA OneMoves ==
    ASSUME TypeOK, NEW j \in Job, NEW row \in VideoJob,
           job' = [job EXCEPT ![j] = row], used' = used,
           job'[j] = row => Moves(j)
    PROVE  Moved
<1>1. /\ job' \in [Job -> VideoJob]
      /\ job'[j] = row
      /\ \A k \in Job : k # j => job'[k] = job[k]
  BY RowWritten
<1>2. QED BY <1>1, OthersRest DEF Moved, TypeOK

\* A step that fails one job.
LEMMA FailMoves ==
    ASSUME TypeOK, NEW j \in Job, NEW infrastructure \in BOOLEAN,
           NEW state \in {"failed", "cancelled"}, Fail(j, infrastructure, state)
    PROVE  Moved
BY FailStops, OthersRest DEF Moved, Moves

\* The requests of a user.
LEMMA UserMoves ==
    ASSUME TypeOK, NEW j \in Job, User(j)
    PROVE  Moved
<1>1. job \in [Job -> VideoJob] /\ job[j] \in VideoJob
  BY DEF TypeOK
<1>2. CASE Create(j)
  <2> DEFINE row == [job[j] EXCEPT !.state = "uploading"]
  <2>1. job' = [job EXCEPT ![j] = row] /\ used' = used /\ job[j].state = "none"
    BY <1>2 DEF Create
  <2>2. /\ row \in VideoJob
        /\ row.state = "uploading"
        /\ row.attempt = job[j].attempt
        /\ row.quota = job[j].quota
    BY <1>1 DEF VideoJob, States
  <2> HIDE DEF row
  <2>3. job'[j] = row => Moves(j)
    BY <2>1, <2>2 DEF Moves, Starts
  <2>4. QED BY <2>1, <2>2, <2>3, OneMoves
<1>3. CASE Preflight(j)
  <2> DEFINE row == [job[j] EXCEPT !.state = "preflight_queued"]
  <2>1. job' = [job EXCEPT ![j] = row] /\ used' = used /\ job[j].state = "uploading"
    BY <1>3 DEF Preflight
  <2>2. /\ row \in VideoJob
        /\ row.state = "preflight_queued"
        /\ row.attempt = job[j].attempt
        /\ row.quota = job[j].quota
    BY <1>1 DEF VideoJob, States
  <2> HIDE DEF row
  <2>3. job'[j] = row => Moves(j)
    BY <2>1, <2>2 DEF Moves, Starts
  <2>4. QED BY <2>1, <2>2, <2>3, OneMoves
<1>4. CASE AdmitFree(j)
  <2> DEFINE row == [job[j] EXCEPT !.state = "queued", !.quota = "reserved",
                                   !.time = "early"]
  <2>1. /\ job' = [job EXCEPT ![j] = row]
        /\ used' = [used EXCEPT ![j] = @ + 1]
        /\ job[j].state = "validated"
        /\ txn = Idle
    BY <1>1, <1>4 DEF AdmitFree, Free
  <2>2. /\ row \in VideoJob
        /\ row.state = "queued"
        /\ row.attempt = job[j].attempt
        /\ row.quota = "reserved"
    BY <1>1 DEF VideoJob, States
  <2> HIDE DEF row
  <2>3. /\ job' \in [Job -> VideoJob]
        /\ job'[j] = row
        /\ \A k \in Job : k # j => job'[k] = job[k]
    BY <2>1, <2>2, RowWritten
  <2>4. /\ used' \in [Job -> Nat]
        /\ used'[j] = used[j] + 1
        /\ \A k \in Job : k # j => used'[k] = used[k]
    BY <2>1 DEF TypeOK
  <2>5. Moves(j)
    BY <2>1, <2>2, <2>3, <2>4 DEF Moves, Admitted
  <2>6. QED BY <2>3, <2>4, <2>5, OthersRest DEF Moved
<1>5. CASE AdmitPaid(j)
  <2> DEFINE row == [job[j] EXCEPT !.state = "checkout", !.time = "early"]
  <2>1. job' = [job EXCEPT ![j] = row] /\ used' = used /\ job[j].state = "validated"
    BY <1>1, <1>5 DEF AdmitPaid
  <2>2. /\ row \in VideoJob
        /\ row.state = "checkout"
        /\ row.attempt = job[j].attempt
        /\ row.quota = job[j].quota
    BY <1>1 DEF VideoJob, States
  <2> HIDE DEF row
  <2>3. job'[j] = row => Moves(j)
    BY <2>1, <2>2 DEF Moves, Starts
  <2>4. QED BY <2>1, <2>2, <2>3, OneMoves
<1>6. CASE AdmitAgain(j)
  BY <1>6, FailMoves DEF AdmitAgain
<1>7. CASE Cancel(j)
  BY <1>7, FailMoves DEF Cancel
<1>8. CASE Media(j)
  BY <1>8, FailMoves DEF Media
<1>9. CASE Pay(j)
  BY <1>9, NoneMoves DEF Pay
<1>10. QED BY <1>2, <1>3, <1>4, <1>5, <1>6, <1>7, <1>8, <1>9 DEF User

\* A refund ends the job.
LEMMA RefundedMoves ==
    ASSUME TypeOK, NEW j \in Job, NEW total, Refunded(j, total), used' = used
    PROVE  Moved
<1> DEFINE row == [job[j] EXCEPT !.lease = "none", !.state =
                     IF total = "fully" THEN "refunded" ELSE "refund_pending"]
<1>1. job \in [Job -> VideoJob] /\ job[j] \in VideoJob
  BY DEF TypeOK
<1>2. job' = [job EXCEPT ![j] = row]
  BY <1>1 DEF Refunded
<1>3. /\ row \in VideoJob
      /\ row.state \in {"refunded", "refund_pending"}
      /\ row.attempt = job[j].attempt
      /\ row.quota = job[j].quota
  BY <1>1 DEF VideoJob, States, Terminal
<1> HIDE DEF row
<1>4. job'[j] = row => Moves(j)
  BY <1>3 DEF Moves, Stops
<1>5. QED BY <1>2, <1>3, <1>4, OneMoves

\* The payments.
LEMMA PaymentsMove ==
    ASSUME TypeOK, NEW j \in Job, Payments(j)
    PROVE  Moved
<1>1. job \in [Job -> VideoJob] /\ job[j] \in VideoJob
  BY DEF TypeOK
<1>2. CASE OrderCreated(j) \/ FulfilRead(j) \/ Decided(j)
  BY <1>2, NoneMoves DEF OrderCreated, FulfilRead, Decided, RefundDecided
<1>3. CASE OrderUnknown(j)
  <2> DEFINE row == [job[j] EXCEPT !.state = "failed", !.lease = "none"]
  <2>1. job' = [job EXCEPT ![j] = row] /\ used' = used
    BY <1>1, <1>3 DEF OrderUnknown
  <2>2. /\ row \in VideoJob
        /\ row.state = "failed"
        /\ row.attempt = job[j].attempt
        /\ row.quota = job[j].quota
    BY <1>1 DEF VideoJob, States, Terminal
  <2> HIDE DEF row
  <2>3. job'[j] = row => Moves(j)
    BY <2>1, <2>2 DEF Moves, Stops
  <2>4. QED BY <2>1, <2>2, <2>3, OneMoves
<1>4. CASE FulfilCommit(j)
  <2>1. used' = used
    BY <1>4 DEF FulfilCommit
  <2>2. CASE job' = job
    BY <2>1, <2>2, NoneMoves
  <2>3. CASE job' = [job EXCEPT ![j].state = "refund_pending"]
    <3> DEFINE row == [job[j] EXCEPT !.state = "refund_pending"]
    <3>1. job' = [job EXCEPT ![j] = row]
      BY <2>3
    <3>2. /\ row \in VideoJob
          /\ row.state = "refund_pending"
          /\ row.attempt = job[j].attempt
          /\ row.quota = job[j].quota
      BY <1>1 DEF VideoJob, States, Terminal
    <3> HIDE DEF row
    <3>3. job'[j] = row => Moves(j)
      BY <2>1, <3>2 DEF Moves, Stops
    <3>4. QED BY <2>1, <3>1, <3>2, <3>3, OneMoves
  <2>4. CASE job[j].state = "checkout" /\ job' = [job EXCEPT ![j].state = "queued"]
    <3> DEFINE row == [job[j] EXCEPT !.state = "queued"]
    <3>1. job' = [job EXCEPT ![j] = row]
      BY <2>4
    <3>2. /\ row \in VideoJob
          /\ row.state = "queued"
          /\ row.attempt = job[j].attempt
          /\ row.quota = job[j].quota
      BY <1>1 DEF VideoJob, States, Terminal
    <3> HIDE DEF row
    <3>3. job'[j] = row => Moves(j)
      BY <2>1, <2>4, <3>2 DEF Moves, Starts
    <3>4. QED BY <2>1, <3>1, <3>2, <3>3, OneMoves
  <2>5. QED BY <1>4, <2>2, <2>3, <2>4 DEF FulfilCommit
<1>5. CASE RefundNotice(j)
  BY <1>5, RefundedMoves DEF RefundNotice
<1>6. ASSUME NEW total \in {"partly", "fully"}, OtherRefund(j, total)
      PROVE  Moved
  BY <1>6, RefundedMoves DEF OtherRefund
<1>7. QED BY <1>2, <1>3, <1>4, <1>5, <1>6 DEF Payments

\* deliver_one.
LEMMA DeliveryMoves ==
    ASSUME TypeOK, NEW j \in Job, Delivery(j)
    PROVE  Moved
<1>1. CASE Deliver(j) \/ Ask(j) \/ MakeRefund(j) \/ AskInVain(j) \/ DeliveryCrash(j)
  BY <1>1, NoneMoves DEF Deliver, Ask, MakeRefund, AskInVain, DeliveryCrash
<1>2. CASE Delivered(j)
  <2>1. used' = used
    BY <1>2 DEF Delivered
  <2>2. job' = job \/ Refunded(j, "fully")
    BY <1>2 DEF Delivered
  <2>3. QED BY <2>1, <2>2, NoneMoves, RefundedMoves
<1>3. QED BY <1>1, <1>2 DEF Delivery

\* The clock.
LEMMA ClockMoves ==
    ASSUME TypeOK, NEW j \in Job, Clock(j)
    PROVE  Moved
<1>1. job \in [Job -> VideoJob] /\ job[j] \in VideoJob
  BY DEF TypeOK
<1>2. CASE Tick(j)
  <2> DEFINE time == IF job[j].state = "checkout" /\ job[j].time = "early"
                     THEN "late" ELSE "over"
             row == [job[j] EXCEPT !.time = time]
  <2>1. job' = [job EXCEPT ![j] = row] /\ used' = used /\ job[j].time # "over"
    BY <1>1, <1>2 DEF Tick
  <2>2. row \in VideoJob /\ row = [job[j] EXCEPT !.time = row.time]
    BY <1>1 DEF VideoJob
  <2>3. /\ row.state = job[j].state
        /\ row.attempt = job[j].attempt
        /\ row.quota = job[j].quota
        /\ row.hash = job[j].hash
    BY <1>1 DEF VideoJob
  <2> HIDE DEF row
  <2>4. job'[j] = row => Moves(j)
    BY <2>1, <2>3 DEF Moves, Rests
  <2>5. QED BY <2>1, <2>2, <2>4, OneMoves
<1>3. CASE LeaseLapses(j)
  <2> DEFINE row == [job[j] EXCEPT !.lease = "lapsed"]
  <2>1. job' = [job EXCEPT ![j] = row] /\ used' = used
    BY <1>1, <1>3 DEF LeaseLapses
  <2>2. /\ row \in VideoJob
        /\ row.state = job[j].state
        /\ row.attempt = job[j].attempt
        /\ row.quota = job[j].quota
        /\ row.hash = job[j].hash
        /\ row.time = job[j].time
    BY <1>1 DEF VideoJob
  <2> HIDE DEF row
  <2>3. job'[j] = row => Moves(j)
    BY <2>1, <2>2 DEF Moves, Rests
  <2>4. QED BY <2>1, <2>2, <2>3, OneMoves
<1>4. CASE LoseOutput(j)
  BY <1>4, NoneMoves DEF LoseOutput
<1>5. QED BY <1>2, <1>3, <1>4 DEF Clock

\* The node.
LEMMA NodeMoves ==
    ASSUME Known, Node
    PROVE  Moved
<1> USE DEF Known
<1>1. job \in [Job -> VideoJob]
  BY DEF TypeOK
<1>2. ASSUME NEW j \in Job, Claim(j)
      PROVE  Moved
  <2> DEFINE s == IF job[j].state = "queued" THEN "processing" ELSE "preflighting"
             q == IF job[j].quota = "reserved" /\ job[j].state = "queued"
                  THEN "consumed" ELSE job[j].quota
             n == job[j].attempt + 1
             row == [job[j] EXCEPT !.state = s, !.attempt = n, !.lease = "held",
                                   !.quota = q]
  <2>1. /\ txn = Idle /\ NoneRunning
        /\ job[j].state \in {"queued", "preflight_queued"}
        /\ used' = used
        /\ job' = [job EXCEPT ![j].state = IF @ = "queued" THEN "processing"
                                           ELSE "preflighting",
                              ![j].attempt = @ + 1,
                              ![j].lease = "held",
                              ![j].quota = IF @ = "reserved" /\ job[j].state = "queued"
                                           THEN "consumed" ELSE @]
    BY <1>2 DEF Claim, Free
  <2>2. job' = [job EXCEPT ![j] = row]
    BY <1>1, <2>1
  <2>3. job[j].attempt <= Attempts /\ Attempts \in Nat
    BY <1>1, <2>1, VideoBounds DEF AttemptsKnown, VideoJob
  <2>4. /\ s \in States
        /\ n \in 0 .. Attempts + 1
        /\ q \in {"none", "reserved", "consumed", "restored"}
    BY <1>1, <2>3 DEF VideoJob, States, Running
  <2>5. <<job[j].state, s>> \in
          {<<"queued", "processing">>, <<"preflight_queued", "preflighting">>}
    BY <2>1
  <2>6. /\ row.state = s
        /\ row.attempt = n
        /\ row.quota = q
    BY <1>1 DEF VideoJob
  <2> HIDE DEF s, q, n
  <2>7. row \in VideoJob
    BY <1>1, <2>4 DEF VideoJob
  <2> HIDE DEF row
  <2>8. job'[j] = row => Moves(j)
    BY <2>1, <2>2, <2>5, <2>6, <2>7, RowWritten DEF Moves, Claimed, s, q, n
  <2>9. QED BY <2>1, <2>2, <2>7, <2>8, OneMoves
<1>3. ASSUME NEW j \in Job, ClaimStale(j)
      PROVE  Moved
  BY <1>3, FailMoves DEF ClaimStale
<1>4. CASE Upload
  <2> DEFINE j == worker.job
             n == worker.attempt
             row == [job[j] EXCEPT !.hash = n]
  <2>1. /\ worker # Idle
        /\ txn = Idle
        /\ job[j].state = "processing" /\ job[j].attempt = n
        /\ job' = [job EXCEPT ![j].hash = n]
        /\ used' = used
    BY <1>4 DEF Upload, Free, Fenced
  <2>2. j \in Job
    BY <2>1 DEF NodeKnown
  <2>3. job[j] \in VideoJob /\ n \in Nat
    BY <1>1, <2>1, <2>2, VideoBounds DEF VideoJob
  <2> HIDE DEF j, n
  <2>4. job' = [job EXCEPT ![j] = row]
    BY <2>1
  <2>5. /\ row \in VideoJob
        /\ row.state = job[j].state
        /\ row.attempt = job[j].attempt
        /\ row.quota = job[j].quota
    BY <2>3 DEF VideoJob
  <2> HIDE DEF row
  <2>6. job'[j] = row => Moves(j)
    BY <2>1, <2>5 DEF Moves, Uploads
  <2>7. QED BY <2>1, <2>2, <2>4, <2>5, <2>6, OneMoves
<1>5. CASE GiveUp \/ \E outcome \in {"valid", "failed"} : Judge(outcome)
  BY <1>5, NoneMoves DEF GiveUp, Judge
<1>6. QED BY <1>2, <1>3, <1>4, <1>5 DEF Node

\* What a transaction writes is a row.
LEMMA WrittenTypes ==
    ASSUME Known, txn # Idle, NEW j \in DOMAIN txn.verdict,
           NEW compensates \in BOOLEAN
    PROVE  /\ Written(j, txn.verdict[j], compensates) \in VideoJob
           /\ LessUsed(j, txn.seen[j].quota, TRUE) \in Nat
<1> DEFINE verdict == txn.verdict[j]
           seen == txn.seen[j]
<1>1. job[j] \in VideoJob /\ used[j] \in Nat
  BY DEF Known, TxnKnown, TypeOK
<1>2. verdict \in Verdicts(txn.kind)
  BY DEF Known, TxnKnown
<1>3. LessUsed(j, seen.quota, TRUE) \in Nat
  <2> DEFINE b == Restores(seen.quota, TRUE) /\ used[j] > 0
  <2>1. used[j] > 0 => used[j] - 1 \in Nat
    BY <1>1
  <2>2. LessUsed(j, seen.quota, TRUE) = IF b THEN used[j] - 1 ELSE used[j]
    BY DEF LessUsed
  <2>3. b => used[j] > 0
    OBVIOUS
  <2> HIDE DEF b
  <2>4. QED BY <1>1, <2>1, <2>2, <2>3
<1>4. CASE verdict = "expire"
  <2>1. Written(j, verdict, compensates) =
          [job[j] EXCEPT !.state = IF seen.state = "expired" THEN @ ELSE "expired"]
    BY <1>4 DEF Written
  <2>2. QED BY <1>1, <1>3, <2>1 DEF VideoJob, States, Terminal
<1>5. CASE verdict \in {"fail", "failed"}
  <2>1. Written(j, verdict, compensates) =
          FailedJob(j, seen.quota, TRUE, compensates, "failed")
    BY <1>5 DEF Written
  <2>2. QED BY <1>1, <1>3, <2>1 DEF FailedJob, VideoJob, States, Terminal
<1>6. CASE verdict = "requeue"
  <2> DEFINE s == IF seen.state = "processing" THEN "queued" ELSE "preflight_queued"
  <2>1. Written(j, verdict, compensates) =
          [job[j] EXCEPT !.lease = "none", !.hash = 0, !.state = s]
    BY <1>6 DEF Written
  <2>2. s \in States
    BY DEF States
  <2> HIDE DEF s
  <2>3. [job[j] EXCEPT !.lease = "none", !.hash = 0, !.state = s] \in VideoJob
    BY <1>1, <2>2 DEF VideoJob
  <2>4. QED BY <1>3, <2>1, <2>3
<1>7. CASE verdict = "valid"
  <2>1. Written(j, verdict, compensates) =
          [job[j] EXCEPT !.lease = "none", !.state = "validated"]
    BY <1>7 DEF Written
  <2>2. QED BY <1>1, <1>3, <2>1 DEF VideoJob, States
<1>8. CASE verdict = "ready"
  <2>1. Written(j, verdict, compensates) =
          [job[j] EXCEPT !.lease = "none", !.state = "ready", !.expires = TRUE,
                         !.time = "early"]
    BY <1>8 DEF Written
  <2>2. QED BY <1>1, <1>3, <2>1 DEF VideoJob, States, Terminal
<1>9. CASE verdict = "clean"
  <2>1. Written(j, verdict, compensates) = job[j]
    BY <1>9 DEF Written
  <2>2. QED BY <1>1, <1>3, <2>1
<1>10. QED BY <1>2, <1>4, <1>5, <1>6, <1>7, <1>8, <1>9 DEF Verdicts

\* What a transaction that has read jobs does to each of them.
LEMMA CommitWrites ==
    ASSUME Known, NEW kind, Commit(kind)
    PROVE  Committed
<1>1. txn # Idle /\ DOMAIN txn.verdict \subseteq Job
  BY DEF Commit, Known, TxnKnown
<1> DEFINE writes == DOMAIN txn.verdict \ {j \in DOMAIN txn.verdict :
                                             txn.verdict[j] \in {"clean"}}
           fails  == {j \in DOMAIN txn.verdict : txn.verdict[j] \in {"fail", "failed"}}
<1>2. PICK paid : job' = [j \in Job |-> IF j \in DOMAIN txn.verdict
                                        THEN Written(j, txn.verdict[j], j \in paid)
                                        ELSE job[j]]
  BY DEF Commit
<1>3. /\ used' = [j \in Job |-> IF j \in fails
                                THEN LessUsed(j, txn.seen[j].quota, TRUE)
                                ELSE used[j]]
      /\ overwritten' = overwritten \cup
             {j \in writes : [job[j] EXCEPT !.time = "early"]
                               # [txn.seen[j] EXCEPT !.time = "early"]}
      /\ \A j \in DOMAIN txn.verdict : txn.verdict[j] = "ready" => cache[j] = job[j].hash
  BY DEF Commit
<1>4. ASSUME NEW j \in Job
      PROVE  /\ job'[j] \in VideoJob
             /\ used'[j] \in Nat
             /\ \/ /\ job'[j] = job[j] /\ used'[j] = used[j]
                   /\ j \in DOMAIN txn.verdict => txn.verdict[j] = "clean"
                \/ Commits(j)
  <2>1. job[j] \in VideoJob /\ used[j] \in Nat
    BY DEF Known, TypeOK
  <2>2. CASE j \notin DOMAIN txn.verdict
    BY <1>2, <1>3, <2>1, <2>2
  <2>3. CASE j \in DOMAIN txn.verdict
    <3> DEFINE compensates == j \in paid
    <3>1. compensates \in BOOLEAN
      OBVIOUS
    <3>2. job'[j] = Written(j, txn.verdict[j], compensates)
      BY <1>2, <2>3
    <3> HIDE DEF compensates
    <3>3. job'[j] \in VideoJob /\ LessUsed(j, txn.seen[j].quota, TRUE) \in Nat
      BY <1>1, <2>3, <3>1, <3>2, WrittenTypes
    <3>4. used'[j] = IF txn.verdict[j] \in {"fail", "failed"}
                     THEN LessUsed(j, txn.seen[j].quota, TRUE) ELSE used[j]
      BY <1>3, <2>3
    <3>5. CASE txn.verdict[j] = "clean"
      BY <2>1, <3>2, <3>4, <3>5 DEF Written
    <3>6. CASE txn.verdict[j] # "clean"
      <4>1. j \in overwritten' \/ [job[j] EXCEPT !.time = "early"]
                                    = [txn.seen[j] EXCEPT !.time = "early"]
        BY <1>3, <2>3, <3>6
      <4>2. Commits(j)
        BY <1>1, <1>3, <2>3, <3>1, <3>2, <3>4, <3>6, <4>1 DEF Commits
      <4>3. QED BY <2>1, <3>3, <3>4, <4>2
    <3>7. QED BY <3>5, <3>6
  <2>4. QED BY <2>2, <2>3
<1> HIDE DEF fails, writes
<1>5. job' \in [Job -> VideoJob] /\ used' \in [Job -> Nat]
  BY <1>2, <1>3, <1>4
<1>6. txn' = Idle
  BY DEF Commit
<1>7. QED BY <1>1, <1>4, <1>5, <1>6 DEF Committed

\* The sweep and the completion of an attempt.
LEMMA UpkeepMoves ==
    ASSUME Known, Complete \/ Sweep
    PROVE  Moved \/ Commit("complete") \/ Commit("sweep")
<1> USE DEF Known
<1>1. CASE CompleteAbort \/ SweepRead \/ SweepCrash
            \/ \E request \in {worker, late} \ {Idle} : CompleteRead(request)
  BY <1>1, NoneMoves DEF CompleteAbort, SweepRead, SweepCrash, CompleteRead
<1>3. ASSUME NEW j \in Job, Clean(j)
      PROVE  Moved
  <2> DEFINE b == job[j].swept \/ job[j].state \in Terminal \ {"ready"}
             row == [job[j] EXCEPT !.swept = b]
  <2>1. job[j] \in VideoJob
    BY DEF TypeOK
  <2>2. job' = [job EXCEPT ![j] = row] /\ used' = used
    BY <1>3 DEF Clean
  <2>3. b \in BOOLEAN
    BY <2>1 DEF VideoJob
  <2> HIDE DEF b
  <2>4. /\ row \in VideoJob
        /\ row.state = job[j].state
        /\ row.attempt = job[j].attempt
        /\ row.quota = job[j].quota
        /\ row.hash = job[j].hash
        /\ row.time = job[j].time
    BY <2>1, <2>3 DEF VideoJob
  <2> HIDE DEF row
  <2>5. job'[j] = row => Moves(j)
    BY <2>2, <2>4 DEF Moves, Rests
  <2>6. QED BY <2>2, <2>4, <2>5, OneMoves
<1>4. QED BY <1>1, <1>3 DEF Complete, Sweep

\* Every step moves rows as it should.
LEMMA StepsMove ==
    ASSUME Known, [Next]_vars
    PROVE  Moved \/ Commit("complete") \/ Commit("sweep")
<1>1. CASE UNCHANGED vars
  BY <1>1, NoneMoves DEF vars, Known
<1>2. QED
  BY <1>1, UserMoves, PaymentsMove, DeliveryMoves, ClockMoves, NodeMoves, UpkeepMoves
  DEF Next, Known

-----------------------------------------------------------------------------
(* Jobs stay known.                                                        *)

\* The row a transaction leaves, by its verdict.
LEMMA CommitsRow ==
    ASSUME Known, NEW j \in Job, Commits(j)
    PROVE  LET verdict == txn.verdict[j]
               seen    == txn.seen[j]
           IN /\ verdict \in Verdicts(txn.kind) \ {"clean"}
              /\ job'[j].attempt = job[j].attempt
              /\ verdict = "expire" =>
                   /\ job'[j].state = IF seen.state = "expired" THEN job[j].state
                                      ELSE "expired"
                   /\ job'[j].quota = job[j].quota
                   /\ job'[j].hash = job[j].hash
                   /\ job'[j].time = job[j].time
              /\ verdict \in {"fail", "failed"} =>
                   /\ job'[j].state \in {"failed", "refund_pending"}
                   /\ job'[j].quota = IF Restores(seen.quota, TRUE) THEN "restored"
                                      ELSE job[j].quota
              /\ verdict = "requeue" =>
                   /\ job'[j].state = IF seen.state = "processing" THEN "queued"
                                      ELSE "preflight_queued"
                   /\ job'[j].quota = job[j].quota
              /\ verdict = "valid" =>
                   /\ job'[j].state = "validated"
                   /\ job'[j].quota = job[j].quota
              /\ verdict = "ready" =>
                   /\ job'[j].state = "ready"
                   /\ job'[j].quota = job[j].quota
                   /\ job'[j].hash = job[j].hash
<1> DEFINE verdict == txn.verdict[j]
           seen == txn.seen[j]
<1>1. job[j] \in VideoJob
  BY DEF Known, TypeOK
<1>2. verdict \in Verdicts(txn.kind) \ {"clean"}
  BY DEF Commits, Known, TxnKnown
<1>3. PICK compensates \in BOOLEAN : job'[j] = Written(j, verdict, compensates)
  BY DEF Commits
<1>4. CASE verdict = "expire"
  <2> DEFINE s == IF seen.state = "expired" THEN job[j].state ELSE "expired"
  <2>1. job'[j] = [job[j] EXCEPT !.state = s]
    BY <1>3, <1>4 DEF Written
  <2> HIDE DEF s
  <2>2. /\ job'[j].state = s
        /\ job'[j].attempt = job[j].attempt
        /\ job'[j].quota = job[j].quota
        /\ job'[j].hash = job[j].hash
        /\ job'[j].time = job[j].time
    BY <1>1, <2>1 DEF VideoJob
  <2>3. QED BY <1>2, <1>4, <2>2 DEF s
<1>5. CASE verdict \in {"fail", "failed"}
  <2> DEFINE q == IF Restores(seen.quota, TRUE) THEN "restored" ELSE job[j].quota
             s == IF compensates THEN "refund_pending" ELSE "failed"
  <2>1. job'[j] = FailedJob(j, seen.quota, TRUE, compensates, "failed")
    BY <1>3, <1>5 DEF Written
  <2>2. job'[j] = [job[j] EXCEPT !.state = s, !.lease = "none", !.quota = q]
    BY <2>1 DEF FailedJob
  <2> HIDE DEF q, s
  <2>3. /\ job'[j].state = s
        /\ job'[j].attempt = job[j].attempt
        /\ job'[j].quota = q
    BY <1>1, <2>2 DEF VideoJob
  <2>4. QED BY <1>2, <1>5, <2>3 DEF q, s
<1>6. CASE verdict = "requeue"
  <2> DEFINE s == IF seen.state = "processing" THEN "queued" ELSE "preflight_queued"
  <2>1. job'[j] = [job[j] EXCEPT !.lease = "none", !.hash = 0, !.state = s]
    BY <1>3, <1>6 DEF Written
  <2> HIDE DEF s
  <2>2. /\ job'[j].state = s
        /\ job'[j].attempt = job[j].attempt
        /\ job'[j].quota = job[j].quota
    BY <1>1, <2>1 DEF VideoJob
  <2>3. QED BY <1>2, <1>6, <2>2 DEF s
<1>7. CASE verdict = "valid"
  <2>1. job'[j] = [job[j] EXCEPT !.lease = "none", !.state = "validated"]
    BY <1>3, <1>7 DEF Written
  <2>2. /\ job'[j].state = "validated"
        /\ job'[j].attempt = job[j].attempt
        /\ job'[j].quota = job[j].quota
    BY <1>1, <2>1 DEF VideoJob
  <2>3. QED BY <1>2, <1>7, <2>2
<1>8. CASE verdict = "ready"
  <2>1. job'[j] = [job[j] EXCEPT !.lease = "none", !.state = "ready", !.expires = TRUE,
                                 !.time = "early"]
    BY <1>3, <1>8 DEF Written
  <2>2. /\ job'[j].state = "ready"
        /\ job'[j].attempt = job[j].attempt
        /\ job'[j].quota = job[j].quota
        /\ job'[j].hash = job[j].hash
    BY <1>1, <2>1 DEF VideoJob
  <2>3. QED BY <1>2, <1>8, <2>2
<1>9. QED BY <1>2, <1>4, <1>5, <1>6, <1>7, <1>8 DEF Verdicts

\* Leases are counted.
LEMMA AttemptsStay ==
    ASSUME Known, Moved \/ Committed
    PROVE  AttemptsKnown'
<1>1. SUFFICES ASSUME NEW j \in Job
               PROVE  /\ job'[j].state \in {"none", "uploading", "preflight_queued"}
                           => job'[j].attempt < Attempts
                      /\ job'[j].state \in {"preflighting", "validated", "checkout", "queued"}
                           => job'[j].attempt <= Attempts
  BY DEF AttemptsKnown
<1>2. /\ job[j] \in VideoJob /\ job[j].attempt \in Nat /\ Attempts \in Nat
      /\ job[j].state \in {"none", "uploading", "preflight_queued"}
           => job[j].attempt < Attempts
      /\ job[j].state \in {"preflighting", "validated", "checkout", "queued"}
           => job[j].attempt <= Attempts
  BY VideoBounds DEF Known, TypeOK, AttemptsKnown, VideoJob
<1>3. CASE Moves(j)
  <2>1. CASE Rests(j)
    BY <1>2, <2>1 DEF Rests
  <2>2. CASE Starts(j)
    BY <1>2, <2>2 DEF Starts
  <2>3. CASE Admitted(j)
    BY <1>2, <2>3 DEF Admitted
  <2>4. CASE Claimed(j)
    BY <1>2, <2>4 DEF Claimed
  <2>5. CASE Uploads(j) \/ Stops(j)
    BY <2>5 DEF Uploads, Stops
  <2>6. QED BY <1>3, <2>1, <2>2, <2>3, <2>4, <2>5 DEF Moves
<1>4. CASE job'[j] = job[j]
  BY <1>2, <1>4
<1>5. CASE Commits(j)
  <2> DEFINE verdict == txn.verdict[j]
             seen == txn.seen[j]
  <2>1. /\ verdict # "clean" => job[j].attempt = seen.attempt
        /\ verdict = "requeue" => seen.attempt < Attempts
        /\ verdict = "valid" => seen.attempt <= Attempts
    BY <1>5 DEF Commits, Known, TxnKnown
  <2>2. /\ verdict \in Verdicts(txn.kind) \ {"clean"}
        /\ job'[j].attempt = job[j].attempt
        /\ verdict = "expire" => job'[j].state \in {job[j].state, "expired"}
        /\ verdict \in {"fail", "failed"} => job'[j].state \in {"failed", "refund_pending"}
        /\ verdict = "valid" => job'[j].state = "validated"
        /\ verdict = "ready" => job'[j].state = "ready"
    BY <1>5, CommitsRow
  <2> HIDE DEF verdict, seen
  <2>3. QED BY <1>2, <2>1, <2>2 DEF Verdicts
<1>6. QED BY <1>3, <1>4, <1>5 DEF Moved, Committed

\* What is over stays over.
LEMMA GoneStay ==
    ASSUME NEW j \in Job, Moves(j), job[j].state \in Gone
    PROVE  job'[j].state \in Gone
BY DEF Moves, Rests, Starts, Admitted, Claimed, Uploads, Stops, Gone, Terminal

-----------------------------------------------------------------------------
(* Transactions stay known.                                                *)

\* A step ends the transaction, leaves it alone, or begins one.
LEMMA TxnMoves ==
    ASSUME [Next]_vars
    PROVE  \/ txn' \in {txn, Idle} /\ cleaning' \subseteq cleaning
           \/ Commit("complete") \/ Commit("sweep")
           \/ SweepRead
           \/ \E request \in {worker, late} \ {Idle} : CompleteRead(request)
<1> DEFINE Same == txn' = txn /\ cleaning' = cleaning
<1>1. CASE UNCHANGED vars
  BY <1>1 DEF vars
<1>2. ASSUME NEW j \in Job, User(j)
      PROVE  Same
  BY <1>2 DEF User, Create, Preflight, AdmitFree, AdmitPaid, AdmitAgain, Cancel, Media,
              Pay, upkeep
<1>3. ASSUME NEW j \in Job, Payments(j)
      PROVE  Same
  BY <1>3 DEF Payments, OrderCreated, OrderUnknown, FulfilRead, FulfilCommit,
              RefundNotice, OtherRefund, Decided, RefundDecided, upkeep
<1>4. ASSUME NEW j \in Job, Delivery(j)
      PROVE  Same
  BY <1>4 DEF Delivery, Deliver, Ask, MakeRefund, AskInVain, Delivered, DeliveryCrash,
              upkeep
<1>5. ASSUME NEW j \in Job, Clock(j)
      PROVE  Same
  BY <1>5 DEF Clock, Tick, LeaseLapses, LoseOutput, upkeep
<1>6. CASE Node
  BY <1>6 DEF Node, Claim, ClaimStale, Judge, Upload, GiveUp, upkeep
<1>7. ASSUME NEW j \in Job, Clean(j)
      PROVE  txn' = txn /\ cleaning' \subseteq cleaning
  BY <1>7 DEF Clean
<1>8. CASE CompleteAbort \/ SweepCrash
  BY <1>8 DEF CompleteAbort, SweepCrash
<1>9. QED
  BY <1>1, <1>2, <1>3, <1>4, <1>5, <1>6, <1>7, <1>8 DEF Next, Complete, Sweep

\* What the sweep concludes from a row.
LEMMA VerdictKnown ==
    ASSUME TypeOK, NEW j \in Job
    PROVE  /\ Verdict(j) \in Verdicts("sweep") \cup {"keep"}
           /\ Verdict(j) = "requeue" => /\ job[j].state \in Running
                                        /\ job[j].attempt < Attempts
           /\ Verdict(j) = "clean" => job[j].state \in Gone
<1> DEFINE row == job[j]
<1>1. CASE row.expires /\ row.time = "over"
  BY <1>1 DEF Verdict, Verdicts
<1>2. CASE ~(row.expires /\ row.time = "over") /\ row.state = "ready"
  BY <1>2 DEF Verdict, Verdicts
<1>3. CASE ~(row.expires /\ row.time = "over") /\ row.state \in Gone
  BY <1>3 DEF Verdict, Verdicts, Gone
<1>4. CASE ~(row.expires /\ row.time = "over") /\ row.state \notin Terminal
  <2>1. row.state # "ready"
    BY <1>4 DEF Terminal
  <2>2. Verdict(j) \in {"fail", "keep"} \/
          /\ Verdict(j) = "requeue" /\ row.state \in Running /\ MayRetry(row)
    BY <1>4, <2>1 DEF Verdict
  <2>3. QED BY <2>2 DEF Verdicts, MayRetry
<1>5. QED BY <1>1, <1>2, <1>3, <1>4 DEF Gone

\* What is read is what is known.
LEMMA ReadsKnown ==
    ASSUME Known, NEW kind \in {"complete", "sweep"}, NEW S \in SUBSET Job,
           NEW verdict, verdict = [j \in S |-> verdict[j]],
           Knows(kind, verdict),
           UNCHANGED <<job, cleaning>>,
           kind = "sweep" => cleaning = {},
           \A j \in S :
             /\ verdict[j] \in Verdicts(kind)
             /\ verdict[j] = "requeue" => /\ job[j].state \in Running
                                          /\ job[j].attempt < Attempts
             /\ verdict[j] = "valid" => job[j].state = "preflighting"
             /\ verdict[j] = "clean" => job[j].state \in Gone
             /\ kind = "complete" => j \notin cleaning
    PROVE  TxnKnown'
<1> DEFINE seen == [j \in {k \in DOMAIN verdict : verdict[k] # "clean"} |-> job[j]]
<1>1. /\ txn'.kind = kind
      /\ txn'.verdict = verdict
      /\ txn'.seen = seen
  BY DEF Knows
<1>2. DOMAIN verdict = S
  OBVIOUS
<1>3. ASSUME NEW j \in S
      PROVE  /\ job[j] \in VideoJob
             /\ verdict[j] # "clean" => seen[j] = job[j]
             /\ job[j].state = "preflighting" => job[j].attempt <= Attempts
             /\ job[j].state = "expired" => job[j].state \in Gone
  BY <1>2 DEF Known, TypeOK, AttemptsKnown, Gone, Terminal
<1> HIDE DEF seen
<1>4. ASSUME NEW j \in S
      PROVE  /\ verdict[j] # "clean" => seen[j] \in VideoJob /\ job[j].attempt = seen[j].attempt
             /\ verdict[j] = "requeue" => /\ seen[j].state \in Running
                                          /\ seen[j].attempt < Attempts
             /\ verdict[j] = "valid" => /\ seen[j].state = "preflighting"
                                        /\ seen[j].attempt <= Attempts
             /\ verdict[j] = "expire" /\ seen[j].state = "expired" => job[j].state \in Gone
  BY <1>3
<1>5. QED BY <1>1, <1>2, <1>4 DEF TxnKnown

\* A transaction knows what it has read, while it runs.
LEMMA TxnStays ==
    ASSUME Known, [Next]_vars
    PROVE  TxnKnown'
<1>1. CASE txn' = Idle \/ Commit("complete") \/ Commit("sweep")
  BY <1>1 DEF TxnKnown, Commit
<1>2. CASE txn' = txn /\ txn # Idle /\ cleaning' \subseteq cleaning
  <2>1. Moved
    BY <1>1, <1>2, StepsMove DEF Commit
  <2>2. ASSUME NEW j \in Job
        PROVE  /\ job'[j].attempt = job[j].attempt
               /\ job[j].state \in Gone => job'[j].state \in Gone
    <3>1. Moves(j)
      BY <2>1 DEF Moved
    <3>2. QED
      BY <1>2, <3>1, GoneStay DEF Moves, Rests, Starts, Admitted, Claimed, Uploads, Stops
  <2>3. QED BY <1>2, <2>2 DEF Known, TxnKnown
<1>3. CASE SweepRead
  <2> DEFINE rows == {j \in Job : job[j].state # "none" /\ ~job[j].swept}
             S == {j \in rows : Verdict(j) # "keep"}
             verdict == [j \in S |-> Verdict(j)]
  <2>1. Knows("sweep", verdict) /\ cleaning = {} /\ UNCHANGED <<job, cleaning>>
    BY <1>3 DEF SweepRead
  <2>2. S \in SUBSET Job /\ verdict = [j \in S |-> verdict[j]]
    OBVIOUS
  <2>3. ASSUME NEW j \in S
        PROVE  /\ verdict[j] \in Verdicts("sweep")
               /\ verdict[j] = "requeue" => /\ job[j].state \in Running
                                            /\ job[j].attempt < Attempts
               /\ verdict[j] = "clean" => job[j].state \in Gone
               /\ verdict[j] # "valid"
    <3>1. j \in Job /\ verdict[j] = Verdict(j) /\ Verdict(j) # "keep"
      OBVIOUS
    <3>2. QED BY <3>1, VerdictKnown DEF Known, Verdicts
  <2> HIDE DEF S, verdict
  <2>4. QED BY <2>1, <2>2, <2>3, ReadsKnown
<1>4. ASSUME NEW request \in {worker, late} \ {Idle}, CompleteRead(request)
      PROVE  TxnKnown'
  <2> DEFINE j == request.job
             S == {j}
             verdict == [k \in S |-> request.outcome]
  <2>1. /\ Knows("complete", verdict)
        /\ UNCHANGED <<job, cleaning>>
        /\ job[j].state \in Running
        /\ request.outcome \in {"valid", "failed", "ready"}
        /\ request.outcome = "valid" => job[j].state = "preflighting"
    BY <1>4 DEF CompleteRead, Fenced
  <2>2. j \in Job
    BY DEF Known, NodeKnown
  <2>3. j \notin cleaning
    BY <2>1 DEF Known, CleanKnown, Running, Gone, Terminal
  <2>4. S \in SUBSET Job /\ verdict = [k \in S |-> verdict[k]]
    BY <2>2
  <2>5. \A k \in S : verdict[k] = request.outcome /\ k = j
    OBVIOUS
  <2> HIDE DEF j, verdict
  <2>6. \A k \in S :
          /\ verdict[k] \in Verdicts("complete")
          /\ verdict[k] \notin {"requeue", "clean"}
          /\ verdict[k] = "valid" => job[k].state = "preflighting"
          /\ k \notin cleaning
    BY <2>1, <2>3, <2>5 DEF Verdicts
  <2> HIDE DEF S
  <2>7. QED BY <2>1, <2>4, <2>6, ReadsKnown
<1>5. QED BY <1>1, <1>2, <1>3, <1>4, TxnMoves

\* The sweep deletes the media of what is over.
LEMMA CleanStays ==
    ASSUME Known, [Next]_vars
    PROVE  CleanKnown' /\ cleaning' \subseteq Job
<1>1. cleaning \subseteq Job /\ \A j \in cleaning : job[j].state \in Gone
  BY DEF Known, TypeOK, CleanKnown
<1>2. CASE Moved /\ cleaning' \subseteq cleaning
  BY <1>1, <1>2, GoneStay DEF Moved, CleanKnown
<1>3. CASE Commit("complete")
  <2>1. /\ txn # Idle /\ txn.kind = "complete" /\ cleaning' = cleaning
    BY <1>3 DEF Commit
  <2>2. \A j \in cleaning : j \notin DOMAIN txn.verdict
    BY <2>1 DEF Known, TxnKnown
  <2>3. Committed
    BY <1>3, CommitWrites
  <2>4. \A j \in cleaning : job'[j] = job[j]
    BY <1>1, <2>2, <2>3 DEF Committed, Commits
  <2>5. QED BY <1>1, <2>1, <2>4 DEF CleanKnown
<1>4. CASE Commit("sweep")
  <2>1. /\ txn # Idle /\ txn.kind = "sweep"
        /\ cleaning' = {j \in DOMAIN txn.verdict : txn.verdict[j] \in Discarded}
    BY <1>4 DEF Commit
  <2>2. DOMAIN txn.verdict \subseteq Job
    BY <2>1 DEF Known, TxnKnown
  <2>3. Committed
    BY <1>4, CommitWrites
  <2>4. ASSUME NEW j \in cleaning'
        PROVE  job'[j].state \in Gone
    <3>1. j \in Job /\ j \in DOMAIN txn.verdict /\ txn.verdict[j] \in Discarded
      BY <2>1, <2>2
    <3>2. CASE txn.verdict[j] = "clean"
      <4>1. job'[j] = job[j]
        BY <2>3, <3>1, <3>2 DEF Committed, Commits
      <4>2. job[j].state \in Gone
        BY <2>1, <3>1, <3>2 DEF Known, TxnKnown
      <4>3. QED BY <4>1, <4>2
    <3>3. CASE txn.verdict[j] \in {"expire", "fail"}
      <4>1. Commits(j)
        BY <2>3, <3>1, <3>3 DEF Committed
      <4>2. /\ txn.verdict[j] = "expire" =>
                 job'[j].state = IF txn.seen[j].state = "expired" THEN job[j].state
                                 ELSE "expired"
            /\ txn.verdict[j] \in {"fail", "failed"} =>
                 job'[j].state \in {"failed", "refund_pending"}
        BY <3>1, <4>1, CommitsRow
      <4>3. txn.verdict[j] = "expire" /\ txn.seen[j].state = "expired"
              => job[j].state \in Gone
        BY <2>1, <3>1 DEF Known, TxnKnown
      <4>4. QED BY <3>3, <4>2, <4>3 DEF Gone, Terminal
    <3>4. QED BY <3>1, <3>2, <3>3 DEF Discarded
  <2>5. QED BY <2>1, <2>2, <2>4 DEF CleanKnown
<1>5. ASSUME ~Commit("complete"), ~Commit("sweep")
      PROVE  Moved /\ cleaning' \subseteq cleaning
  BY <1>5, StepsMove, TxnMoves DEF SweepRead, CompleteRead
<1>6. QED BY <1>2, <1>3, <1>4, <1>5

-----------------------------------------------------------------------------
(* Types.                                                                  *)

\* fail asks for a refund, or does not.
LEMMA FailWants ==
    ASSUME NEW j \in Job, NEW infrastructure, NEW state, Fail(j, infrastructure, state)
    PROVE  intent' \in {intent, Wanted(j)}
BY DEF Fail

\* Who writes what is not the row of a job.
LEMMA Writers ==
    ASSUME [Next]_vars
    PROVE  /\ paying' = paying
           /\ \/ cache' = cache
              \/ Upload \/ Commit("complete") \/ Commit("sweep")
              \/ \E j \in Job : Cancel(j) \/ Clean(j) \/ Tick(j) \/ LoseOutput(j)
           /\ \/ order' = order
              \/ \E j \in Job : \/ AdmitPaid(j) \/ OrderCreated(j) \/ OrderUnknown(j)
                                \/ FulfilCommit(j) \/ Refunded(j, "fully")
                                \/ Refunded(j, "partly")
           /\ \/ razorpay' = razorpay
              \/ \E j \in Job : \/ Pay(j) \/ FulfilRead(j) \/ Ask(j) \/ MakeRefund(j)
                                \/ OtherRefund(j, "fully") \/ OtherRefund(j, "partly")
                                \/ Decided(j)
           /\ \/ intent' = intent
              \/ Commit("complete") \/ Commit("sweep")
              \/ \E j \in Job : \/ intent' = Wanted(j)
                                \/ Refunded(j, "fully") \/ Refunded(j, "partly")
                                \/ Deliver(j) \/ Delivered(j)
           /\ \/ delivery' = delivery
              \/ \E j \in Job : \/ Deliver(j) \/ Ask(j) \/ MakeRefund(j) \/ AskInVain(j)
                                \/ delivery' = [delivery EXCEPT ![j] = Idle]
           /\ \/ UNCHANGED <<worker, late>>
              \/ GiveUp
              \/ \E j \in Job : Claim(j)
              \/ \E outcome \in {"valid", "failed"} : Judge(outcome)
              \/ \E request \in {worker, late} : CompleteRead(request)
              \/ Upload
           /\ overwritten' = overwritten \/ Commit("complete") \/ Commit("sweep")
<1>1. CASE UNCHANGED vars
  BY <1>1 DEF vars
<1>2. ASSUME NEW j \in Job, User(j)
      PROVE  /\ UNCHANGED <<paying, delivery, worker, late, overwritten>>
             /\ cache' = cache \/ Cancel(j)
             /\ razorpay' = razorpay \/ Pay(j)
             /\ order' = order \/ AdmitPaid(j)
             /\ intent' \in {intent, Wanted(j)}
  <2>1. CASE Create(j) \/ Preflight(j) \/ AdmitFree(j) \/ AdmitPaid(j)
    BY <2>1 DEF Create, Preflight, AdmitFree, AdmitPaid, money, node, upkeep
  <2>2. CASE AdmitAgain(j) \/ Cancel(j) \/ Media(j)
    BY <2>2, FailWants DEF AdmitAgain, Cancel, Media, node, upkeep
  <2>3. QED BY <1>2, <2>1, <2>2 DEF User, Pay, node, upkeep
<1>3. ASSUME NEW j \in Job, Payments(j)
      PROVE  /\ UNCHANGED <<paying, cache, delivery, worker, late, overwritten>>
             /\ \/ order' = order
                \/ OrderCreated(j) \/ OrderUnknown(j) \/ FulfilCommit(j)
                \/ Refunded(j, "fully") \/ Refunded(j, "partly")
             /\ \/ razorpay' = razorpay
                \/ FulfilRead(j) \/ Decided(j)
                \/ OtherRefund(j, "fully") \/ OtherRefund(j, "partly")
             /\ \/ intent' \in {intent, Wanted(j)}
                \/ Refunded(j, "fully") \/ Refunded(j, "partly")
  BY <1>3 DEF Payments, OrderCreated, OrderUnknown, FulfilRead, FulfilCommit,
              RefundNotice, OtherRefund, Decided, RefundDecided, node, upkeep
<1>4. ASSUME NEW j \in Job, Delivery(j)
      PROVE  /\ UNCHANGED <<paying, cache, worker, late, overwritten>>
             /\ order' = order \/ Refunded(j, "fully")
             /\ razorpay' = razorpay \/ Ask(j) \/ MakeRefund(j)
             /\ intent' = intent \/ Deliver(j) \/ Delivered(j)
             /\ \/ Deliver(j) \/ Ask(j) \/ MakeRefund(j) \/ AskInVain(j)
                \/ delivery' = [delivery EXCEPT ![j] = Idle]
  BY <1>4 DEF Delivery, Deliver, Ask, MakeRefund, AskInVain, Delivered, DeliveryCrash,
              node, upkeep
<1>5. ASSUME NEW j \in Job, Clock(j)
      PROVE  /\ UNCHANGED <<paying, order, razorpay, intent, delivery, worker, late,
                            overwritten>>
             /\ cache' = cache \/ Tick(j) \/ LoseOutput(j)
  BY <1>5 DEF Clock, Tick, LeaseLapses, LoseOutput, money, node, upkeep
<1>6. CASE Node
  <2>1. ASSUME NEW j \in Job, ClaimStale(j)
        PROVE  /\ intent' \in {intent, Wanted(j)}
               /\ UNCHANGED <<paying, cache, order, razorpay, delivery, worker, late,
                              overwritten>>
    BY <2>1, FailWants DEF ClaimStale, node, upkeep
  <2>2. ASSUME ~ \E j \in Job : ClaimStale(j)
        PROVE  /\ UNCHANGED <<paying, order, razorpay, intent, delivery, overwritten>>
               /\ cache' = cache \/ Upload
               /\ \/ GiveUp \/ Upload
                  \/ \E j \in Job : Claim(j)
                  \/ \E outcome \in {"valid", "failed"} : Judge(outcome)
    BY <1>6, <2>2 DEF Node, Claim, Judge, Upload, GiveUp, money, upkeep
  <2>3. QED BY <2>1, <2>2
<1>7. CASE Complete \/ Sweep
  <2>1. CASE Commit("complete") \/ Commit("sweep")
    BY <2>1 DEF Commit, node
  <2>2. ASSUME ~Commit("complete"), ~Commit("sweep")
        PROVE  /\ UNCHANGED <<paying, order, razorpay, intent, delivery, overwritten>>
               /\ cache' = cache \/ \E j \in Job : Clean(j)
               /\ \/ UNCHANGED <<worker, late>>
                  \/ \E request \in {worker, late} : CompleteRead(request)
    BY <1>7, <2>2
    DEF Complete, Sweep, CompleteRead, CompleteAbort, SweepRead, SweepCrash, Clean,
        money, node, upkeep
  <2>3. QED BY <2>1, <2>2 DEF Commit, node
<1>8. QED BY <1>1, <1>2, <1>3, <1>4, <1>5, <1>6, <1>7 DEF Next

\* The cache holds an attempt or nothing.
LEMMA CacheStays ==
    ASSUME Known, [Next]_vars
    PROVE  cache' \in [Job -> Nat]
<1>1. cache \in [Job -> Nat] /\ job \in [Job -> VideoJob]
  BY DEF Known, TypeOK
<1>2. CASE Upload
  <2> DEFINE j == worker.job
  <2>1. /\ worker # Idle
        /\ cache' = [cache EXCEPT ![j] = worker.attempt]
        /\ job[j].attempt = worker.attempt
    BY <1>2 DEF Upload, Fenced
  <2>2. j \in Job
    BY <2>1 DEF Known, NodeKnown
  <2>3. worker.attempt \in Nat
    BY <1>1, <2>1, <2>2, VideoBounds DEF VideoJob
  <2> HIDE DEF j
  <2>4. QED BY <1>1, <2>1, <2>3
<1>3. ASSUME NEW kind, Commit(kind)
      PROVE  cache' \in [Job -> Nat]
  <2> DEFINE S == {j \in DOMAIN txn.verdict : txn.verdict[j] \in {"requeue"}}
  <2>1. cache' = [j \in Job |-> IF j \in S THEN 0 ELSE cache[j]]
    BY <1>3 DEF Commit
  <2> HIDE DEF S
  <2>2. QED BY <1>1, <2>1
<1>4. ASSUME NEW j \in Job, Cancel(j) \/ Clean(j) \/ Tick(j) \/ LoseOutput(j)
      PROVE  cache' \in [Job -> Nat]
  <2>1. cache' = [cache EXCEPT ![j] = 0] \/ cache' = [cache EXCEPT ![j] = cache[j]]
    BY <1>1, <1>4 DEF Cancel, Clean, Tick, LoseOutput
  <2>2. QED BY <1>1, <2>1
<1>5. QED BY <1>1, <1>2, <1>3, <1>4, Writers

\* Orders.
LEMMA OrderStays ==
    ASSUME Known, [Next]_vars
    PROVE  order' \in [Job -> Order]
<1>1. order \in [Job -> Order]
  BY DEF Known, TypeOK
<1>2. ASSUME NEW j \in Job, NEW row \in Order, order' = [order EXCEPT ![j] = row]
      PROVE  order' \in [Job -> Order]
  BY <1>1, <1>2
<1>3. ASSUME NEW j \in Job,
             NEW status \in {"none", "creating", "created", "failed"},
             order' = [order EXCEPT ![j].status = status]
      PROVE  order' \in [Job -> Order]
  BY <1>1, <1>3 DEF Order
<1>4. ASSUME NEW j \in Job, FulfilCommit(j)
      PROVE  order' \in [Job -> Order]
  BY <1>1, <1>4 DEF FulfilCommit, Order
<1>5. ASSUME NEW j \in Job, NEW total \in {"partly", "fully"}, Refunded(j, total)
      PROVE  order' \in [Job -> Order]
  BY <1>1, <1>5 DEF Refunded, Order
<1>6. ASSUME NEW j \in Job, AdmitPaid(j) \/ OrderCreated(j) \/ OrderUnknown(j)
      PROVE  order' \in [Job -> Order]
  BY <1>3, <1>6 DEF AdmitPaid, OrderCreated, OrderUnknown
<1>7. QED BY <1>1, <1>4, <1>5, <1>6, Writers

\* What Razorpay knows.
LEMMA RazorpayStays ==
    ASSUME Known, [Next]_vars
    PROVE  razorpay' \in [Job -> Razorpay]
<1>1. razorpay \in [Job -> Razorpay]
  BY DEF Known, TypeOK
<1>2. ASSUME NEW j \in Job, Pay(j)
      PROVE  razorpay' \in [Job -> Razorpay]
  <2> DEFINE row == [razorpay[j] EXCEPT !.paid = TRUE, !.notices = 2]
  <2>1. razorpay' = [razorpay EXCEPT ![j] = row]
    BY <1>1, <1>2 DEF Pay
  <2>2. razorpay[j] \in Razorpay /\ 2 \in 0 .. 2 /\ TRUE \in BOOLEAN
    BY <1>1
  <2>3. row \in Razorpay
    BY <2>2 DEF Razorpay
  <2> HIDE DEF row
  <2>4. QED BY <1>1, <2>1, <2>3
<1>3. ASSUME NEW j \in Job, FulfilRead(j)
      PROVE  razorpay' \in [Job -> Razorpay]
  BY <1>1, <1>3 DEF FulfilRead, Razorpay
<1>4. ASSUME NEW j \in Job, Ask(j)
      PROVE  razorpay' \in [Job -> Razorpay]
  BY <1>1, <1>4 DEF Ask, Razorpay
<1>5. ASSUME NEW j \in Job, MakeRefund(j)
      PROVE  razorpay' \in [Job -> Razorpay]
  <2> DEFINE made == IF razorpay[j].refund = "other" THEN razorpay[j].made
                     ELSE razorpay[j].made + 1
             refund == IF razorpay[j].refund = "none" THEN "pending"
                       ELSE razorpay[j].refund
             asked == razorpay[j].asked - 1
             row == [razorpay[j] EXCEPT !.asked = asked, !.made = made, !.refund = refund]
  <2>1. razorpay' = [razorpay EXCEPT ![j] = row]
    BY <1>1, <1>5 DEF MakeRefund
  <2>2. /\ made \in Nat /\ asked \in Nat
        /\ refund \in {"none", "pending", "processed", "failed", "other"}
    BY <1>1, <1>5 DEF MakeRefund, Razorpay
  <2> HIDE DEF made, refund, asked
  <2>3. row \in Razorpay
    BY <1>1, <2>2 DEF Razorpay
  <2> HIDE DEF row
  <2>4. QED BY <1>1, <2>1, <2>3
<1>6. ASSUME NEW j \in Job, NEW total \in {"partly", "fully"}, OtherRefund(j, total)
      PROVE  razorpay' \in [Job -> Razorpay]
  BY <1>1, <1>6 DEF OtherRefund, Razorpay
<1>7. ASSUME NEW j \in Job, Decided(j)
      PROVE  razorpay' \in [Job -> Razorpay]
  BY <1>1, <1>7 DEF Decided, RefundDecided, Razorpay
<1>8. QED BY <1>1, <1>2, <1>3, <1>4, <1>5, <1>6, <1>7, Writers

\* What deliver_one has in hand.
LEMMA DeliveryStays ==
    ASSUME Known, [Next]_vars
    PROVE  DeliveryKnown'
<1> DEFINE Held(r) == r # Idle => r \in InHand
<1>1. /\ delivery = [k \in Job |-> delivery[k]]
      /\ \A k \in Job : Held(delivery[k])
  BY DEF Known, DeliveryKnown
<1>2. DOMAIN delivery = Job
  BY <1>1
<1>3. ASSUME NEW j \in Job, NEW row, delivery' = [delivery EXCEPT ![j] = row], Held(row)
      PROVE  DeliveryKnown'
  <2>1. delivery' = [k \in Job |-> IF k = j THEN row ELSE delivery[k]]
    BY <1>2, <1>3
  <2>2. \A k \in Job : Held(delivery'[k])
    BY <1>1, <1>3, <2>1
  <2>3. delivery' = [k \in Job |-> delivery'[k]]
    BY <2>1
  <2>4. QED BY <2>2, <2>3 DEF DeliveryKnown
<1>4. ASSUME NEW j \in Job, NEW got \in Outcomes \cup {"nothing", "asked"},
             delivery[j] # Idle, delivery' = [delivery EXCEPT ![j].got = got]
      PROVE  DeliveryKnown'
  <2> DEFINE row == [delivery[j] EXCEPT !.got = got]
  <2>1. delivery' = [delivery EXCEPT ![j] = row]
    BY <1>4
  <2>2. delivery[j] \in InHand
    BY <1>1, <1>4
  <2>3. Held(row)
    BY <2>2 DEF InHand
  <2> HIDE DEF row, Held
  <2>4. QED BY <1>3, <2>1, <2>3
<1>5. ASSUME NEW j \in Job, Deliver(j)
      PROVE  DeliveryKnown'
  <2> DEFINE row == [was |-> intent[j].state, got |-> "nothing"]
  <2>1. delivery' = [delivery EXCEPT ![j] = row] /\ row \in InHand
    BY <1>5 DEF Deliver, InHand
  <2> HIDE DEF row
  <2>2. QED BY <1>3, <2>1
<1>6. ASSUME NEW j \in Job, Ask(j)
      PROVE  DeliveryKnown'
  <2> DEFINE refund == razorpay[j].refund
             got == IF refund = "pending" THEN "submitted" ELSE refund
  <2>1. refund \in {"none", "pending", "processed", "failed", "other"}
    BY DEF Known, TypeOK, Razorpay
  <2>2. delivery[j] # Idle
    BY <1>6 DEF Ask
  <2>3. \/ /\ refund \notin {"none", "other"}
           /\ delivery' = [delivery EXCEPT ![j].got = got]
        \/ delivery' = [delivery EXCEPT ![j].got = "manual_review"]
        \/ delivery' = [delivery EXCEPT ![j].got = "asked"]
    BY <1>6 DEF Ask
  <2>4. refund \notin {"none", "other"} => got \in Outcomes
    BY <2>1 DEF Outcomes
  <2> HIDE DEF got, refund
  <2>5. QED BY <1>4, <2>2, <2>3, <2>4 DEF Outcomes
<1>7. ASSUME NEW j \in Job, MakeRefund(j)
      PROVE  DeliveryKnown'
  <2> DEFINE b == delivery[j] # Idle /\ delivery[j].got = "asked"
                    /\ razorpay[j].refund # "other"
             r == [delivery[j] EXCEPT !.got = "submitted"]
             row == IF b THEN r ELSE delivery[j]
  <2>1. delivery' = [delivery EXCEPT ![j] = row]
    BY <1>7 DEF MakeRefund
  <2>2. b => /\ delivery[j] # Idle
             /\ delivery' = [delivery EXCEPT ![j].got = "submitted"]
    BY <2>1
  <2>3. ~b => delivery' = [delivery EXCEPT ![j] = delivery[j]]
    BY <2>1
  <2> HIDE DEF b, row
  <2>4. QED BY <1>1, <1>3, <1>4, <2>2, <2>3 DEF Outcomes
<1>8. ASSUME NEW j \in Job, AskInVain(j)
      PROVE  DeliveryKnown'
  <2>1. delivery[j] # Idle /\ delivery' = [delivery EXCEPT ![j].got = "ambiguous"]
    BY <1>8 DEF AskInVain
  <2>2. QED BY <1>4, <2>1 DEF Outcomes
<1>9. ASSUME NEW j \in Job, delivery' = [delivery EXCEPT ![j] = Idle]
      PROVE  DeliveryKnown'
  BY <1>3, <1>9
<1>10. CASE delivery' = delivery
  BY <1>1, <1>10 DEF DeliveryKnown
<1> HIDE DEF Held
<1>11. QED BY <1>5, <1>6, <1>7, <1>8, <1>9, <1>10, Writers

\* Who works on what.
LEMMA NodeStays ==
    ASSUME Known, [Next]_vars
    PROVE  NodeKnown'
<1>1. /\ worker # Idle => worker.job \in Job
      /\ late # Idle => late.job \in Job
  BY DEF Known, NodeKnown
<1>2. ASSUME NEW j \in Job, Claim(j)
      PROVE  NodeKnown'
  <2>1. worker'.job = j /\ late' = late
    BY <1>2 DEF Claim
  <2>2. QED BY <1>1, <2>1 DEF NodeKnown
<1>3. CASE \E outcome \in {"valid", "failed"} : Judge(outcome)
  <2>1. worker # Idle /\ worker'.job = worker.job /\ late' = late
    BY <1>3 DEF Judge
  <2>2. QED BY <1>1, <2>1 DEF NodeKnown
<1>4. CASE Upload
  <2>1. worker # Idle /\ worker'.job = worker.job /\ late' = late
    BY <1>4 DEF Upload
  <2>2. QED BY <1>1, <2>1 DEF NodeKnown
<1>5. CASE GiveUp
  BY <1>1, <1>5 DEF GiveUp, NodeKnown, node
<1>6. ASSUME NEW request, CompleteRead(request)
      PROVE  NodeKnown'
  BY <1>1, <1>6 DEF CompleteRead, NodeKnown
<1>7. CASE UNCHANGED <<worker, late>>
  BY <1>1, <1>7 DEF NodeKnown
<1>8. QED BY <1>2, <1>3, <1>4, <1>5, <1>6, <1>7, Writers

\* An intent is wanted once, and is never as it was before.
LEMMA WantedRow ==
    ASSUME Known, NEW j \in Job
    PROVE  /\ Wanted(j) \in [Job -> Intent]
           /\ Wanted(j)[j].state = IF intent[j].state = "none" THEN "pending"
                                   ELSE intent[j].state
           /\ \A k \in Job : k # j => Wanted(j)[k] = intent[k]
<1> DEFINE s == IF intent[j].state = "none" THEN "pending" ELSE intent[j].state
           row == [intent[j] EXCEPT !.state = s]
<1>1. intent \in [Job -> Intent]
  BY DEF Known, TypeOK
<1>2. Wanted(j) = [intent EXCEPT ![j] = row]
  BY <1>1 DEF Wanted
<1>3. s \in Open \cup {"none", "processed", "failed", "manual_review"}
  BY <1>1 DEF Intent, Open
<1> HIDE DEF s
<1>4. row \in Intent /\ row.state = s
  BY <1>1, <1>3 DEF Intent
<1> HIDE DEF row
<1>5. QED BY <1>1, <1>2, <1>4 DEF s

\* How an intent is written.
Fresh == {"none", "pending"}
IntentMove(j) == \/ intent'[j].state = intent[j].state
                 \/ intent[j].state = "none" /\ intent'[j].state = "pending"
                 \/ intent'[j].state \notin Fresh

\* Every step writes intents so.
LEMMA IntentsMove ==
    ASSUME Known, [Next]_vars
    PROVE  intent' \in [Job -> Intent] /\ \A j \in Job : IntentMove(j)
<1> DEFINE Goal == intent' \in [Job -> Intent] /\ \A j \in Job : IntentMove(j)
<1>1. intent \in [Job -> Intent] /\ Tries \in Nat
  BY VideoBounds DEF Known, TypeOK
<1>2. ASSUME intent' = intent
      PROVE  Goal
  BY <1>1, <1>2 DEF IntentMove
<1>3. ASSUME NEW j \in Job, intent' = Wanted(j)
      PROVE  Goal
  BY <1>3, WantedRow DEF IntentMove
<1>4. ASSUME NEW j \in Job, NEW row \in Intent, intent' = [intent EXCEPT ![j] = row],
             row.state \notin Fresh
      PROVE  Goal
  BY <1>1, <1>4 DEF IntentMove
<1>5. ASSUME NEW j \in Job, NEW s \in {"processed", "manual_review"} \cup Outcomes,
             intent' = [intent EXCEPT ![j].state = s]
      PROVE  Goal
  <2> DEFINE row == [intent[j] EXCEPT !.state = s]
  <2>1. intent' = [intent EXCEPT ![j] = row]
    BY <1>1, <1>5
  <2>2. row \in Intent /\ row.state = s
    BY <1>1 DEF Intent, Open, Outcomes
  <2> HIDE DEF row
  <2>3. row.state \notin Fresh
    BY <2>2 DEF Fresh, Outcomes
  <2>4. QED BY <1>4, <2>1, <2>2, <2>3
<1>6. ASSUME NEW j \in Job, NEW total \in {"partly", "fully"}, Refunded(j, total)
      PROVE  Goal
  BY <1>5, <1>6 DEF Refunded
<1>7. ASSUME NEW j \in Job, Deliver(j)
      PROVE  Goal
  <2> DEFINE n == IF intent[j].attempts < Tries THEN intent[j].attempts + 1
                  ELSE intent[j].attempts
             row == [intent[j] EXCEPT !.state = "ambiguous", !.attempts = n]
  <2>1. intent' = [intent EXCEPT ![j] = row]
    BY <1>1, <1>7 DEF Deliver, Taken
  <2>2. n \in 0 .. Tries
    BY <1>1 DEF Intent
  <2> HIDE DEF n
  <2>3. row \in Intent /\ row.state = "ambiguous"
    BY <1>1, <2>2 DEF Intent, Open
  <2> HIDE DEF row
  <2>4. QED BY <1>4, <2>1, <2>3 DEF Fresh
<1>8. ASSUME NEW j \in Job, Delivered(j)
      PROVE  Goal
  <2>1. /\ delivery[j] # Idle
        /\ delivery[j].got \notin {"nothing", "asked"}
        /\ \/ intent' = intent
           \/ Refunded(j, "fully")
           \/ intent' = [intent EXCEPT ![j].state = Answered(j)]
    BY <1>8 DEF Delivered
  <2>2. Answered(j) \in Outcomes
    BY <2>1 DEF Known, DeliveryKnown, InHand, Answered, Outcomes
  <2>3. QED BY <1>2, <1>5, <1>6, <2>1, <2>2
<1>9. ASSUME NEW kind, Commit(kind)
      PROVE  Goal
  <2>1. PICK S : intent' = [j \in Job |-> IF j \in S THEN Wanted(j)[j] ELSE intent[j]]
    BY <1>9 DEF Commit
  <2>2. ASSUME NEW j \in Job
        PROVE  intent'[j] \in Intent /\ IntentMove(j)
    <3>1. intent'[j] = Wanted(j)[j] \/ intent'[j] = intent[j]
      BY <2>1
    <3>2. QED BY <1>1, <3>1, WantedRow DEF IntentMove
  <2>3. QED BY <2>1, <2>2
<1>10. \/ intent' = intent
       \/ Commit("complete") \/ Commit("sweep")
       \/ \E j \in Job : \/ intent' = Wanted(j)
                         \/ Refunded(j, "fully") \/ Refunded(j, "partly")
                         \/ Deliver(j) \/ Delivered(j)
  BY Writers
<1> HIDE DEF Goal
<1>11. Goal
  BY <1>2, <1>3, <1>6, <1>7, <1>8, <1>9, <1>10
<1>12. QED BY <1>11 DEF Goal

\* Types are kept.
LEMMA TypesStay ==
    ASSUME Known, [Next]_vars
    PROVE  TypeOK'
<1>1. job' \in [Job -> VideoJob] /\ used' \in [Job -> Nat]
  BY StepsMove, CommitWrites DEF Moved, Committed
<1>2. overwritten' \subseteq Job
  <2>1. overwritten \subseteq Job /\ (txn # Idle => DOMAIN txn.verdict \subseteq Job)
    BY DEF Known, TypeOK, TxnKnown
  <2>2. ASSUME NEW kind, Commit(kind)
        PROVE  overwritten' \subseteq Job
    BY <2>1, <2>2 DEF Commit
  <2>3. QED BY <2>1, <2>2, Writers
<1>3. paying' \subseteq Job
  BY Writers DEF Known, TypeOK
<1>4. cleaning' \subseteq Job
  BY CleanStays
<1>5. QED
  BY <1>1, <1>2, <1>3, <1>4, CacheStays, OrderStays, RazorpayStays, IntentsMove
  DEF TypeOK

\* What is known stays known.
LEMMA KnownStays == Known /\ [Next]_vars => Known'
<1> SUFFICES ASSUME Known, [Next]_vars PROVE Known'
  OBVIOUS
<1>1. Moved \/ Committed
  BY StepsMove, CommitWrites
<1>2. QED
  BY <1>1, TypesStay, NodeStays, DeliveryStays, TxnStays, CleanStays, AttemptsStay
  DEF Known

\* It holds of every behaviour.
LEMMA KnownAlways == Spec => []Known
<1>1. Init => Known
  <2> SUFFICES ASSUME Init PROVE Known
    OBVIOUS
  <2> USE DEF Init
  <2>1. Attempts \in Nat \ {0} /\ Tries \in Nat /\ Earlier \in Nat
    BY VideoBounds
  <2>2. NewJob \in VideoJob
    BY <2>1 DEF NewJob, VideoJob, States
  <2>3. NoOrder \in Order /\ NoPayment \in Razorpay
    BY DEF NoOrder, Order, NoPayment, Razorpay
  <2>4. NoIntent \in Intent
    BY <2>1 DEF NoIntent, Intent
  <2>5. TypeOK
    BY <2>1, <2>2, <2>3, <2>4 DEF TypeOK
  <2>6. NodeKnown /\ DeliveryKnown /\ TxnKnown /\ CleanKnown
    BY DEF NodeKnown, DeliveryKnown, TxnKnown, CleanKnown
  <2>7. AttemptsKnown
    BY <2>1 DEF AttemptsKnown, NewJob
  <2>8. QED BY <2>5, <2>6, <2>7 DEF Known
<1>2. QED BY <1>1, KnownStays, PTL DEF Spec

-----------------------------------------------------------------------------
(* Theorems.                                                               *)

\* The rows are of their types: no quota and no count is negative, and no job
\* is leased more than Attempts times, or once more for the render of a
\* validation that used them all.
THEOREM TypeCorrect == Spec => []TypeOK
BY KnownAlways, PTL DEF Known

\* Whatever the users, the payments, the clock, the node and the sweep do,
\* one job runs at a time: only a claim makes a job run, when none does.
THEOREM OneRuns == Spec => []OneRunning
<1>1. Init => OneRunning
  BY DEF Init, OneRunning, NewJob, Running
<1>2. Known /\ OneRunning /\ [Next]_vars => OneRunning'
  <2> SUFFICES ASSUME Known, OneRunning, [Next]_vars,
                      NEW j \in Job, NEW k \in Job,
                      job'[j].state \in Running, job'[k].state \in Running
               PROVE  j = k
    BY DEF OneRunning
  <2>1. Moved \/ Committed
    BY StepsMove, CommitWrites
  <2>2. ASSUME NEW i \in Job, job'[i].state \in Running
        PROVE  job[i].state \in Running \/ Claimed(i)
    <3>1. CASE Moves(i)
      BY <2>2, <3>1
      DEF Moves, Rests, Starts, Admitted, Uploads, Stops, Running
    <3>2. CASE Commits(i)
      <4> DEFINE verdict == txn.verdict[i]
      <4>1. /\ verdict \in Verdicts(txn.kind) \ {"clean"}
            /\ verdict = "expire" => job'[i].state \in {job[i].state, "expired"}
            /\ verdict \in {"fail", "failed"} => job'[i].state \in {"failed", "refund_pending"}
            /\ verdict = "requeue" => job'[i].state \in {"queued", "preflight_queued"}
            /\ verdict = "valid" => job'[i].state = "validated"
            /\ verdict = "ready" => job'[i].state = "ready"
        BY <3>2, CommitsRow
      <4> HIDE DEF verdict
      <4>2. QED BY <2>2, <4>1 DEF Verdicts, Running
    <3>3. CASE job'[i] = job[i]
      BY <2>2, <3>3
    <3>4. QED BY <2>1, <3>1, <3>2, <3>3 DEF Moved, Committed
  <2>3. ASSUME NEW i \in Job, Claimed(i), NEW h \in Job, job'[h].state \in Running
        PROVE  h = i
    BY <2>3 DEF Claimed, NoneRunning
  <2>4. CASE Claimed(j) \/ Claimed(k)
    BY <2>3, <2>4
  <2>5. CASE job[j].state \in Running /\ job[k].state \in Running
    BY <2>5 DEF OneRunning
  <2>6. QED BY <2>2, <2>4, <2>5
<1>3. QED BY <1>1, <1>2, KnownAlways, PTL DEF Spec

-----------------------------------------------------------------------------
(* Refunds.                                                                *)

\* The refunds of job j that were made or are on their way.
Refunds(j) == razorpay[j].made + razorpay[j].asked

\* deliver_one is about to ask for the first time.
Asking(j) == delivery[j] # Idle /\ delivery[j].was = "pending"
               /\ delivery[j].got = "nothing"

\* Who asks has marked the intent, and nobody else does before or after it.
AskedOnce ==
    \A j \in Job : /\ Refunds(j) <= 1
                   /\ Asking(j) => Refunds(j) = 0 /\ intent[j].state \notin Fresh
                   /\ intent[j].state \in Fresh => Refunds(j) = 0

\* One request is one refund at most, and only who is asking makes one.
LEMMA RefundsMove ==
    ASSUME Known, [Next]_vars, NEW j \in Job
    PROVE  /\ Refunds(j) \in Nat
           /\ \/ Refunds(j)' <= Refunds(j)
              \/ Asking(j) /\ Ask(j) /\ Refunds(j)' = Refunds(j) + 1
<1>1. razorpay \in [Job -> Razorpay]
  BY DEF Known, TypeOK
<1>2. razorpay[j].made \in Nat /\ razorpay[j].asked \in Nat
  BY <1>1 DEF Razorpay
<1>3. Refunds(j) \in Nat
  BY <1>2 DEF Refunds
<1>4. ASSUME razorpay'[j].made = razorpay[j].made, razorpay'[j].asked = razorpay[j].asked
      PROVE  Refunds(j)' <= Refunds(j)
  BY <1>3, <1>4 DEF Refunds
<1>5. ASSUME NEW k \in Job, k # j,
             Pay(k) \/ FulfilRead(k) \/ Ask(k) \/ MakeRefund(k)
               \/ OtherRefund(k, "fully") \/ OtherRefund(k, "partly") \/ Decided(k)
      PROVE  razorpay'[j] = razorpay[j]
  BY <1>1, <1>5 DEF Pay, FulfilRead, Ask, MakeRefund, OtherRefund, Decided, RefundDecided
<1>6. ASSUME Pay(j) \/ FulfilRead(j) \/ OtherRefund(j, "fully")
               \/ OtherRefund(j, "partly") \/ Decided(j)
      PROVE  /\ razorpay'[j].made = razorpay[j].made
             /\ razorpay'[j].asked = razorpay[j].asked
  <2>1. CASE Pay(j)
    <3> DEFINE row == [razorpay[j] EXCEPT !.paid = TRUE, !.notices = 2]
    <3>1. razorpay' = [razorpay EXCEPT ![j] = row]
      BY <1>1, <2>1 DEF Pay
    <3>2. row.made = razorpay[j].made /\ row.asked = razorpay[j].asked
      BY <1>1 DEF Razorpay
    <3> HIDE DEF row
    <3>3. QED BY <1>1, <3>1, <3>2
  <2>2. CASE FulfilRead(j)
    <3> DEFINE row == [razorpay[j] EXCEPT !.notices = @ - 1]
    <3>1. razorpay' = [razorpay EXCEPT ![j] = row]
      BY <1>1, <2>2 DEF FulfilRead
    <3>2. row.made = razorpay[j].made /\ row.asked = razorpay[j].asked
      BY <1>1 DEF Razorpay
    <3> HIDE DEF row
    <3>3. QED BY <1>1, <3>1, <3>2
  <2>3. CASE OtherRefund(j, "fully") \/ OtherRefund(j, "partly") \/ Decided(j)
    <3>1. PICK r : razorpay' = [razorpay EXCEPT ![j].refund = r]
      BY <2>3 DEF OtherRefund, Decided, RefundDecided
    <3> DEFINE row == [razorpay[j] EXCEPT !.refund = r]
    <3>2. razorpay' = [razorpay EXCEPT ![j] = row]
      BY <1>1, <3>1
    <3>3. row.made = razorpay[j].made /\ row.asked = razorpay[j].asked
      BY <1>1 DEF Razorpay
    <3> HIDE DEF row
    <3>4. QED BY <1>1, <3>2, <3>3
  <2>4. QED BY <1>6, <2>1, <2>2, <2>3
<1>7. ASSUME Ask(j)
      PROVE  \/ razorpay'[j] = razorpay[j]
             \/ Asking(j) /\ Refunds(j)' = Refunds(j) + 1
  <2>1. CASE razorpay' = razorpay
    BY <2>1
  <2>2. CASE razorpay' # razorpay
    <3> DEFINE n == razorpay[j].asked + 1
               row == [razorpay[j] EXCEPT !.asked = n]
    <3>1. /\ Asking(j)
          /\ razorpay' = [razorpay EXCEPT ![j] = row]
      BY <1>1, <1>7, <2>2 DEF Ask, Asking
    <3>2. row.made = razorpay[j].made /\ row.asked = n
      BY <1>1 DEF Razorpay
    <3> HIDE DEF row
    <3>3. razorpay'[j].made = razorpay[j].made /\ razorpay'[j].asked = n
      BY <1>1, <3>1, <3>2
    <3>4. QED BY <1>2, <3>1, <3>3 DEF Refunds
  <2>3. QED BY <2>1, <2>2
<1>8. ASSUME MakeRefund(j)
      PROVE  Refunds(j)' <= Refunds(j)
  <2> DEFINE made == IF razorpay[j].refund = "other" THEN razorpay[j].made
                     ELSE razorpay[j].made + 1
             asked == razorpay[j].asked - 1
             refund == IF razorpay[j].refund = "none" THEN "pending"
                       ELSE razorpay[j].refund
             row == [razorpay[j] EXCEPT !.asked = asked, !.made = made, !.refund = refund]
  <2>1. razorpay' = [razorpay EXCEPT ![j] = row]
    BY <1>1, <1>8 DEF MakeRefund
  <2>2. made + asked <= razorpay[j].made + razorpay[j].asked
    BY <1>2
  <2> HIDE DEF made, asked, refund
  <2>3. row.made = made /\ row.asked = asked
    BY <1>1 DEF Razorpay
  <2> HIDE DEF row
  <2>4. razorpay'[j].made = made /\ razorpay'[j].asked = asked
    BY <1>1, <2>1, <2>3
  <2>5. QED BY <2>2, <2>4 DEF Refunds
<1>9. \/ razorpay' = razorpay
      \/ \E k \in Job : \/ Pay(k) \/ FulfilRead(k) \/ Ask(k) \/ MakeRefund(k)
                        \/ OtherRefund(k, "fully") \/ OtherRefund(k, "partly")
                        \/ Decided(k)
  BY Writers
<1>10. QED BY <1>3, <1>4, <1>5, <1>6, <1>7, <1>8, <1>9

\* Who is asking has taken an intent that waited for it.
LEMMA AskingMoves ==
    ASSUME Known, [Next]_vars, NEW j \in Job, Asking(j)'
    PROVE  \/ Asking(j) /\ ~Ask(j)
           \/ Deliver(j) /\ intent[j].state = "pending"
<1>1. DOMAIN delivery = Job
  BY DEF Known, DeliveryKnown
<1>2. CASE delivery' = delivery /\ ~Ask(j)
  BY <1>2 DEF Asking
<1>3. ASSUME NEW k \in Job, k # j,
             \/ Deliver(k) \/ Ask(k) \/ MakeRefund(k) \/ AskInVain(k)
             \/ delivery' = [delivery EXCEPT ![k] = Idle]
      PROVE  delivery'[j] = delivery[j]
  BY <1>1, <1>3 DEF Deliver, Ask, MakeRefund, AskInVain
<1>4. ASSUME Deliver(j)
      PROVE  intent[j].state = "pending"
  <2>1. delivery'[j] = [was |-> intent[j].state, got |-> "nothing"]
    BY <1>1, <1>4 DEF Deliver
  <2>2. QED BY <2>1 DEF Asking
<1>5. ASSUME NEW got \in Outcomes \cup {"asked"}, delivery[j] # Idle,
             delivery' = [delivery EXCEPT ![j].got = got]
      PROVE  FALSE
  <2> DEFINE row == [delivery[j] EXCEPT !.got = got]
  <2>1. delivery'[j] = row
    BY <1>1, <1>5
  <2>2. delivery[j] \in InHand
    BY <1>5 DEF Known, DeliveryKnown
  <2>3. row.got = got
    BY <2>2 DEF InHand
  <2> HIDE DEF row
  <2>4. delivery'[j].got = got
    BY <2>1, <2>3
  <2>5. QED BY <2>4 DEF Asking, Outcomes
<1>6. ASSUME Ask(j)
      PROVE  FALSE
  <2> DEFINE refund == razorpay[j].refund
             got == IF refund = "pending" THEN "submitted" ELSE refund
  <2>1. refund \in {"none", "pending", "processed", "failed", "other"}
    BY DEF Known, TypeOK, Razorpay
  <2>2. delivery[j] # Idle
    BY <1>6 DEF Ask
  <2>3. \/ /\ refund \notin {"none", "other"}
           /\ delivery' = [delivery EXCEPT ![j].got = got]
        \/ delivery' = [delivery EXCEPT ![j].got = "manual_review"]
        \/ delivery' = [delivery EXCEPT ![j].got = "asked"]
    BY <1>6 DEF Ask
  <2>4. refund \notin {"none", "other"} => got \in Outcomes
    BY <2>1 DEF Outcomes
  <2> HIDE DEF got, refund
  <2>5. QED BY <1>5, <2>2, <2>3, <2>4 DEF Outcomes
<1>7. ASSUME MakeRefund(j)
      PROVE  Asking(j)
  <2> DEFINE b == delivery[j] # Idle /\ delivery[j].got = "asked"
                    /\ razorpay[j].refund # "other"
             r == [delivery[j] EXCEPT !.got = "submitted"]
             row == IF b THEN r ELSE delivery[j]
  <2>1. delivery' = [delivery EXCEPT ![j] = row]
    BY <1>7 DEF MakeRefund
  <2>2. b => /\ delivery[j] # Idle
             /\ delivery' = [delivery EXCEPT ![j].got = "submitted"]
    BY <2>1
  <2>3. ~b
    BY <1>5, <2>2 DEF Outcomes
  <2>4. delivery'[j] = delivery[j]
    BY <1>1, <2>1, <2>3
  <2>5. QED BY <2>4 DEF Asking
<1>8. ASSUME AskInVain(j)
      PROVE  FALSE
  <2>1. delivery[j] # Idle /\ delivery' = [delivery EXCEPT ![j].got = "ambiguous"]
    BY <1>8 DEF AskInVain
  <2>2. QED BY <1>5, <2>1 DEF Outcomes
<1>9. ASSUME delivery' = [delivery EXCEPT ![j] = Idle]
      PROVE  FALSE
  BY <1>1, <1>9 DEF Asking
<1>10. \/ delivery' = delivery
       \/ \E k \in Job : \/ Deliver(k) \/ Ask(k) \/ MakeRefund(k) \/ AskInVain(k)
                         \/ delivery' = [delivery EXCEPT ![k] = Idle]
  BY Writers
<1>11. ~Ask(j)
  BY <1>6
<1>12. delivery'[j] = delivery[j] => Asking(j)
  BY DEF Asking
<1>13. QED BY <1>2, <1>3, <1>4, <1>7, <1>8, <1>9, <1>10, <1>11, <1>12

\* A refund is asked for once, through crashes, lost answers and refunds that
\* an operator has made: the intent is marked before the provider is asked.
THEOREM RefundOnce == Spec => []RefundedOnce
<1>1. Init => AskedOnce
  BY DEF Init, AskedOnce, Refunds, Asking, NoPayment, NoIntent
<1>2. Known /\ AskedOnce /\ [Next]_vars => AskedOnce'
  <2> SUFFICES ASSUME Known, AskedOnce, [Next]_vars, NEW j \in Job
               PROVE  /\ Refunds(j)' <= 1
                      /\ Asking(j)' => Refunds(j)' = 0 /\ intent'[j].state \notin Fresh
                      /\ intent'[j].state \in Fresh => Refunds(j)' = 0
    BY DEF AskedOnce
  <2>1. /\ Refunds(j) <= 1
        /\ Asking(j) => Refunds(j) = 0 /\ intent[j].state \notin Fresh
        /\ intent[j].state \in Fresh => Refunds(j) = 0
    BY DEF AskedOnce
  <2>2. Refunds(j) \in Nat /\ Refunds(j)' \in Nat
    BY RefundsMove, RazorpayStays DEF Refunds, Razorpay
  <2>3. IntentMove(j)
    BY IntentsMove
  <2>4. intent'[j].state \in Fresh => intent[j].state \in Fresh
    BY <2>3 DEF IntentMove, Fresh
  <2>5. ASSUME Asking(j), Ask(j), Refunds(j)' = Refunds(j) + 1
        PROVE  /\ Refunds(j)' = 1
               /\ ~Asking(j)'
               /\ intent'[j].state \notin Fresh
    <3>1. ~Asking(j)'
      <4>1. ~(Deliver(j) /\ intent[j].state = "pending")
        BY <2>1, <2>5 DEF Fresh
      <4>2. QED BY <2>5, <4>1, AskingMoves
    <3>2. QED BY <2>1, <2>4, <2>5, <3>1
  <2>6. ASSUME Refunds(j)' <= Refunds(j)
        PROVE  /\ Refunds(j)' <= 1
               /\ Asking(j)' => Refunds(j)' = 0 /\ intent'[j].state \notin Fresh
               /\ intent'[j].state \in Fresh => Refunds(j)' = 0
    <3>1. Asking(j)' => Refunds(j) = 0 /\ intent'[j].state \notin Fresh
      <4>1. ASSUME Deliver(j), intent[j].state = "pending"
            PROVE  intent'[j].state \notin Fresh
        <5>1. intent \in [Job -> Intent]
          BY DEF Known, TypeOK
        <5>2. intent' = Taken(j)
          BY <4>1 DEF Deliver
        <5> DEFINE n == IF intent[j].attempts < Tries THEN intent[j].attempts + 1
                        ELSE intent[j].attempts
                   row == [intent[j] EXCEPT !.state = "ambiguous", !.attempts = n]
        <5>3. intent' = [intent EXCEPT ![j] = row]
          BY <5>1, <5>2 DEF Taken
        <5> HIDE DEF n
        <5>4. row.state = "ambiguous"
          BY <5>1 DEF Intent
        <5> HIDE DEF row
        <5>5. QED BY <5>1, <5>3, <5>4 DEF Fresh
      <4>2. QED BY <2>1, <2>4, <4>1, AskingMoves DEF Fresh
    <3>2. QED BY <2>1, <2>2, <2>4, <2>6, <3>1
  <2>7. QED BY <2>2, <2>5, <2>6, RefundsMove
<1>3. Known /\ AskedOnce => RefundedOnce
  <2> SUFFICES ASSUME Known, AskedOnce, NEW j \in Job PROVE razorpay[j].made <= 1
    BY DEF RefundedOnce
  <2>1. razorpay[j] \in Razorpay
    BY DEF Known, TypeOK
  <2>2. QED BY <2>1 DEF AskedOnce, Refunds, Razorpay
<1>4. QED BY <1>1, <1>2, <1>3, KnownAlways, PTL DEF Spec

-----------------------------------------------------------------------------
(* The quota.                                                              *)

\* Before it is admitted, a job has not counted.
Early == {"none", "uploading", "preflight_queued", "preflighting", "validated"}
QuotaKnown ==
    \A j \in Job \ overwritten :
      /\ used[j] = Earlier + IF job[j].quota \in {"reserved", "consumed"} THEN 1 ELSE 0
      /\ job[j].state \in Early => job[j].quota = "none"

\* What has been overwritten once is left out for ever.
LEMMA OverwrittenStay ==
    ASSUME [Next]_vars
    PROVE  overwritten \subseteq overwritten'
BY Writers DEF Commit

\* Who commits a row that nobody has written meanwhile knows it.
LEMMA SeenRow ==
    ASSUME Known, NEW j \in Job, Commits(j), j \notin overwritten'
    PROVE  /\ txn.seen[j].state = job[j].state
           /\ txn.seen[j].quota = job[j].quota
<1> DEFINE seen == txn.seen[j]
<1>1. job[j] \in VideoJob /\ seen \in VideoJob
  BY DEF Known, TypeOK, TxnKnown, Commits
<1>2. [job[j] EXCEPT !.time = "early"] = [seen EXCEPT !.time = "early"]
  BY DEF Commits
<1> HIDE DEF seen
<1>3. \A r \in VideoJob : /\ [r EXCEPT !.time = "early"].state = r.state
                          /\ [r EXCEPT !.time = "early"].quota = r.quota
  BY DEF VideoJob
<1>4. seen.state = job[j].state /\ seen.quota = job[j].quota
  BY <1>1, <1>2, <1>3
<1>5. QED BY <1>4 DEF seen

\* A complimentary video counts once, until it is given back, unless a sweep
\* has written over what another transaction did meanwhile.
THEOREM QuotaExact == Spec => []QuotaIsExact
<1>1. Init => QuotaKnown
  BY VideoBounds DEF Init, QuotaKnown, NewJob
<1>2. Known /\ QuotaKnown /\ [Next]_vars => QuotaKnown'
  <2> SUFFICES ASSUME Known, QuotaKnown, [Next]_vars,
                      NEW j \in Job, j \notin overwritten'
               PROVE  /\ used'[j] = Earlier + IF job'[j].quota \in {"reserved", "consumed"}
                                              THEN 1 ELSE 0
                      /\ job'[j].state \in Early => job'[j].quota = "none"
    BY DEF QuotaKnown
  <2>1. /\ used[j] = Earlier + IF job[j].quota \in {"reserved", "consumed"} THEN 1 ELSE 0
        /\ job[j].state \in Early => job[j].quota = "none"
    BY OverwrittenStay DEF QuotaKnown
  <2>2. Earlier \in Nat /\ used[j] \in Nat
    BY VideoBounds DEF Known, TypeOK
  <2>3. CASE Rests(j)
    BY <2>1, <2>3 DEF Rests
  <2>4. CASE Starts(j)
    <3>1. /\ job'[j].quota = job[j].quota /\ used'[j] = used[j]
          /\ job'[j].state \in Early => job[j].state \in Early
      BY <2>4 DEF Starts, Early
    <3>2. QED BY <2>1, <3>1
  <2>5. CASE Admitted(j)
    <3>1. /\ job[j].quota = "none" /\ job'[j].quota = "reserved"
          /\ used'[j] = used[j] + 1
          /\ job'[j].state \notin Early
      BY <2>1, <2>5 DEF Admitted, Early
    <3>2. QED BY <2>1, <2>2, <3>1
  <2>6. CASE Claimed(j)
    <3>1. /\ used'[j] = used[j]
          /\ job'[j].state \in Early => job[j].state = "preflight_queued"
          /\ job'[j].quota = IF job[j].quota = "reserved" /\ job[j].state = "queued"
                             THEN "consumed" ELSE job[j].quota
      BY <2>6 DEF Claimed, Early
    <3>2. QED BY <2>1, <3>1 DEF Early
  <2>7. CASE Uploads(j)
    BY <2>1, <2>7 DEF Uploads, Early
  <2>8. CASE Stops(j)
    <3>1. job'[j].state \notin Early
      BY <2>8 DEF Stops, Early
    <3>2. QED BY <2>1, <2>2, <2>8, <3>1 DEF Stops
  <2>9. CASE Commits(j)
    <3> DEFINE verdict == txn.verdict[j]
               seen == txn.seen[j]
    <3>1. seen.state = job[j].state /\ seen.quota = job[j].quota
      BY <2>9, SeenRow
    <3>2. /\ verdict \in Verdicts(txn.kind) \ {"clean"}
          /\ verdict = "expire" =>
               /\ job'[j].state = IF seen.state = "expired" THEN job[j].state ELSE "expired"
               /\ job'[j].quota = job[j].quota
          /\ verdict \in {"fail", "failed"} =>
               /\ job'[j].state \in {"failed", "refund_pending"}
               /\ job'[j].quota = IF Restores(seen.quota, TRUE) THEN "restored"
                                  ELSE job[j].quota
          /\ verdict = "requeue" =>
               /\ job'[j].state = IF seen.state = "processing" THEN "queued"
                                  ELSE "preflight_queued"
               /\ job'[j].quota = job[j].quota
          /\ verdict = "valid" => job'[j].state = "validated" /\ job'[j].quota = job[j].quota
          /\ verdict = "ready" => job'[j].state = "ready" /\ job'[j].quota = job[j].quota
      BY <2>9, CommitsRow
    <3>3. /\ verdict = "requeue" => seen.state \in Running
          /\ verdict = "valid" => seen.state = "preflighting"
      BY <2>9 DEF Commits, Known, TxnKnown
    <3>4. used'[j] = IF verdict \in {"fail", "failed"}
                     THEN IF Restores(seen.quota, TRUE) /\ used[j] > 0
                          THEN used[j] - 1 ELSE used[j]
                     ELSE used[j]
      BY <2>9 DEF Commits, LessUsed
    <3>5. Restores(seen.quota, TRUE) <=> seen.quota \in {"reserved", "consumed"}
      BY DEF Restores
    <3> HIDE DEF verdict, seen
    <3>6. job'[j].state \in Early => job[j].state \in Early /\ job'[j].quota = job[j].quota
      BY <3>1, <3>2, <3>3 DEF Verdicts, Early, Running
    <3>7. used'[j] = Earlier + IF job'[j].quota \in {"reserved", "consumed"} THEN 1 ELSE 0
      <4>1. CASE verdict \in {"fail", "failed"}
        <5>1. /\ job'[j].quota = IF job[j].quota \in {"reserved", "consumed"}
                                  THEN "restored" ELSE job[j].quota
              /\ used'[j] = IF job[j].quota \in {"reserved", "consumed"} /\ used[j] > 0
                            THEN used[j] - 1 ELSE used[j]
          BY <3>1, <3>2, <3>4, <3>5, <4>1
        <5>2. CASE job[j].quota \in {"reserved", "consumed"}
          BY <2>1, <2>2, <5>1, <5>2
        <5>3. CASE job[j].quota \notin {"reserved", "consumed"}
          BY <2>1, <2>2, <5>1, <5>3
        <5>4. QED BY <5>2, <5>3
      <4>2. CASE verdict \notin {"fail", "failed"}
        BY <2>1, <3>2, <3>4, <4>2 DEF Verdicts
      <4>3. QED BY <4>1, <4>2
    <3>8. QED BY <2>1, <3>6, <3>7
  <2>10. CASE job'[j] = job[j] /\ used'[j] = used[j]
    BY <2>1, <2>10
  <2>11. QED
    BY <2>3, <2>4, <2>5, <2>6, <2>7, <2>8, <2>9, <2>10, StepsMove, CommitWrites
    DEF Moved, Moves, Committed
<1>3. QuotaKnown => QuotaIsExact
  BY DEF QuotaKnown, QuotaIsExact
<1>4. QED BY <1>1, <1>2, <1>3, KnownAlways, PTL DEF Spec

-----------------------------------------------------------------------------
(* The output.                                                             *)

FaultsKnown == faults \in [crashes: Nat, losses: Nat]

\* Faults are counted, and a loss is one.
LEMMA FaultsCounted ==
    ASSUME FaultsKnown, [Next]_vars
    PROVE  /\ FaultsKnown'
           /\ faults'.losses = 0 => faults.losses = 0
           /\ \A j \in Job : LoseOutput(j) => faults'.losses # 0
<1>1. CASE UNCHANGED faults
  BY <1>1 DEF FaultsKnown, LoseOutput
<1>2. CASE faults' = [faults EXCEPT !.crashes = @ + 1]
  <2>1. FaultsKnown' /\ faults'.losses = faults.losses
    BY <1>2 DEF FaultsKnown
  <2>2. ASSUME NEW j \in Job, LoseOutput(j)
        PROVE  faults'.losses # 0
    BY <2>2 DEF LoseOutput, FaultsKnown
  <2>3. QED BY <2>1, <2>2
<1>3. CASE faults' = [faults EXCEPT !.losses = @ + 1]
  BY <1>3 DEF FaultsKnown
<1>4. \/ UNCHANGED faults
      \/ faults' = [faults EXCEPT !.crashes = @ + 1]
      \/ faults' = [faults EXCEPT !.losses = @ + 1]
  <2>1. CASE UNCHANGED vars
    BY <2>1 DEF vars
  <2>2. ASSUME NEW j \in Job, User(j) \/ Payments(j)
        PROVE  faults' = faults
    BY <2>2
    DEF User, Payments, Create, Preflight, AdmitFree, AdmitPaid, AdmitAgain, Cancel,
        Media, Pay, OrderCreated, OrderUnknown, FulfilRead, FulfilCommit, RefundNotice,
        OtherRefund, Decided, RefundDecided, upkeep
  <2>3. ASSUME NEW j \in Job, Delivery(j) \/ Clock(j)
        PROVE  \/ faults' = faults
               \/ faults' = [faults EXCEPT !.crashes = @ + 1]
               \/ faults' = [faults EXCEPT !.losses = @ + 1]
    BY <2>3
    DEF Delivery, Clock, Deliver, Ask, MakeRefund, AskInVain, Delivered, DeliveryCrash,
        Tick, LeaseLapses, LoseOutput, upkeep
  <2>4. CASE Node
    BY <2>4 DEF Node, Claim, ClaimStale, Judge, Upload, GiveUp, upkeep
  <2>5. CASE Complete \/ Sweep
    BY <2>5
    DEF Complete, Sweep, CompleteRead, CompleteAbort, SweepRead, SweepCrash, Clean,
        Commit
  <2>6. QED BY <2>1, <2>2, <2>3, <2>4, <2>5 DEF Next
<1>5. QED BY <1>1, <1>2, <1>3, <1>4

\* The cache drops the output of no job that can be downloaded.
LEMMA CacheMoves ==
    ASSUME Known, [Next]_vars, NEW j \in Job, cache'[j] # cache[j],
           ~Commit("complete"), ~Commit("sweep")
    PROVE  \/ job[j].state # "ready"
           \/ job'[j].time = "over"
           \/ LoseOutput(j)
<1>1. cache \in [Job -> Nat] /\ job \in [Job -> VideoJob]
  BY DEF Known, TypeOK
<1>2. CASE Upload
  <2>1. cache' = [cache EXCEPT ![worker.job] = worker.attempt]
    BY <1>2 DEF Upload
  <2>2. worker.job = j /\ job[j].state = "processing"
    BY <1>1, <1>2, <2>1 DEF Upload
  <2>3. QED BY <2>2
<1>3. ASSUME NEW k \in Job, Cancel(k) \/ Clean(k) \/ Tick(k) \/ LoseOutput(k)
      PROVE  k = j
  BY <1>1, <1>3 DEF Cancel, Clean, Tick, LoseOutput
<1>4. CASE Cancel(j)
  BY <1>4 DEF Cancel, Terminal
<1>5. CASE Clean(j)
  BY <1>5 DEF Clean, Known, CleanKnown, Gone
<1>6. CASE Tick(j)
  <2> DEFINE time == IF job[j].state = "checkout" /\ job[j].time = "early"
                     THEN "late" ELSE "over"
             row == [job[j] EXCEPT !.time = time]
  <2>1. /\ job' = [job EXCEPT ![j] = row]
        /\ cache' = [cache EXCEPT ![j] = IF time = "over" THEN 0 ELSE @]
    BY <1>1, <1>6 DEF Tick
  <2>2. time = "over"
    BY <1>1, <2>1
  <2>3. row.time = time
    BY <1>1 DEF VideoJob
  <2> HIDE DEF time, row
  <2>4. QED BY <1>1, <2>1, <2>2, <2>3
<1>7. QED BY <1>2, <1>3, <1>4, <1>5, <1>6, Writers

\* While a video can be downloaded, the bytes in the cache are the ones that
\* the job names, unless the cache has lost them.
THEOREM OutputDelivered == Spec => []OutputIsDelivered
<1>1. Init => FaultsKnown /\ OutputIsDelivered
  BY DEF Init, FaultsKnown, OutputIsDelivered, NewJob
<1>2. Known /\ FaultsKnown /\ OutputIsDelivered /\ [Next]_vars
        => FaultsKnown' /\ OutputIsDelivered'
  <2> SUFFICES ASSUME Known, FaultsKnown, OutputIsDelivered, [Next]_vars
               PROVE  FaultsKnown' /\ OutputIsDelivered'
    OBVIOUS
  <2>1. FaultsKnown'
    BY FaultsCounted
  <2>2. ASSUME NEW j \in Job, job'[j].state = "ready", job'[j].time # "over",
               faults'.losses = 0
        PROVE  cache'[j] = job'[j].hash
    <3>1. faults.losses = 0 /\ ~LoseOutput(j)
      BY <2>2, FaultsCounted
    <3>2. job[j].state = "ready" /\ job[j].time # "over" => cache[j] = job[j].hash
      BY <3>1 DEF OutputIsDelivered
    <3>3. CASE ~Commit("complete") /\ ~Commit("sweep")
      <4>1. Moves(j)
        BY <3>3, StepsMove DEF Moved
      <4>2. /\ job[j].state = "ready" /\ job[j].time # "over"
            /\ job'[j].hash = job[j].hash
        BY <2>2, <4>1 DEF Moves, Rests, Starts, Admitted, Claimed, Uploads, Stops
      <4>3. cache'[j] = cache[j]
        BY <2>2, <3>1, <3>3, <4>2, CacheMoves
      <4>4. QED BY <3>2, <4>2, <4>3
    <3>4. ASSUME NEW kind, Commit(kind)
          PROVE  cache'[j] = job'[j].hash
      <4>1. Committed
        BY <3>4, CommitWrites
      <4>2. cache'[j] = IF j \in DOMAIN txn.verdict /\ txn.verdict[j] = "requeue"
                        THEN 0 ELSE cache[j]
        BY <3>4 DEF Commit
      <4>3. CASE /\ job'[j] = job[j]
                 /\ j \in DOMAIN txn.verdict => txn.verdict[j] = "clean"
        BY <2>2, <3>2, <4>2, <4>3
      <4>4. CASE Commits(j)
        <5>1. /\ txn.verdict[j] = "expire" =>
                   job'[j].state = IF txn.seen[j].state = "expired" THEN job[j].state
                                   ELSE "expired"
              /\ txn.verdict[j] \in {"fail", "failed"} =>
                   job'[j].state \in {"failed", "refund_pending"}
              /\ txn.verdict[j] = "requeue" =>
                   job'[j].state \in {"queued", "preflight_queued"}
              /\ txn.verdict[j] = "valid" => job'[j].state = "validated"
              /\ txn.verdict[j] = "ready" => job'[j].hash = job[j].hash
              /\ txn.verdict[j] \in Verdicts(txn.kind) \ {"clean"}
          BY <4>4, CommitsRow
        <5>2. txn.verdict[j] = "expire" /\ txn.seen[j].state = "expired"
                => job[j].state \in Gone
          BY <4>4 DEF Commits, Known, TxnKnown
        <5>3. txn.verdict[j] = "ready"
          BY <2>2, <5>1, <5>2 DEF Verdicts, Gone
        <5>4. cache[j] = job[j].hash
          BY <4>4, <5>3 DEF Commits
        <5>5. QED BY <4>2, <5>1, <5>3, <5>4
      <4>5. QED BY <4>1, <4>3, <4>4 DEF Committed
    <3>5. QED BY <3>3, <3>4
  <2>3. QED BY <2>1, <2>2 DEF OutputIsDelivered
<1>3. QED BY <1>1, <1>2, KnownAlways, PTL DEF Spec
=============================================================================
