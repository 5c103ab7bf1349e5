------------------------- MODULE KnowledgeJobs_proofs -------------------------
(* Proofs about KnowledgeJobs, for any documents, requests and workers, any *)
(* derived stages and any number of attempts and faults.                   *)
EXTENDS KnowledgeJobs, SequenceTheorems, FiniteSetTheorems, TLAPS

-----------------------------------------------------------------------------
(* What is known of the jobs and of who runs them.                         *)

\* An owner's request is open or over once it is made.
RequestsKnow ==
    /\ request = [q \in Request |-> request[q]]
    /\ \A q \in Request :
         request[q] # None =>
           /\ q \in made
           /\ request[q].document \in Document
           /\ request[q].saw \in Knowledge
           /\ request[q].jobs \subseteq 1 .. Len(jobs)

\* A job is named by its document, its type and its key: approvals are made
\* once, so are requests, and the chain looks for its key.
Named(list) ==
    /\ \A i \in 1 .. Len(list) :
         /\ list[i].key = "chain" <=> list[i].type # "ingest"
         /\ list[i].type \in Enabled \cup {"ingest"}
    /\ \A i, j \in 1 .. Len(list) :
         /\ list[i].type = list[j].type
         /\ list[i].key = list[j].key
         /\ list[i].key \in Request \/ list[i].document = list[j].document
         => i = j

\* No job has a name that will be given again.
NamesKnow ==
    \A i \in 1 .. Len(jobs) :
      /\ doc[jobs[i].document].status # "none"
      /\ jobs[i].key \in Request => /\ jobs[i].key \in made
                                    /\ request[jobs[i].key] = None

\* A worker that is not idle holds a job that does not wait.
HoldersKnow ==
    \A w \in Worker :
      worker[w].at # "idle" => /\ worker[w].job \in 1 .. Len(jobs)
                               /\ Mine(w).status \in {"running", "cancelled"}

\* No two workers hold one job.
HeldOnce ==
    \A v, w \in Worker : /\ worker[v].at # "idle"
                         /\ worker[w].at # "idle"
                         /\ worker[v].job = worker[w].job
                         => v = w

-----------------------------------------------------------------------------
(* Lists of jobs.                                                          *)

\* A job with another status or another count of attempts is a job.
LEMMA RowWritten ==
    ASSUME NEW row \in Job, NEW s \in Active \cup Over, NEW n \in 0 .. Attempts
    PROVE  /\ [row EXCEPT !.status = s] \in Job
           /\ [row EXCEPT !.attempts = n, !.status = s] \in Job
           /\ [row EXCEPT !.status = s].document = row.document
           /\ [row EXCEPT !.status = s].type = row.type
           /\ [row EXCEPT !.status = s].key = row.key
           /\ [row EXCEPT !.status = s].status = s
           /\ [row EXCEPT !.attempts = n, !.status = s].document = row.document
           /\ [row EXCEPT !.attempts = n, !.status = s].type = row.type
           /\ [row EXCEPT !.attempts = n, !.status = s].key = row.key
BY DEF Job

\* A list whose jobs are replaced one by one is a list.
LEMMA ListWritten ==
    ASSUME NEW list \in Seq(Job), NEW other \in [1 .. Len(list) -> Job]
    PROVE  /\ other \in Seq(Job)
           /\ Len(other) = Len(list)
<1>1. Len(list) \in Nat
  BY LenProperties
<1>2. other \in Seq(Job)
  BY <1>1, SeqDef
<1>3. DOMAIN other = 1 .. Len(other) /\ Len(other) \in Nat
  BY <1>2, LenProperties
<1>4. QED BY <1>1, <1>2, <1>3

\* A new job is a job.
LEMMA NewJobTypes ==
    ASSUME NEW d \in Document, NEW t \in Types, NEW k \in Keys
    PROVE  NewJob(d, t, k) \in Job
BY KnowledgeBounds DEF NewJob, Job, Active, Waiting

\* The list b has the jobs of the list a, each with its name.
Kept(a, b) ==
    /\ Len(a) <= Len(b)
    /\ \A i \in 1 .. Len(a) : /\ b[i].document = a[i].document
                              /\ b[i].type = a[i].type
                              /\ b[i].key = a[i].key

\* Jobs that keep their names stay named.
LEMMA NamesStay ==
    ASSUME NEW list \in Seq(Job), NEW other \in [1 .. Len(list) -> Job],
           Kept(list, other), Named(list)
    PROVE  Named(other)
BY ListWritten DEF Named, Kept

\* One job is replaced by a job of its name.
LEMMA OneWritten ==
    ASSUME NEW list \in Seq(Job), NEW i \in 1 .. Len(list), NEW row \in Job,
           row.document = list[i].document,
           row.type = list[i].type,
           row.key = list[i].key
    PROVE  /\ [list EXCEPT ![i] = row] \in Seq(Job)
           /\ Len([list EXCEPT ![i] = row]) = Len(list)
           /\ Kept(list, [list EXCEPT ![i] = row])
           /\ Named(list) => Named([list EXCEPT ![i] = row])
           /\ [list EXCEPT ![i] = row][i] = row
           /\ \A j \in 1 .. Len(list) : j # i => [list EXCEPT ![i] = row][j] = list[j]
<1> DEFINE other == [list EXCEPT ![i] = row]
<1>1. list \in [1 .. Len(list) -> Job]
  BY LenProperties
<1>2. other \in [1 .. Len(list) -> Job]
  BY <1>1
<1>3. other \in Seq(Job) /\ Len(other) = Len(list)
  BY <1>2, ListWritten
<1>4. other[i] = row /\ \A j \in 1 .. Len(list) : j # i => other[j] = list[j]
  BY <1>1
<1>5. Len(list) \in Nat
  BY LenProperties
<1>6. Kept(list, other)
  BY <1>3, <1>4, <1>5 DEF Kept
<1>7. Named(list) => Named(other)
  BY <1>2, <1>6, NamesStay
<1>8. QED BY <1>3, <1>4, <1>6, <1>7

\* A job is added under a name that no other has.
LEMMA OneAdded ==
    ASSUME NEW list \in Seq(Job), NEW row \in Job
    PROVE  /\ Append(list, row) \in Seq(Job)
           /\ Len(Append(list, row)) = Len(list) + 1
           /\ Kept(list, Append(list, row))
           /\ Append(list, row)[Len(list) + 1] = row
           /\ \A j \in 1 .. Len(list) : Append(list, row)[j] = list[j]
           /\ /\ Named(list)
              /\ row.key = "chain" <=> row.type # "ingest"
              /\ row.type \in Enabled \cup {"ingest"}
              /\ \A j \in 1 .. Len(list) :
                   ~ /\ list[j].type = row.type
                     /\ list[j].key = row.key
                     /\ row.key \in Request \/ list[j].document = row.document
              => Named(Append(list, row))
<1> DEFINE other == Append(list, row)
<1>1. other \in Seq(Job) /\ Len(list) \in Nat
  BY LenProperties
<1>2. Len(other) = Len(list) + 1
  OBVIOUS
<1>3. other[Len(list) + 1] = row /\ \A j \in 1 .. Len(list) : other[j] = list[j]
  OBVIOUS
<1>4. Kept(list, other)
  BY <1>1, <1>2, <1>3 DEF Kept
<1> HIDE DEF other
<1>5. ASSUME Named(list),
             row.key = "chain" <=> row.type # "ingest",
             row.type \in Enabled \cup {"ingest"},
             \A j \in 1 .. Len(list) :
               ~ /\ list[j].type = row.type
                 /\ list[j].key = row.key
                 /\ row.key \in Request \/ list[j].document = row.document
      PROVE  Named(other)
  <2>1. \A i \in 1 .. Len(other) : i \in 1 .. Len(list) \/ i = Len(list) + 1
    BY <1>1, <1>2
  <2>2. \A i \in 1 .. Len(other) : /\ other[i].key = "chain" <=> other[i].type # "ingest"
                                   /\ other[i].type \in Enabled \cup {"ingest"}
    BY <1>3, <1>5, <2>1 DEF Named
  <2>3. ASSUME NEW i \in 1 .. Len(other), NEW j \in 1 .. Len(other),
               other[i].type = other[j].type,
               other[i].key = other[j].key,
               other[i].key \in Request \/ other[i].document = other[j].document
        PROVE  i = j
    <3>1. CASE i \in 1 .. Len(list) /\ j \in 1 .. Len(list)
      BY <1>3, <1>5, <2>3, <3>1 DEF Named
    <3>2. CASE i \in 1 .. Len(list) /\ j = Len(list) + 1
      BY <1>3, <1>5, <2>3, <3>2
    <3>3. CASE j \in 1 .. Len(list) /\ i = Len(list) + 1
      BY <1>3, <1>5, <2>3, <3>3
    <3>4. QED BY <2>1, <3>1, <3>2, <3>3
  <2>4. QED BY <2>2, <2>3 DEF Named
<1>6. QED BY <1>1, <1>2, <1>3, <1>4, <1>5 DEF other

-----------------------------------------------------------------------------
(* What the operations do to the list of jobs.                             *)

\* The stage that follows is an enabled one.
LEMMA AfterEnabled ==
    ASSUME NEW t
    PROVE  After(t) \subseteq Enabled
BY DEF After

\* A cancellation by a request leaves every job its name.
LEMMA CancelledList ==
    ASSUME TypeOK, RequestsKnow, NEW q \in Request, request[q] # None
    PROVE  /\ JobsCancelled(q) \in Seq(Job)
           /\ Len(JobsCancelled(q)) = Len(jobs)
           /\ Kept(jobs, JobsCancelled(q))
           /\ Named(jobs) => Named(JobsCancelled(q))
           /\ \A i \in 1 .. Len(jobs) :
                JobsCancelled(q)[i].status \in {jobs[i].status, "cancelled"}
<1> DEFINE other == JobsCancelled(q)
<1>1. jobs \in Seq(Job) /\ Len(jobs) \in Nat
  BY LenProperties DEF TypeOK
<1>2. \A i \in 1 .. Len(jobs) : jobs[i] \in Job
  BY <1>1, ElementOfSeq
<1>3. \A i \in 1 .. Len(jobs) :
        other[i] = jobs[i] \/ other[i] = [jobs[i] EXCEPT !.status = "cancelled"]
  BY DEF JobsCancelled
<1>4. ASSUME NEW i \in 1 .. Len(jobs)
      PROVE  /\ other[i] \in Job
             /\ other[i].document = jobs[i].document
             /\ other[i].type = jobs[i].type
             /\ other[i].key = jobs[i].key
             /\ other[i].status \in {jobs[i].status, "cancelled"}
  <2>1. "cancelled" \in Active \cup Over /\ 0 \in 0 .. Attempts
    BY KnowledgeBounds DEF Over
  <2>2. /\ [jobs[i] EXCEPT !.status = "cancelled"] \in Job
        /\ [jobs[i] EXCEPT !.status = "cancelled"].document = jobs[i].document
        /\ [jobs[i] EXCEPT !.status = "cancelled"].type = jobs[i].type
        /\ [jobs[i] EXCEPT !.status = "cancelled"].key = jobs[i].key
        /\ [jobs[i] EXCEPT !.status = "cancelled"].status = "cancelled"
    BY <1>2, <2>1, RowWritten
  <2>3. QED BY <1>2, <1>3, <2>2
<1>5. other \in [1 .. Len(jobs) -> Job]
  BY <1>4 DEF JobsCancelled
<1>6. other \in Seq(Job) /\ Len(other) = Len(jobs)
  BY <1>1, <1>5, ListWritten
<1>7. Kept(jobs, other)
  BY <1>1, <1>4, <1>6 DEF Kept
<1>8. Named(jobs) => Named(other)
  BY <1>1, <1>5, <1>7, NamesStay
<1>9. QED BY <1>4, <1>6, <1>7, <1>8

\* The job of w changes as row says; the others do not.
OwnWritten(w, list) ==
    /\ list \in Seq(Job)
    /\ Kept(jobs, list)
    /\ Named(jobs) => Named(list)
    /\ \A j \in 1 .. Len(jobs) : j # worker[w].job => list[j] = jobs[j]
    /\ \A j \in Len(jobs) + 1 .. Len(list) : /\ list[j].key = "chain"
                                             /\ list[j].document = About(w)

\* One job's status is written.
LEMMA StatusList ==
    ASSUME TypeOK, NEW i \in 1 .. Len(jobs), NEW s \in Active \cup Over
    PROVE  LET list == [jobs EXCEPT ![i].status = s]
           IN  /\ list \in Seq(Job)
               /\ Len(list) = Len(jobs)
               /\ Kept(jobs, list)
               /\ Named(jobs) => Named(list)
               /\ list[i].status = s
               /\ \A j \in 1 .. Len(jobs) : j # i => list[j] = jobs[j]
<1> DEFINE row == [jobs[i] EXCEPT !.status = s]
<1>1. jobs \in Seq(Job) /\ jobs[i] \in Job
  BY ElementOfSeq DEF TypeOK
<1>2. 0 \in 0 .. Attempts
  BY KnowledgeBounds
<1>3. /\ row \in Job
      /\ row.document = jobs[i].document
      /\ row.type = jobs[i].type
      /\ row.key = jobs[i].key
      /\ row.status = s
  BY <1>1, <1>2, RowWritten
<1>4. [jobs EXCEPT ![i].status = s] = [jobs EXCEPT ![i] = row]
  OBVIOUS
<1> HIDE DEF row
<1> DEFINE list == [jobs EXCEPT ![i] = row]
<1>5. /\ list \in Seq(Job)
      /\ Len(list) = Len(jobs)
      /\ Kept(jobs, list)
      /\ Named(jobs) => Named(list)
      /\ list[i] = row
      /\ \A j \in 1 .. Len(jobs) : j # i => list[j] = jobs[j]
  BY <1>1, <1>3, OneWritten
<1>6. [jobs EXCEPT ![i].status = s] = list
  BY <1>4
<1> HIDE DEF list
<1>7. QED BY <1>3, <1>5, <1>6

\* A failure writes the status and the attempts of the worker's job.
LEMMA FailedList ==
    ASSUME TypeOK, NEW w \in Worker, worker[w].job \in 1 .. Len(jobs), Fail(w)
    PROVE  OwnWritten(w, jobs') /\ Len(jobs') = Len(jobs)
<1> DEFINE i == worker[w].job
           s == IF MayRetry(i) THEN "retrying" ELSE "failed"
           n == IF jobs[i].attempts < Attempts THEN jobs[i].attempts + 1
                                               ELSE jobs[i].attempts
           row == [jobs[i] EXCEPT !.attempts = n, !.status = s]
<1>1. jobs \in Seq(Job) /\ jobs[i] \in Job /\ Len(jobs) \in Nat
  BY ElementOfSeq, LenProperties DEF TypeOK
<1>2. s \in Active \cup Over
  BY DEF Active, Waiting, Over
<1>3. n \in 0 .. Attempts
  <2>1. jobs[i].attempts \in 0 .. Attempts
    BY <1>1 DEF Job
  <2>2. QED BY <2>1, KnowledgeBounds
<1>4. jobs' = [jobs EXCEPT ![i] = row]
  BY <1>1, LenProperties DEF Fail
<1>0. i \in 1 .. Len(jobs)
  OBVIOUS
<1> HIDE DEF n, s, i
<1>5. row \in Job /\ row.document = jobs[i].document /\ row.type = jobs[i].type
        /\ row.key = jobs[i].key
  BY <1>1, <1>2, <1>3 DEF Job
<1> HIDE DEF row
<1> DEFINE list == [jobs EXCEPT ![i] = row]
<1>6. /\ list \in Seq(Job)
      /\ Len(list) = Len(jobs)
      /\ Kept(jobs, list)
      /\ Named(jobs) => Named(list)
      /\ \A j \in 1 .. Len(jobs) : j # i => list[j] = jobs[j]
  BY <1>0, <1>1, <1>5, OneWritten
<1> HIDE DEF list
<1>7. jobs' = list
  BY <1>4 DEF list
<1>8. Len(jobs) + 1 .. Len(list) = {}
  BY <1>1, <1>6
<1>9. QED BY <1>6, <1>7, <1>8 DEF OwnWritten, i

\* The chain adds a job of its key, if there is none.
LEMMA EnqueuedList ==
    ASSUME NEW list \in Seq(Job), NEW d \in Document, NEW t \in Enabled
    PROVE  /\ Enqueued(list, d, t) \in Seq(Job)
           /\ Len(Enqueued(list, d, t)) \in {Len(list), Len(list) + 1}
           /\ Kept(list, Enqueued(list, d, t))
           /\ Named(list) => Named(Enqueued(list, d, t))
           /\ \A j \in 1 .. Len(list) : Enqueued(list, d, t)[j] = list[j]
           /\ \A j \in Len(list) + 1 .. Len(Enqueued(list, d, t)) :
                /\ Enqueued(list, d, t)[j].key = "chain"
                /\ Enqueued(list, d, t)[j].document = d
<1> DEFINE new == \A i \in 1 .. Len(list) : ~ /\ list[i].document = d
                                              /\ list[i].type = t
                                              /\ list[i].key = "chain"
           row == NewJob(d, t, "chain")
<1>1. Len(list) \in Nat
  BY LenProperties
<1>2. CASE ~new
  <2>1. Enqueued(list, d, t) = list
    BY <1>2 DEF Enqueued
  <2>2. Len(list) + 1 .. Len(list) = {}
    BY <1>1
  <2>3. Kept(list, list)
    BY <1>1 DEF Kept
  <2>4. QED BY <2>1, <2>2, <2>3
<1>3. CASE new
  <2>1. Enqueued(list, d, t) = Append(list, row)
    BY <1>3 DEF Enqueued
  <2>2. row \in Job
    BY NewJobTypes, EnabledAssumption DEF Keys
  <2>3. row.key = "chain" /\ row.type = t /\ row.document = d
    BY DEF NewJob
  <2>4. t # "ingest" /\ "chain" \notin Request
    BY EnabledAssumption, RequestsAssumption
  <2> HIDE DEF row
  <2>5. Named(list) => Named(Append(list, row))
    BY <1>3, <2>2, <2>3, <2>4, OneAdded
  <2>6. /\ Append(list, row) \in Seq(Job)
        /\ Len(Append(list, row)) = Len(list) + 1
        /\ Kept(list, Append(list, row))
        /\ Append(list, row)[Len(list) + 1] = row
        /\ \A j \in 1 .. Len(list) : Append(list, row)[j] = list[j]
    BY <2>2, OneAdded
  <2>7. \A j \in Len(list) + 1 .. Len(list) + 1 : j = Len(list) + 1
    BY <1>1
  <2>8. \A j \in Len(list) + 1 .. Len(Append(list, row)) : Append(list, row)[j] = row
    BY <2>6, <2>7
  <2>9. QED BY <2>1, <2>3, <2>5, <2>6, <2>8
<1>4. QED BY <1>2, <1>3

\* The end of a job writes its status, and adds one job of the chain at most.
LEMMA CompletedList ==
    ASSUME TypeOK, NEW w \in Worker, worker[w].job \in 1 .. Len(jobs),
           NEW seen, NEW status
    PROVE  OwnWritten(w, Completed(w, seen, status))
<1> DEFINE i == worker[w].job
           over == [jobs EXCEPT ![i].status = "completed"]
           next == After(jobs[i].type)
           t == CHOOSE x \in next : TRUE
           d == About(w)
<1>1. jobs \in Seq(Job) /\ jobs[i] \in Job /\ Len(jobs) \in Nat
  BY ElementOfSeq, LenProperties DEF TypeOK
<1>2. "completed" \in Active \cup Over
  BY DEF Over
<1>3. /\ over \in Seq(Job)
      /\ Len(over) = Len(jobs)
      /\ Kept(jobs, over)
      /\ Named(jobs) => Named(over)
      /\ \A j \in 1 .. Len(jobs) : j # i => over[j] = jobs[j]
  BY <1>2, StatusList
<1>4. d \in Document
  BY <1>1 DEF About, Mine, Job
<1>5. next # {} => t \in Enabled
  BY AfterEnabled
<1>6. Len(jobs) + 1 .. Len(jobs) = {}
  BY <1>1
<1>7. Kept(jobs, jobs)
  BY <1>1 DEF Kept
<1>8. Completed(w, seen, status) =
        IF seen = "cancelled" THEN jobs
        ELSE IF worker[w].dropped \/ status # "ready" \/ next = {} THEN over
        ELSE Enqueued(over, d, t)
  BY DEF Completed
<1> HIDE DEF over, next, t, d
<1>9. CASE Completed(w, seen, status) = jobs
  BY <1>1, <1>6, <1>7, <1>9 DEF OwnWritten
<1>10. CASE Completed(w, seen, status) = over
  BY <1>3, <1>6, <1>10 DEF OwnWritten
<1>11. CASE Completed(w, seen, status) = Enqueued(over, d, t) /\ next # {}
  <2> DEFINE list == Enqueued(over, d, t)
  <2>1. /\ list \in Seq(Job)
        /\ Len(list) \in {Len(over), Len(over) + 1}
        /\ Kept(over, list)
        /\ Named(over) => Named(list)
        /\ \A j \in 1 .. Len(over) : list[j] = over[j]
        /\ \A j \in Len(over) + 1 .. Len(list) : /\ list[j].key = "chain"
                                                 /\ list[j].document = d
    BY <1>3, <1>4, <1>5, <1>11, EnqueuedList
  <2> HIDE DEF list
  <2>2. Kept(jobs, list)
    BY <1>1, <1>3, <2>1 DEF Kept
  <2>3. \A j \in 1 .. Len(jobs) : j # i => list[j] = jobs[j]
    BY <1>3, <2>1
  <2>4. OwnWritten(w, list)
    BY <1>3, <2>1, <2>2, <2>3 DEF OwnWritten, d
  <2>5. QED BY <1>11, <2>4 DEF list
<1>12. QED BY <1>8, <1>9, <1>10, <1>11

-----------------------------------------------------------------------------
(* The number of jobs.                                                     *)

\* A place in a row of a table of n rows of m.
LEMMA Places ==
    ASSUME NEW n \in Nat, NEW m \in Nat
    PROVE  /\ \A a \in 1 .. n, b \in 1 .. m : (a - 1) * m + b \in 1 .. n * m
           /\ \A a, c \in 1 .. n, b, e \in 1 .. m :
                (a - 1) * m + b = (c - 1) * m + e => a = c /\ b = e
<1>1. \A x, y \in Nat : x <= y => x * m <= y * m
  OBVIOUS
<1>2. ASSUME NEW a \in 1 .. n
      PROVE  (a - 1) * m \in Nat /\ a * m = (a - 1) * m + m /\ a * m <= n * m
  BY <1>1
<1>3. \A a \in 1 .. n, b \in 1 .. m : (a - 1) * m + b \in 1 .. n * m
  BY <1>2
<1>4. ASSUME NEW a \in 1 .. n, NEW c \in 1 .. n, a < c
      PROVE  a * m <= (c - 1) * m
  <2>1. a \in Nat /\ c - 1 \in Nat /\ a <= c - 1
    BY <1>4
  <2> DEFINE y == c - 1
  <2>2. y \in Nat /\ a <= y
    BY <2>1
  <2> HIDE DEF y
  <2>3. a * m <= y * m
    BY <1>1, <2>1, <2>2
  <2>4. QED BY <2>3 DEF y
<1>5. ASSUME NEW a \in 1 .. n, NEW c \in 1 .. n, NEW b \in 1 .. m, NEW e \in 1 .. m,
             a < c
      PROVE  (a - 1) * m + b < (c - 1) * m + e
  <2>1. (a - 1) * m + b <= a * m
    BY <1>2
  <2>2. a * m < (c - 1) * m + e
    BY <1>2, <1>4, <1>5
  <2>3. (a - 1) * m \in Nat /\ (c - 1) * m \in Nat
    BY <1>2
  <2>4. QED BY <2>1, <2>2, <2>3
<1>6. ASSUME NEW a \in 1 .. n, NEW c \in 1 .. n, NEW b \in 1 .. m, NEW e \in 1 .. m,
             (a - 1) * m + b = (c - 1) * m + e
      PROVE  a = c /\ b = e
  <2>1. ~(a < c) /\ ~(c < a)
    <3>1. (a - 1) * m + b \in Nat /\ (c - 1) * m + e \in Nat
      BY <1>2
    <3>2. QED BY <1>5, <1>6, <3>1
  <2>2. a = c
    BY <2>1
  <2>3. (a - 1) * m \in Nat
    BY <1>2
  <2>4. QED BY <1>6, <2>2, <2>3
<1>7. QED BY <1>3, <1>6

\* Pairs of a finite set and a finite set are as many as the product.
LEMMA Pairs ==
    ASSUME NEW S, NEW T, IsFiniteSet(S), IsFiniteSet(T)
    PROVE  /\ IsFiniteSet(S \X T)
           /\ Cardinality(S \X T) <= Cardinality(S) * Cardinality(T)
<1> DEFINE n == Cardinality(S)
           m == Cardinality(T)
<1>1. n \in Nat /\ m \in Nat
  BY FS_CardinalityType
<1>2. PICK p : p \in Bijection(1 .. n, S)
  BY FS_CardinalityType DEF ExistsBijection
<1>3. PICK q : q \in Bijection(1 .. m, T)
  BY FS_CardinalityType DEF ExistsBijection
<1> HIDE DEF n, m
<1> DEFINE a(s) == CHOOSE k \in 1 .. n : p[k] = s
           b(t) == CHOOSE k \in 1 .. m : q[k] = t
           f == [x \in S \X T |-> (a(x[1]) - 1) * m + b(x[2])]
<1>4. \A s \in S : a(s) \in 1 .. n /\ p[a(s)] = s
  BY <1>2 DEF Bijection, Surjection
<1>5. \A t \in T : b(t) \in 1 .. m /\ q[b(t)] = t
  BY <1>3 DEF Bijection, Surjection
<1> HIDE DEF a, b
<1>6. \A x \in S \X T : f[x] \in 1 .. n * m
  BY <1>1, <1>4, <1>5, Places
<1>7. ASSUME NEW x \in S \X T, NEW y \in S \X T, f[x] = f[y]
      PROVE  x = y
  <2>1. (a(x[1]) - 1) * m + b(x[2]) = (a(y[1]) - 1) * m + b(y[2])
    BY <1>7
  <2>2. /\ a(x[1]) \in 1 .. n /\ a(y[1]) \in 1 .. n
        /\ b(x[2]) \in 1 .. m /\ b(y[2]) \in 1 .. m
    BY <1>4, <1>5
  <2>3. a(x[1]) = a(y[1]) /\ b(x[2]) = b(y[2])
    BY <1>1, <2>1, <2>2, Places
  <2>4. x[1] = y[1] /\ x[2] = y[2]
    BY <1>4, <1>5, <2>3
  <2>5. QED BY <2>4
<1>8. n * m \in Nat
  BY <1>1
<1>9. IsFiniteSet(1 .. n * m) /\ Cardinality(1 .. n * m) = n * m
  BY <1>8, FS_Interval
<1> HIDE DEF f
<1>10. f \in Injection(S \X T, 1 .. n * m)
  BY <1>6, <1>7 DEF Injection, IsInjective, f
<1>11. QED BY <1>9, <1>10, FS_Injection DEF n, m

\* There are three stages at most.
LEMMA EnabledFinite == IsFiniteSet(Enabled)
<1>1. IsFiniteSet({"ingest"} \cup {DerivedTypes[i] : i \in 1 .. 3})
  <2>1. IsFiniteSet({"ingest", "embedding"})
    <3>1. {"ingest", "embedding"} = {"ingest"} \cup {"embedding"}
      OBVIOUS
    <3>2. IsFiniteSet({"ingest"})
      BY FS_Singleton
    <3>3. IsFiniteSet({"ingest"} \cup {"embedding"})
      BY <3>2, FS_AddElement
    <3>4. QED BY <3>1, <3>3
  <2>2. IsFiniteSet({"ingest", "embedding"} \cup {"hierarchy"})
    BY <2>1, FS_AddElement
  <2>3. IsFiniteSet(({"ingest", "embedding"} \cup {"hierarchy"}) \cup {"triplet"})
    BY <2>2, FS_AddElement
  <2>4. {"ingest"} \cup {DerivedTypes[i] : i \in 1 .. 3}
          = ({"ingest", "embedding"} \cup {"hierarchy"}) \cup {"triplet"}
    BY DEF DerivedTypes
  <2>5. QED BY <2>3, <2>4
<1>2. Enabled \in SUBSET ({"ingest"} \cup {DerivedTypes[i] : i \in 1 .. 3})
  BY EnabledAssumption DEF Types
<1>3. QED BY <1>1, <1>2, FS_Subset

\* As many jobs as there are names: an ingest and the enabled stages for each
\* document, and one for each request.
LEMMA Counted ==
    ASSUME NEW list \in Seq(Job), Named(list)
    PROVE  Len(list) <= JobCount
<1> DEFINE I == 1 .. Len(list)
           A == {i \in I : list[i].key \in Request}
           B == I \ A
           T == Enabled \cup {"ingest"}
           f == [i \in A |-> list[i].key]
           g == [i \in B |-> <<list[i].document, list[i].type>>]
<1>1. Len(list) \in Nat /\ \A i \in I : list[i] \in Job
  BY LenProperties, ElementOfSeq
<1>2. IsFiniteSet(I) /\ Cardinality(I) = Len(list)
  BY <1>1, FS_Interval
<1>3. IsFiniteSet(A) /\ IsFiniteSet(B)
  BY <1>2, FS_Subset
<1>4. \A i \in I : list[i].key \in Keys /\ list[i].document \in Document
  BY <1>1 DEF Job
<1>5. Cardinality(A) <= Cardinality(Request)
  <2>1. \A i \in A : list[i].type = "ingest"
    BY RequestsAssumption DEF Named
  <2>2. \A i, j \in A : list[i].key = list[j].key => i = j
    BY <2>1 DEF Named
  <2>3. f \in Injection(A, Request)
    BY <2>2 DEF Injection, IsInjective
  <2>4. QED BY <2>3, FS_Injection, RequestsAssumption
<1>6. Cardinality(B) <= Cardinality(Document \X T)
  <2>1. \A i \in B : list[i].key = IF list[i].type = "ingest" THEN "approval" ELSE "chain"
    BY <1>4 DEF Named, Keys
  <2>2. ASSUME NEW i \in B, NEW j \in B,
               list[i].document = list[j].document, list[i].type = list[j].type
        PROVE  i = j
    <3>1. list[i].key = list[j].key
      BY <2>1, <2>2
    <3>2. QED BY <2>2, <3>1 DEF Named
  <2>3. \A i \in B : list[i].type \in T /\ list[i].document \in Document
    BY <1>4 DEF Named
  <2>4. g \in [B -> Document \X T]
    BY <2>3
  <2>5. ASSUME NEW i \in B, NEW j \in B, g[i] = g[j]
        PROVE  i = j
    <3>1. <<list[i].document, list[i].type>> = <<list[j].document, list[j].type>>
      BY <2>5
    <3>2. QED BY <2>2, <3>1
  <2>6. g \in Injection(B, Document \X T)
    BY <2>4, <2>5 DEF Injection, IsInjective
  <2>7. IsFiniteSet(T)
    BY EnabledFinite, FS_AddElement
  <2>8. IsFiniteSet(Document \X T)
    BY <2>7, DocumentAssumption, Pairs
  <2>9. QED BY <2>6, <2>8, FS_Injection
<1>7. Cardinality(Document \X T) <= Cardinality(Document) * (1 + Cardinality(Enabled))
  <2>1. IsFiniteSet(T) /\ Cardinality(T) = Cardinality(Enabled) + 1
    BY EnabledFinite, EnabledAssumption, FS_AddElement
  <2>2. Cardinality(Enabled) \in Nat
    BY EnabledFinite, FS_CardinalityType
  <2>3. Cardinality(Document \X T) <= Cardinality(Document) * Cardinality(T)
    BY <2>1, DocumentAssumption, Pairs
  <2>4. Cardinality(T) = 1 + Cardinality(Enabled)
    BY <2>1, <2>2
  <2>5. QED BY <2>3, <2>4
<1>8. Cardinality(I) = Cardinality(A) + Cardinality(B)
  <2>1. A \cup B = I /\ A \cap B = {}
    OBVIOUS
  <2>2. Cardinality(A \cap B) = 0
    BY <2>1, FS_EmptySet
  <2>3. Cardinality(A) \in Nat /\ Cardinality(B) \in Nat
    BY <1>3, FS_CardinalityType
  <2>4. Cardinality(A \cup B) = Cardinality(A) + Cardinality(B) - Cardinality(A \cap B)
    BY <1>3, FS_Union
  <2> DEFINE na == Cardinality(A)
             nb == Cardinality(B)
             nu == Cardinality(A \cup B)
             ni == Cardinality(A \cap B)
  <2>5. na \in Nat /\ nb \in Nat /\ ni = 0 /\ nu = na + nb - ni
    BY <2>2, <2>3, <2>4
  <2> HIDE DEF na, nb, nu, ni
  <2>6. nu = na + nb
    BY <2>5
  <2>7. QED BY <2>1, <2>6 DEF nu, na, nb
<1> DEFINE na == Cardinality(A)
           nb == Cardinality(B)
           np == Cardinality(Document \X T)
           nr == Cardinality(Request)
           nd == Cardinality(Document) * (1 + Cardinality(Enabled))
<1>9. na \in Nat /\ nb \in Nat /\ nr \in Nat /\ np \in Nat /\ nd \in Nat
  <2>1. IsFiniteSet(Document \X T)
    BY EnabledFinite, FS_AddElement, DocumentAssumption, Pairs
  <2>2. Cardinality(Enabled) \in Nat /\ Cardinality(Document) \in Nat
    BY EnabledFinite, DocumentAssumption, FS_CardinalityType
  <2>3. nd \in Nat
    BY <2>2
  <2>4. QED BY <1>3, <2>1, <2>3, RequestsAssumption, FS_CardinalityType
<1>10. /\ Len(list) = na + nb
       /\ na <= nr
       /\ nb <= np
       /\ np <= nd
       /\ JobCount = nd + nr
  BY <1>2, <1>5, <1>6, <1>7, <1>8 DEF JobCount
<1> HIDE DEF na, nb, nr, np, nd
<1>11. QED BY <1>9, <1>10

-----------------------------------------------------------------------------
(* Four kinds of steps: a worker goes on with its job, a worker is done    *)
(* with it, a worker claims a job, and the steps of everybody else.        *)

\* Worker w goes on with its job.
GoesOn(w) ==
    /\ jobs' = jobs
    /\ worker' \in [Worker -> Doing]
    /\ worker'[w].job = worker[w].job
    /\ \A v \in Worker : v # w => worker'[v] = worker[v]

\* Worker w has done with its job.
Ends(w) ==
    /\ worker' = [worker EXCEPT ![w] = Resting]
    /\ OwnWritten(w, jobs')

\* Worker w takes a job that waits.
Takes(w) ==
    /\ jobs' \in Seq(Job)
    /\ Len(jobs') = Len(jobs)
    /\ Kept(jobs, jobs')
    /\ Named(jobs) => Named(jobs')
    /\ worker' \in [Worker -> Doing]
    /\ worker'[w].at = "claimed"
    /\ worker'[w].job \in 1 .. Len(jobs)
    /\ jobs[worker'[w].job].status \in Waiting
    /\ jobs'[worker'[w].job].status = "running"
    /\ \A j \in 1 .. Len(jobs) : j # worker'[w].job => jobs'[j] = jobs[j]
    /\ \A v \in Worker : v # w => worker'[v] = worker[v]

\* Nobody works, and jobs are cancelled or added.
Asked ==
    /\ worker' = worker
    /\ jobs' \in Seq(Job)
    /\ Kept(jobs, jobs')
    /\ \A j \in 1 .. Len(jobs) : jobs'[j].status \in {jobs[j].status, "cancelled"}

\* A list that is left alone.
LEMMA SameList ==
    ASSUME TypeOK
    PROVE  Kept(jobs, jobs) /\ \A w \in Worker : OwnWritten(w, jobs)
<1>1. jobs \in Seq(Job) /\ Len(jobs) \in Nat
  BY LenProperties DEF TypeOK
<1>2. Kept(jobs, jobs)
  BY <1>1 DEF Kept
<1>3. Len(jobs) + 1 .. Len(jobs) = {}
  BY <1>1
<1>4. QED BY <1>1, <1>2, <1>3 DEF OwnWritten

\* A worker that goes on.
LEMMA GoTypes ==
    ASSUME TypeOK, NEW w \in Worker, NEW at \in Steps, jobs' = jobs
    PROVE  /\ Go(w, at) => GoesOn(w) /\ worker'[w].at = at
           /\ ReturnDropped(w) => GoesOn(w) /\ worker'[w].at = "done"
<1>1. worker \in [Worker -> Doing]
  BY DEF TypeOK
<1>2. Nothing \in Knowledge
  BY DEF Nothing, Knowledge
<1>3. "done" \in Steps
  BY DEF Steps
<1>4. ASSUME Go(w, at)
      PROVE  GoesOn(w) /\ worker'[w].at = at
  <2> DEFINE row == [worker[w] EXCEPT !.at = at, !.saw = Nothing]
  <2>1. row \in Doing /\ row.job = worker[w].job /\ row.at = at
    BY <1>1, <1>2 DEF Doing
  <2>2. worker' = [worker EXCEPT ![w] = row]
    BY <1>1, <1>4 DEF Go
  <2> HIDE DEF row
  <2>3. QED BY <1>1, <2>1, <2>2 DEF GoesOn
<1>5. ASSUME ReturnDropped(w)
      PROVE  GoesOn(w) /\ worker'[w].at = "done"
  <2> DEFINE row == [worker[w] EXCEPT !.at = "done", !.saw = Nothing, !.dropped = TRUE]
  <2>1. row \in Doing /\ row.job = worker[w].job /\ row.at = "done"
    BY <1>1, <1>2, <1>3 DEF Doing
  <2>2. worker' = [worker EXCEPT ![w] = row]
    BY <1>1, <1>5 DEF ReturnDropped
  <2> HIDE DEF row
  <2>3. QED BY <1>1, <2>1, <2>2 DEF GoesOn
<1>6. QED BY <1>4, <1>5

\* A worker that fails.
LEMMA FailEnds ==
    ASSUME TypeOK, NEW w \in Worker, worker[w].job \in 1 .. Len(jobs), Fail(w)
    PROVE  Ends(w)
BY FailedList DEF Ends, Fail

\* What a worker other than a claiming one does.
LEMMA WorkerMoves ==
    ASSUME TypeOK, HoldersKnow, NEW w \in Worker,
           Handle(w) \/ Break(w) \/ Crash(w)
    PROVE  /\ worker[w].at # "idle"
           /\ (GoesOn(w) /\ worker'[w].at # "idle") \/ Ends(w)
           /\ UNCHANGED <<request, made, history>>
<1> USE DEF Return
<1>1. worker \in [Worker -> Doing] /\ \A d \in Document : doc[d] \in Knowledge
  BY DEF TypeOK
<1>2. worker[w].at # "idle" => worker[w].job \in 1 .. Len(jobs)
  BY DEF HoldersKnow
<1>2a. worker[w].at # "idle" => Mine(w) \in Job
  <2>1. jobs \in Seq(Job)
    BY DEF TypeOK
  <2>2. QED BY <1>2, <2>1, ElementOfSeq DEF Mine
<1>3. \A at \in Steps : /\ Go(w, at) /\ jobs' = jobs => GoesOn(w) /\ worker'[w].at = at
                        /\ ReturnDropped(w) /\ jobs' = jobs
                             => GoesOn(w) /\ worker'[w].at = "done"
  BY GoTypes
<1>4. Fail(w) /\ worker[w].at # "idle" => Ends(w)
  BY <1>2, FailEnds
<1>5. CASE Read(w)
  <2>1. worker[w].at = "claimed" /\ UNCHANGED <<request, made, history>>
    BY <1>5 DEF Read, bounds
  <2>2. CASE Cancelled(w) /\ ReturnDropped(w) /\ UNCHANGED jobs
    BY <1>3, <2>1, <2>2 DEF Steps
  <2>3. CASE ~Cancelled(w) /\ ~MayRead(w) /\ Fail(w)
    BY <1>4, <2>1, <2>3
  <2>4. CASE /\ worker' = [worker EXCEPT ![w].at = "read", ![w].saw = doc[About(w)]]
             /\ UNCHANGED jobs
    <3> DEFINE k == doc[About(w)]
               row == [worker[w] EXCEPT !.at = "read", !.saw = k]
    <3>1. About(w) \in Document
      BY <1>2a, <2>1 DEF About, Job
    <3>2. k \in Knowledge /\ "read" \in Steps
      BY <1>1, <3>1 DEF Steps
    <3> HIDE DEF k
    <3>3. row \in Doing /\ row.job = worker[w].job /\ row.at = "read"
      BY <1>1, <3>2 DEF Doing
    <3>4. worker' = [worker EXCEPT ![w] = row]
      BY <1>1, <2>4 DEF k
    <3> HIDE DEF row
    <3>5. QED BY <1>1, <2>1, <2>4, <3>3, <3>4 DEF GoesOn
  <2>5. QED BY <1>5, <2>2, <2>3, <2>4 DEF Read
<1>6. CASE Ingest(w)
  <2>1. worker[w].at = "read" /\ UNCHANGED <<request, made, history>>
    BY <1>6 DEF Ingest, bounds
  <2>2. CASE Fail(w)
    BY <1>4, <2>1, <2>2
  <2>3. CASE ~Fail(w)
    <3>1. PICK seen, status : jobs' = Completed(w, seen, status)
      BY <1>6, <2>3 DEF Ingest
    <3>2. worker' = [worker EXCEPT ![w] = Resting]
      BY <1>6, <2>3 DEF Ingest
    <3>3. OwnWritten(w, jobs')
      BY <1>2, <2>1, <3>1, CompletedList
    <3>4. QED BY <2>1, <3>2, <3>3 DEF Ends
  <2>4. QED BY <2>2, <2>3
<1>7. CASE Build(w)
  <2>1. worker[w].at = "read" /\ UNCHANGED <<request, made, history>>
    BY <1>7 DEF Build, bounds
  <2>2. \/ Fail(w)
        \/ jobs' = jobs /\ Go(w, "done")
        \/ jobs' = jobs /\ ReturnDropped(w)
    BY <1>7 DEF Build
  <2>3. QED BY <1>3, <1>4, <2>1, <2>2 DEF Steps
<1>8. CASE Reserve(w)
  <2>1. worker[w].at = "claimed" /\ UNCHANGED <<request, made, history>>
    BY <1>8 DEF Reserve, bounds
  <2>2. \/ Fail(w)
        \/ jobs' = jobs /\ (Go(w, "done") \/ Go(w, "reserved") \/ ReturnDropped(w))
    BY <1>8 DEF Reserve
  <2>3. QED BY <1>3, <1>4, <2>1, <2>2 DEF Steps
<1>9. CASE Start(w) \/ Call(w) \/ Answer(w)
  <2>1. worker[w].at # "idle" /\ UNCHANGED <<request, made, history>>
    BY <1>9 DEF Start, Call, Answer, bounds
  <2>2. jobs' = jobs /\ (\/ Go(w, "running") \/ Go(w, "done") \/ Go(w, "calling")
                        \/ Go(w, "answered") \/ ReturnDropped(w))
    BY <1>9 DEF Start, Call, Answer
  <2>3. QED BY <1>3, <2>1, <2>2 DEF Steps
<1>10. CASE Judge(w) \/ Store(w)
  <2>1. worker[w].at # "idle" /\ UNCHANGED <<request, made, history>>
    BY <1>10 DEF Judge, Store, bounds
  <2>2. \/ Fail(w)
        \/ jobs' = jobs /\ (Go(w, "done") \/ Go(w, "storing") \/ ReturnDropped(w))
    BY <1>10 DEF Judge, Store, Unsettled
  <2>3. QED BY <1>3, <1>4, <2>1, <2>2 DEF Steps
<1>11. CASE See(w)
  <2>1. worker[w].at = "done" /\ UNCHANGED <<jobs, request, made, history>>
    BY <1>11 DEF See, bounds
  <2> DEFINE s == Mine(w).status
             row == [worker[w] EXCEPT !.at = "seen", !.status = s]
  <2>2. s \in Active \cup Over /\ "seen" \in Steps
    BY <1>2a, <2>1 DEF Job, Steps
  <2>3. worker' = [worker EXCEPT ![w] = row]
    BY <1>1, <1>11 DEF See
  <2> HIDE DEF s
  <2>4. row \in Doing /\ row.job = worker[w].job /\ row.at = "seen"
    BY <1>1, <2>2 DEF Doing
  <2> HIDE DEF row
  <2>5. QED BY <1>1, <2>1, <2>3, <2>4 DEF GoesOn
<1>12. CASE Complete(w)
  <2>1. worker[w].at = "seen" /\ UNCHANGED <<request, made, history>>
    BY <1>12 DEF Complete, bounds
  <2>2. OwnWritten(w, jobs')
    BY <1>2, <1>12, <2>1, CompletedList DEF Complete
  <2>3. QED BY <1>12, <2>1, <2>2 DEF Complete, Ends
<1>13. CASE Break(w)
  BY <1>4, <1>13 DEF Break
<1>14. CASE Crash(w)
  BY <1>14, SameList DEF Crash, Ends
<1>15. QED
  BY <1>5, <1>6, <1>7, <1>8, <1>9, <1>10, <1>11, <1>12, <1>13, <1>14 DEF Handle

\* The steps of the owner and of the recovery.
LEMMA OwnerMoves ==
    ASSUME TypeOK, RequestsKnow, Owner \/ \E d \in Document : RecoverStale(d)
    PROVE  Asked
<1>1. jobs \in Seq(Job) /\ Len(jobs) \in Nat
  BY LenProperties DEF TypeOK
<1>2. UNCHANGED <<jobs, worker>> => Asked
  BY <1>1, SameList DEF Asked
<1>3. ASSUME NEW d \in Document, Approve(d)
      PROVE  Asked
  <2> DEFINE row == NewJob(d, "ingest", "approval")
  <2>1. row \in Job
    BY NewJobTypes DEF Types, Keys
  <2>2. jobs' = Append(jobs, row) /\ worker' = worker
    BY <1>3 DEF Approve
  <2> HIDE DEF row
  <2>3. QED BY <1>1, <2>1, <2>2, OneAdded DEF Asked
<1>4. ASSUME NEW q \in Request, Cancel(q) \/ Delete(q)
      PROVE  Asked
  <2>1. jobs' = JobsCancelled(q) /\ worker' = worker /\ request[q] # None
    BY <1>4 DEF Cancel, Delete, Asks, Write
  <2>2. QED BY <1>1, <2>1, CancelledList DEF Asked
<1>5. ASSUME NEW q \in Request, Reindex(q)
      PROVE  Asked
  <2> DEFINE d == request[q].document
             row == NewJob(d, "ingest", q)
             list == JobsCancelled(q)
  <2>1. jobs' = Append(list, row) /\ worker' = worker /\ request[q] # None
    BY <1>5 DEF Reindex, Asks, Write
  <2>2. d \in Document
    BY <2>1 DEF RequestsKnow
  <2>3. row \in Job
    BY <2>2, NewJobTypes DEF Types, Keys
  <2>4. /\ list \in Seq(Job)
        /\ Len(list) = Len(jobs)
        /\ Kept(jobs, list)
        /\ \A i \in 1 .. Len(jobs) : list[i].status \in {jobs[i].status, "cancelled"}
    BY <2>1, CancelledList
  <2> HIDE DEF row, list
  <2>5. /\ Append(list, row) \in Seq(Job)
        /\ Len(Append(list, row)) = Len(list) + 1
        /\ Kept(list, Append(list, row))
        /\ \A j \in 1 .. Len(list) : Append(list, row)[j] = list[j]
    BY <2>3, <2>4, OneAdded
  <2>6. Kept(jobs, Append(list, row))
    BY <1>1, <2>4, <2>5 DEF Kept
  <2>7. QED BY <2>1, <2>4, <2>5, <2>6 DEF Asked
<1>6. QED
  BY <1>2, <1>3, <1>4, <1>5 DEF Owner, Ask, AskInVain, RecoverStale

\* A claim takes a job that waits.
LEMMA ClaimTakes ==
    ASSUME TypeOK, NEW w \in Worker, Claim(w)
    PROVE  Takes(w) /\ UNCHANGED <<doc, billing, request, bounds, history>>
<1>1. PICK i \in 1 .. Len(jobs) :
        /\ jobs[i].status \in Waiting
        /\ jobs' = [jobs EXCEPT ![i].status = "running"]
        /\ worker' = [worker EXCEPT ![w] = [Resting EXCEPT !.at = "claimed", !.job = i]]
  BY DEF Claim, Oldest
<1> DEFINE row == [Resting EXCEPT !.at = "claimed", !.job = i]
           list == [jobs EXCEPT ![i].status = "running"]
<1>2. Len(jobs) \in Nat /\ worker \in [Worker -> Doing]
  BY LenProperties DEF TypeOK
<1>3. row \in Doing /\ row.at = "claimed" /\ row.job = i
  <2>1. i \in Nat /\ "claimed" \in Steps
    BY <1>2 DEF Steps
  <2>2. Resting \in Doing
    <3>1. Nothing \in Knowledge
      BY DEF Nothing, Knowledge
    <3>2. QED BY <3>1 DEF Resting, Doing, Steps, Active, Waiting
  <2>3. QED BY <2>1, <2>2 DEF Doing
<1> HIDE DEF row
<1>4. "running" \in Active \cup Over
  BY DEF Active
<1>5. /\ list \in Seq(Job)
      /\ Len(list) = Len(jobs)
      /\ Kept(jobs, list)
      /\ Named(jobs) => Named(list)
      /\ list[i].status = "running"
      /\ \A j \in 1 .. Len(jobs) : j # i => list[j] = jobs[j]
  BY <1>4, StatusList
<1>6. jobs' = list
  BY <1>1
<1> HIDE DEF list
<1>7. worker'[w] = row /\ \A v \in Worker : v # w => worker'[v] = worker[v]
  BY <1>1, <1>2 DEF row
<1>8. worker' \in [Worker -> Doing]
  BY <1>1, <1>2, <1>3 DEF row
<1>9. QED BY <1>1, <1>3, <1>5, <1>6, <1>7, <1>8 DEF Takes, Claim

\* Every step is of one of the four kinds.
LEMMA Kinds ==
    ASSUME TypeOK, RequestsKnow, HoldersKnow, [Next]_vars
    PROVE  \/ Asked
           \/ \E w \in Worker : /\ Takes(w)
                                /\ worker[w].at = "idle"
                                /\ UNCHANGED <<doc, billing, request, bounds, history>>
           \/ \E w \in Worker : /\ Handle(w) \/ Break(w) \/ Crash(w)
                                /\ worker[w].at # "idle"
                                /\ (GoesOn(w) /\ worker'[w].at # "idle") \/ Ends(w)
                                /\ UNCHANGED <<request, made, history>>
<1>1. CASE UNCHANGED vars
  BY <1>1, SameList DEF vars, Asked, TypeOK
<1>2. CASE Owner \/ \E d \in Document : RecoverStale(d)
  BY <1>2, OwnerMoves
<1>3. ASSUME NEW w \in Worker, Claim(w)
      PROVE  Takes(w) /\ worker[w].at = "idle"
               /\ UNCHANGED <<doc, billing, request, bounds, history>>
  BY <1>3, ClaimTakes DEF Claim
<1>4. ASSUME NEW w \in Worker, Handle(w) \/ Break(w) \/ Crash(w)
      PROVE  /\ worker[w].at # "idle"
             /\ (GoesOn(w) /\ worker'[w].at # "idle") \/ Ends(w)
             /\ UNCHANGED <<request, made, history>>
  BY <1>4, WorkerMoves
<1>5. QED BY <1>1, <1>2, <1>3, <1>4 DEF Next

\* Every step keeps the jobs under their names.
LEMMA JobsStay ==
    ASSUME TypeOK, RequestsKnow, HoldersKnow, [Next]_vars
    PROVE  jobs' \in Seq(Job) /\ Kept(jobs, jobs')
BY Kinds, SameList DEF Asked, Takes, GoesOn, Ends, OwnWritten, TypeOK

\* A job stays with one worker, and does not wait while one has it.
LEMMA HoldersStay ==
    ASSUME TypeOK, RequestsKnow, HoldersKnow, HeldOnce, [Next]_vars
    PROVE  HoldersKnow' /\ HeldOnce'
<1>1. Len(jobs) \in Nat /\ Len(jobs') \in Nat /\ Len(jobs) <= Len(jobs')
  BY JobsStay, LenProperties DEF TypeOK, Kept
<1>2. CASE Asked
  BY <1>1, <1>2 DEF Asked, HoldersKnow, HeldOnce, Mine
<1>3. ASSUME NEW w \in Worker, Takes(w), worker[w].at = "idle"
      PROVE  HoldersKnow' /\ HeldOnce'
  <2>1. \A v \in Worker : v # w /\ worker'[v].at # "idle" =>
          /\ worker[v].at # "idle" /\ worker'[v].job = worker[v].job
          /\ worker[v].job \in 1 .. Len(jobs)
          /\ worker[v].job # worker'[w].job
    BY <1>3 DEF Takes, HoldersKnow, Mine, Waiting
  <2>2. HoldersKnow'
    BY <1>3, <2>1 DEF Takes, HoldersKnow, Mine
  <2>3. HeldOnce'
    BY <1>3, <2>1 DEF Takes, HeldOnce
  <2>4. QED BY <2>2, <2>3
<1>4. ASSUME NEW w \in Worker, worker[w].at # "idle", GoesOn(w)
      PROVE  HoldersKnow' /\ HeldOnce'
  BY <1>4 DEF GoesOn, HoldersKnow, HeldOnce, Mine
<1>5. ASSUME NEW w \in Worker, worker[w].at # "idle", Ends(w)
      PROVE  HoldersKnow' /\ HeldOnce'
  <2>1. worker \in [Worker -> Doing]
    BY DEF TypeOK
  <2>2. \A v \in Worker : worker'[v].at # "idle" => v # w /\ worker'[v] = worker[v]
    BY <1>5, <2>1 DEF Ends, Resting
  <2>3. \A v \in Worker : v # w /\ worker[v].at # "idle" =>
          /\ worker[v].job \in 1 .. Len(jobs)
          /\ jobs'[worker[v].job] = jobs[worker[v].job]
    BY <1>5 DEF Ends, OwnWritten, HoldersKnow, HeldOnce
  <2>4. HoldersKnow'
    BY <1>1, <2>2, <2>3 DEF HoldersKnow, Mine
  <2>5. HeldOnce'
    BY <2>2 DEF HeldOnce
  <2>6. QED BY <2>4, <2>5
<1>6. QED BY <1>2, <1>3, <1>4, <1>5, Kinds

-----------------------------------------------------------------------------
(* The requests, the documents and the names.                              *)

\* What a request has read stays readable, and a request is made once.
LEMMA RequestsStay ==
    ASSUME TypeOK, RequestsKnow, HoldersKnow, [Next]_vars
    PROVE  /\ RequestsKnow'
           /\ made \subseteq made' /\ made' \subseteq Request
           /\ \A q \in made : request'[q] \in {request[q], None}
<1>1. Len(jobs) \in Nat /\ Len(jobs') \in Nat /\ Len(jobs) <= Len(jobs')
  BY JobsStay, LenProperties DEF TypeOK, Kept
<1>2. ASSUME UNCHANGED <<request, made>>
      PROVE  /\ RequestsKnow'
             /\ made \subseteq made' /\ made' \subseteq Request
             /\ \A q \in made : request'[q] \in {request[q], None}
  BY <1>1, <1>2 DEF RequestsKnow, TypeOK
<1>3. ASSUME NEW q \in Request, request' = [request EXCEPT ![q] = None], made' = made
      PROVE  /\ RequestsKnow'
             /\ made \subseteq made' /\ made' \subseteq Request
             /\ \A p \in made : request'[p] \in {request[p], None}
  <2>1. request = [p \in Request |-> request[p]]
    BY DEF RequestsKnow
  <2>2. request'[q] = None /\ (\A p \in Request \ {q} : request'[p] = request[p])
          /\ request' = [p \in Request |-> request'[p]]
    BY <1>3, <2>1
  <2>3. RequestsKnow'
    BY <1>1, <1>3, <2>2 DEF RequestsKnow
  <2>4. QED BY <1>3, <2>2, <2>3 DEF TypeOK
<1>4. ASSUME NEW q \in Request, NEW d \in Document, NEW op, Ask(q, d, op)
      PROVE  /\ RequestsKnow'
             /\ made \subseteq made' /\ made' \subseteq Request
             /\ \A p \in made : request'[p] \in {request[p], None}
  <2> DEFINE row == [op |-> op, document |-> d, saw |-> doc[d],
                     jobs |-> IF op = "cancel" THEN LatestActive(d) ELSE ActiveJobs(d)]
  <2>1. row.document = d /\ row.saw \in Knowledge /\ row.jobs \subseteq 1 .. Len(jobs)
    BY DEF LatestActive, ActiveJobs, TypeOK
  <2>2. request' = [request EXCEPT ![q] = row] /\ made' = made \cup {q} /\ q \notin made
          /\ jobs' = jobs
    BY <1>4 DEF Ask
  <2> HIDE DEF row
  <2>3. request = [p \in Request |-> request[p]]
    BY DEF RequestsKnow
  <2>4. request'[q] = row /\ (\A p \in Request \ {q} : request'[p] = request[p])
          /\ request' = [p \in Request |-> request'[p]]
    BY <2>2, <2>3
  <2>5. RequestsKnow'
    BY <2>1, <2>2, <2>4 DEF RequestsKnow
  <2>6. QED BY <2>2, <2>4, <2>5 DEF TypeOK
<1>5. ASSUME NEW d \in Document, Approve(d)
      PROVE  UNCHANGED <<request, made>>
  BY <1>5 DEF Approve, bounds
<1>6. ASSUME NEW q \in Request, Cancel(q) \/ Delete(q) \/ Reindex(q) \/ AskInVain(q)
      PROVE  request' = [request EXCEPT ![q] = None] /\ made' = made
  BY <1>6 DEF Cancel, Delete, Reindex, AskInVain, Write, bounds
<1>7. ASSUME NEW w \in Worker, Claim(w)
      PROVE  UNCHANGED <<request, made>>
  BY <1>7 DEF Claim, bounds
<1>8. ASSUME NEW w \in Worker, Handle(w) \/ Break(w) \/ Crash(w)
      PROVE  UNCHANGED <<request, made>>
  BY <1>8, WorkerMoves
<1>9. ASSUME NEW d \in Document, RecoverStale(d)
      PROVE  UNCHANGED <<request, made>>
  BY <1>9 DEF RecoverStale, bounds
<1>10. UNCHANGED vars => UNCHANGED <<request, made>>
  BY DEF vars
<1>11. QED
  BY <1>2, <1>3, <1>4, <1>5, <1>6, <1>7, <1>8, <1>9, <1>10 DEF Next, Owner

\* A worker that is not idle has a job that is about a document.
LEMMA HasJob ==
    ASSUME TypeOK, HoldersKnow, NEW w \in Worker, worker[w].at # "idle"
    PROVE  /\ Mine(w) \in Job
           /\ About(w) \in Document
           /\ worker[w].saw \in Knowledge
<1>1. jobs \in Seq(Job) /\ worker[w] \in Doing
  BY DEF TypeOK
<1>2. Mine(w) \in Job
  BY <1>1, ElementOfSeq DEF HoldersKnow, Mine
<1>3. QED BY <1>1, <1>2 DEF About, Job, Doing

\* What is written is what was or what is to be.
LEMMA UpdatedTypes ==
    ASSUME NEW S, NEW now \in S, NEW saw \in S, NEW value \in S
    PROVE  /\ Updated(now, saw, value) \in S
           /\ Updated(now, saw, value) \in {now, value}
BY DEF Updated

\* Documents are what they should be, and none is unmade.
LEMMA DocumentsStay ==
    ASSUME TypeOK, RequestsKnow, HoldersKnow, [Next]_vars
    PROVE  /\ doc' \in [Document -> Knowledge]
           /\ \A d \in Document : doc[d].status # "none" => doc'[d].status # "none"
<1>1. doc \in [Document -> Knowledge]
  BY DEF TypeOK
<1>2. ASSUME NEW d \in Document, NEW k \in Knowledge, doc' = [doc EXCEPT ![d] = k],
             k.status # "none"
      PROVE  /\ doc' \in [Document -> Knowledge]
             /\ \A e \in Document : doc[e].status # "none" => doc'[e].status # "none"
  BY <1>1, <1>2
<1>3. CASE UNCHANGED doc
  BY <1>1, <1>3
<1>4. ASSUME NEW d \in Document, Approve(d)
      PROVE  /\ doc' \in [Document -> Knowledge]
             /\ \A e \in Document : doc[e].status # "none" => doc'[e].status # "none"
  <2>1. [Nothing EXCEPT !.status = "indexing"] \in Knowledge
          /\ [Nothing EXCEPT !.status = "indexing"].status # "none"
    BY DEF Nothing, Knowledge
  <2>2. \A k \in Knowledge : Invalidated(k) \in Knowledge /\ Invalidated(k).status # "none"
    BY DEF Invalidated, Knowledge
  <2>3. QED BY <1>1, <1>4, <2>1, <2>2 DEF Approve
<1>5. ASSUME NEW q \in Request, Cancel(q) \/ Delete(q) \/ Reindex(q)
      PROVE  /\ doc' \in [Document -> Knowledge]
             /\ \A e \in Document : doc[e].status # "none" => doc'[e].status # "none"
  <2> DEFINE d == request[q].document
             now == doc[d]
             saw == request[q].saw
  <2>1. request[q] # None /\ Exists(d)
    BY <1>5 DEF Cancel, Delete, Reindex, Asks, Write
  <2>2. d \in Document /\ saw \in Knowledge /\ now \in Knowledge /\ now.status # "none"
    BY <1>1, <2>1 DEF RequestsKnow, Exists
  <2>3. CASE Cancel(q)
    <3> DEFINE s == Updated(now.status, saw.status, "failed")
    <3>1. doc' = [doc EXCEPT ![d] = [now EXCEPT !.status = s]]
      BY <2>3 DEF Cancel, Write
    <3>2. s \in {now.status, "failed"}
      BY DEF Updated
    <3> HIDE DEF s
    <3>3. [now EXCEPT !.status = s] \in Knowledge /\ [now EXCEPT !.status = s].status # "none"
      BY <2>2, <3>2 DEF Knowledge
    <3>4. QED BY <1>2, <2>2, <3>1, <3>3
  <2>4. CASE Delete(q)
    <3>1. doc' = [doc EXCEPT ![d] = [Nothing EXCEPT !.status = "deleted"]]
      BY <2>4 DEF Delete, Write
    <3>2. [Nothing EXCEPT !.status = "deleted"] \in Knowledge
            /\ [Nothing EXCEPT !.status = "deleted"].status # "none"
      BY DEF Nothing, Knowledge
    <3>3. QED BY <1>2, <2>2, <3>1, <3>2
  <2>5. CASE Reindex(q)
    <3>1. doc' = [doc EXCEPT ![d] = Reset(now, saw)]
      BY <2>5 DEF Reindex, Write
    <3>2. Reset(now, saw) \in Knowledge /\ Reset(now, saw).status # "none"
      BY <2>2 DEF Reset, Knowledge, Updated
    <3>3. QED BY <1>2, <2>2, <3>1, <3>2
  <2>6. QED BY <1>5, <2>3, <2>4, <2>5
<1>6. ASSUME NEW w \in Worker, Ingest(w)
      PROVE  /\ doc' \in [Document -> Knowledge]
             /\ \A e \in Document : doc[e].status # "none" => doc'[e].status # "none"
  <2> DEFINE d == About(w)
             saw == worker[w].saw
             now == doc[d]
             s == Updated(now.status, saw.status, "ready")
             c == Updated(now.chunks, saw.chunks, "ready")
             k == [now EXCEPT !.status = s, !.chunks = c]
  <2>1. d \in Document
    BY <1>6, HasJob DEF Ingest
  <2>2. CASE Exists(d)
    <3>1. doc' = [doc EXCEPT ![d] = k]
      BY <1>1, <1>6, <2>1, <2>2 DEF Ingest
    <3>2. s \in {now.status, "ready"} /\ c \in {now.chunks, "ready"}
      BY DEF Updated
    <3>3. now \in Knowledge /\ now.status # "none"
      BY <1>1, <2>1, <2>2 DEF Exists
    <3> HIDE DEF s, c, now
    <3>4. k \in Knowledge /\ k.status # "none"
      BY <3>2, <3>3 DEF Knowledge
    <3>5. QED BY <1>2, <2>1, <3>1, <3>4
  <2>3. CASE ~Exists(d)
    BY <1>1, <1>6, <2>3 DEF Ingest
  <2>4. QED BY <2>2, <2>3
<1>7. ASSUME NEW w \in Worker, Build(w)
      PROVE  /\ doc' \in [Document -> Knowledge]
             /\ \A e \in Document : doc[e].status # "none" => doc'[e].status # "none"
  <2> DEFINE d == About(w)
             now == doc[d]
             t == Mine(w).type
             k == [now EXCEPT !.built = @ \cup {t}]
  <2>1. d \in Document /\ t \in Types
    BY <1>7, HasJob DEF Build, Job
  <2>2. CASE doc' = [doc EXCEPT ![d].built = @ \cup {t}] /\ Exists(d)
    <3>1. now \in Knowledge /\ now.status # "none"
      BY <1>1, <2>1, <2>2 DEF Exists
    <3>2. doc' = [doc EXCEPT ![d] = k]
      BY <1>1, <2>1, <2>2
    <3> HIDE DEF now, t
    <3>3. k \in Knowledge /\ k.status # "none"
      BY <2>1, <3>1 DEF Knowledge
    <3>4. QED BY <1>2, <2>1, <3>2, <3>3
  <2>3. CASE UNCHANGED doc
    BY <1>1, <2>3
  <2>4. QED BY <1>7, <2>2, <2>3 DEF Build
<1>8. ASSUME NEW w \in Worker, Store(w)
      PROVE  /\ doc' \in [Document -> Knowledge]
             /\ \A e \in Document : doc[e].status # "none" => doc'[e].status # "none"
  <2> DEFINE d == About(w)
             now == doc[d]
             k == [now EXCEPT !.vectors = TRUE]
  <2>1. d \in Document
    BY <1>8, HasJob DEF Store
  <2>2. CASE doc' = [doc EXCEPT ![d].vectors = TRUE] /\ Exists(d)
    <3>1. now \in Knowledge /\ now.status # "none"
      BY <1>1, <2>1, <2>2 DEF Exists
    <3>2. doc' = [doc EXCEPT ![d] = k]
      BY <1>1, <2>1, <2>2
    <3> HIDE DEF now
    <3>3. k \in Knowledge /\ k.status # "none"
      BY <3>1 DEF Knowledge
    <3>4. QED BY <1>2, <2>1, <3>2, <3>3
  <2>3. CASE UNCHANGED doc
    BY <1>1, <2>3
  <2>4. QED BY <1>8, <2>2, <2>3 DEF Store
<1>9. \/ UNCHANGED doc
      \/ \E d \in Document : Approve(d)
      \/ \E q \in Request : Cancel(q) \/ Delete(q) \/ Reindex(q)
      \/ \E w \in Worker : Ingest(w) \/ Build(w) \/ Store(w)
  BY DEF Next, Owner, Handle, Ask, AskInVain, Claim, Break, Crash, RecoverStale,
         Read, Reserve, Start, Call, Answer, Judge, See, Complete, vars
<1>10. QED BY <1>3, <1>4, <1>5, <1>6, <1>7, <1>8, <1>9

\* Every step gives new jobs names of their own.
LEMMA NamesKept ==
    ASSUME TypeOK, RequestsKnow, HoldersKnow, Named(jobs), NamesKnow, [Next]_vars
    PROVE  Named(jobs') /\ NamesKnow'
<1>1. /\ jobs \in Seq(Job) /\ Len(jobs) \in Nat
      /\ jobs' \in Seq(Job) /\ Len(jobs') \in Nat
      /\ Kept(jobs, jobs')
  BY JobsStay, LenProperties DEF TypeOK
<1>2. \A i \in 1 .. Len(jobs) : jobs[i] \in Job
  BY <1>1, ElementOfSeq
<1>3. \A d \in Document : doc[d].status # "none" => doc'[d].status # "none"
  BY DocumentsStay
<1>4. made \subseteq made' /\ \A q \in made : request'[q] \in {request[q], None}
  BY RequestsStay
<1> DEFINE NewKnown == \A j \in Len(jobs) + 1 .. Len(jobs') :
                         /\ doc'[jobs'[j].document].status # "none"
                         /\ jobs'[j].key \in Request => /\ jobs'[j].key \in made'
                                                        /\ request'[jobs'[j].key] = None
<1>5. ASSUME NewKnown
      PROVE  NamesKnow'
  <2>1. ASSUME NEW j \in 1 .. Len(jobs)
        PROVE  /\ doc'[jobs'[j].document].status # "none"
               /\ jobs'[j].key \in Request => /\ jobs'[j].key \in made'
                                              /\ request'[jobs'[j].key] = None
    <3>1. jobs'[j].document = jobs[j].document /\ jobs'[j].key = jobs[j].key
      BY <1>1 DEF Kept
    <3>2. jobs[j].document \in Document
      BY <1>2 DEF Job
    <3>3. QED BY <1>3, <1>4, <3>1, <3>2 DEF NamesKnow
  <2>2. \A j \in 1 .. Len(jobs') : j \in 1 .. Len(jobs) \/ j \in Len(jobs) + 1 .. Len(jobs')
    BY <1>1
  <2>3. QED BY <1>5, <2>1, <2>2 DEF NamesKnow
<1>6. Len(jobs') = Len(jobs) => NewKnown
  BY <1>1
<1>7. ASSUME NEW w \in Worker, Takes(w)
      PROVE  Named(jobs') /\ NewKnown
  BY <1>6, <1>7 DEF Takes
<1>8. ASSUME NEW w \in Worker, worker[w].at # "idle", GoesOn(w)
      PROVE  Named(jobs') /\ NewKnown
  BY <1>6, <1>8 DEF GoesOn
<1>9. ASSUME NEW w \in Worker, worker[w].at # "idle", Ends(w)
      PROVE  Named(jobs') /\ NewKnown
  <2>1. doc'[About(w)].status # "none"
    <3>1. About(w) \in Document /\ doc[About(w)].status # "none"
      BY <1>9, HasJob DEF HoldersKnow, NamesKnow, About, Mine
    <3>2. QED BY <1>3, <3>1
  <2>2. \A j \in Len(jobs) + 1 .. Len(jobs') : jobs'[j].key = "chain"
                                               /\ jobs'[j].document = About(w)
    BY <1>9 DEF Ends, OwnWritten
  <2>3. "chain" \notin Request
    BY RequestsAssumption
  <2>4. Named(jobs')
    BY <1>9 DEF Ends, OwnWritten
  <2>5. QED BY <2>1, <2>2, <2>3, <2>4
<1>10. ASSUME NEW d \in Document, Approve(d)
       PROVE  Named(jobs') /\ NewKnown
  <2> DEFINE row == NewJob(d, "ingest", "approval")
  <2>1. row \in Job /\ row.document = d /\ row.type = "ingest" /\ row.key = "approval"
    BY NewJobTypes DEF Types, Keys, NewJob
  <2>2. jobs' = Append(jobs, row) /\ doc[d].status = "none"
    BY <1>10 DEF Approve
  <2>3. doc'[d].status # "none"
    BY <1>10 DEF Approve, Nothing
  <2>4. \A j \in 1 .. Len(jobs) : jobs[j].document # d
    BY <2>2 DEF NamesKnow
  <2>5. "approval" \notin Request
    BY RequestsAssumption
  <2> HIDE DEF row
  <2>6. Named(Append(jobs, row))
    BY <1>1, <2>1, <2>4, <2>5, OneAdded
  <2>7. Len(jobs') = Len(jobs) + 1 /\ jobs'[Len(jobs) + 1] = row
    BY <1>1, <2>1, <2>2, OneAdded
  <2>8. \A j \in Len(jobs) + 1 .. Len(jobs') : j = Len(jobs) + 1
    BY <1>1, <2>7
  <2>9. QED BY <2>1, <2>2, <2>3, <2>5, <2>6, <2>7, <2>8
<1>11. ASSUME NEW q \in Request, Cancel(q) \/ Delete(q)
       PROVE  Named(jobs') /\ NewKnown
  <2>1. jobs' = JobsCancelled(q) /\ request[q] # None
    BY <1>11 DEF Cancel, Delete, Asks
  <2>2. QED BY <1>6, <2>1, CancelledList
<1>12. ASSUME NEW q \in Request, Reindex(q)
       PROVE  Named(jobs') /\ NewKnown
  <2> DEFINE d == request[q].document
             row == NewJob(d, "ingest", q)
             list == JobsCancelled(q)
  <2>1. /\ jobs' = Append(list, row)
        /\ request[q] # None
        /\ request' = [request EXCEPT ![q] = None]
        /\ made' = made
        /\ Exists(d)
    BY <1>12 DEF Reindex, Asks, Write, bounds
  <2>2. d \in Document /\ q \in made /\ doc[d].status # "none"
    BY <2>1 DEF RequestsKnow, Exists
  <2>3. row \in Job /\ row.document = d /\ row.type = "ingest" /\ row.key = q
    BY <2>2, NewJobTypes DEF Types, Keys, NewJob
  <2>4. /\ list \in Seq(Job)
        /\ Len(list) = Len(jobs)
        /\ Kept(jobs, list)
        /\ Named(list)
    BY <2>1, CancelledList
  <2>5. request'[q] = None
    BY <2>1 DEF RequestsKnow
  <2>6. \A j \in 1 .. Len(list) : list[j].key # q
    BY <2>1, <2>4 DEF NamesKnow, Kept
  <2>7. q # "chain"
    BY RequestsAssumption
  <2> HIDE DEF row, list, d
  <2>8. Named(Append(list, row))
    BY <2>3, <2>4, <2>6, <2>7, OneAdded
  <2>9. Len(jobs') = Len(list) + 1 /\ jobs'[Len(list) + 1] = row
    BY <2>1, <2>3, <2>4, OneAdded
  <2>10. \A j \in Len(jobs) + 1 .. Len(jobs') : j = Len(jobs) + 1
    BY <1>1, <2>4, <2>9
  <2>11. doc'[d].status # "none"
    BY <1>3, <2>2
  <2>12. Named(jobs')
    BY <2>1, <2>8
  <2>13. NewKnown
    BY <2>1, <2>2, <2>3, <2>4, <2>5, <2>9, <2>10, <2>11
  <2>14. QED BY <2>12, <2>13
<1>13. ASSUME jobs' = jobs
       PROVE  Named(jobs') /\ NewKnown
  BY <1>6, <1>13
<1>14. \/ jobs' = jobs
       \/ \E d \in Document : Approve(d)
       \/ \E q \in Request : Cancel(q) \/ Delete(q) \/ Reindex(q)
       \/ \E w \in Worker : Claim(w) \/ Handle(w) \/ Break(w) \/ Crash(w)
  BY DEF Next, Owner, Ask, AskInVain, RecoverStale, vars
<1>15. ASSUME NEW w \in Worker, Claim(w) \/ Handle(w) \/ Break(w) \/ Crash(w)
       PROVE  Named(jobs') /\ NewKnown
  <2>1. CASE Claim(w)
    BY <1>7, <2>1, ClaimTakes
  <2>2. CASE Handle(w) \/ Break(w) \/ Crash(w)
    BY <1>8, <1>9, <2>2, WorkerMoves
  <2>3. QED BY <1>15, <2>1, <2>2
<1> HIDE DEF NewKnown
<1>16. Named(jobs') /\ NewKnown
  BY <1>10, <1>11, <1>12, <1>13, <1>14, <1>15
<1>17. QED BY <1>5, <1>16

-----------------------------------------------------------------------------
(* What is known of the paid embedding.                                    *)

\* The steps between the reservation of an embedding and its settlement.
Embedding == {"reserved", "running", "calling", "answered", "storing"}

\* Who is at an embedding knows its stage, and whether it was answered.
StagesKnow ==
    \A w \in Worker :
      /\ worker[w].at = "read" => Mine(w).type # "embedding"
      /\ worker[w].at \in Embedding =>
           /\ Mine(w).type = "embedding"
           /\ stage[About(w)] = IF worker[w].at = "reserved" THEN "reserved"
                                                             ELSE "running"
           /\ answers[About(w)] = IF worker[w].at \in {"answered", "storing"} THEN 1
                                                                              ELSE 0

\* A stage s with charge c was answered n times: once at most, never before it
\* runs, and debited when it is settled.
Consistent(s, c, n) ==
    /\ n \in {0, 1}
    /\ s = "settled" <=> c = "debited"
    /\ c = "debited" => n = 1
    /\ s \notin Attempted => n = 0

BillsAgree == \A d \in Document : Consistent(stage[d], charge[d], answers[d])

\* What a step of worker w does to the stage of its document: it ends in a
\* charge, or leaves the mark that it could not be committed.
Bills(w) ==
    LET d == About(w) IN
    /\ \A e \in Document \ {d} : /\ stage'[e] = stage[e]
                                 /\ charge'[e] = charge[e]
                                 /\ answers'[e] = answers[e]
    /\ Mine(w).type # "embedding" => UNCHANGED <<stage, charge, answers>>
    /\ unsettled \subseteq unsettled'
    /\ Consistent(stage'[d], charge'[d], answers'[d])
    /\ charge[d] = "debited" => charge'[d] = "debited"
    /\ answers'[d] # answers[d] => worker'[w].at = "answered"
    /\ worker[w].at \in {"answered", "storing"} =>
         \/ worker'[w].at \in {"answered", "storing"}
         \/ charge'[d] = "debited"
         \/ d \in unsettled'
    /\ worker'[w].at = "read" => Mine(w).type # "embedding"
    /\ worker'[w].at \in Embedding =>
         /\ Mine(w).type = "embedding"
         /\ stage'[d] = IF worker'[w].at = "reserved" THEN "reserved" ELSE "running"
         /\ answers'[d] = IF worker'[w].at \in {"answered", "storing"} THEN 1 ELSE 0

\* The charges and the stages stay of their types.
LEMMA BillsStay ==
    ASSUME TypeOK, RequestsKnow, HoldersKnow, [Next]_vars
    PROVE  /\ stage' \in [Document -> {"none", "reserved"} \cup Attempted]
           /\ charge' \in [Document -> {"none", "reserved", "debited", "released"}]
           /\ answers' \in [Document -> Nat]
           /\ unsettled' \subseteq Document
           /\ faults' \in 0 .. MaxFaults
           /\ replaced' \subseteq Document /\ partly' \subseteq Document
<1> DEFINE Goal == /\ stage' \in [Document -> {"none", "reserved"} \cup Attempted]
                   /\ charge' \in [Document -> {"none", "reserved", "debited", "released"}]
                   /\ answers' \in [Document -> Nat]
                   /\ unsettled' \subseteq Document
                   /\ faults' \in 0 .. MaxFaults
                   /\ replaced' \subseteq Document /\ partly' \subseteq Document
<1>1. /\ stage \in [Document -> {"none", "reserved"} \cup Attempted]
      /\ charge \in [Document -> {"none", "reserved", "debited", "released"}]
      /\ answers \in [Document -> Nat]
      /\ unsettled \subseteq Document
      /\ faults \in 0 .. MaxFaults
      /\ replaced \subseteq Document /\ partly \subseteq Document
  BY DEF TypeOK
<1>2. ASSUME UNCHANGED <<billing, faults, history>>
      PROVE  Goal
  BY <1>1, <1>2 DEF billing, history
<1>3. ASSUME NEW d \in Document, Approve(d)
      PROVE  Goal
  BY <1>1, <1>3 DEF Approve, billing, bounds
<1>4. ASSUME NEW q \in Request, Reindex(q)
      PROVE  Goal
  <2>1. request[q].document \in Document
    BY <1>4 DEF Reindex, Asks, RequestsKnow
  <2>2. UNCHANGED <<billing, faults, replaced>>
    BY <1>4 DEF Reindex, Write, bounds
  <2>3. partly' \in {partly, partly \cup {request[q].document}}
    BY <1>4 DEF Reindex
  <2>4. QED BY <1>1, <2>1, <2>2, <2>3 DEF billing
<1>5. ASSUME NEW d \in Document, RecoverStale(d)
      PROVE  Goal
  BY <1>1, <1>5 DEF RecoverStale, bounds, history
<1>6. \A d \in Document, s \in Attempted : ReleaseAttempt(d, s) =>
        /\ stage' \in [Document -> {"none", "reserved"} \cup Attempted]
        /\ charge' \in [Document -> {"none", "reserved", "debited", "released"}]
  BY <1>1 DEF ReleaseAttempt
<1>7. \A d \in Document : Settled(d) =>
        /\ stage' \in [Document -> {"none", "reserved"} \cup Attempted]
        /\ charge' \in [Document -> {"none", "reserved", "debited", "released"}]
        /\ unsettled' = unsettled
  BY <1>1 DEF Settled, Attempted
<1>8. ASSUME NEW w \in Worker, Reserve(w) \/ Start(w) \/ Call(w) \/ Answer(w)
      PROVE  Goal
  <2>1. About(w) \in Document
    BY <1>8, HasJob DEF Reserve, Start, Call, Answer
  <2>2. CASE Reserve(w)
    BY <1>1, <1>6, <2>1, <2>2 DEF Reserve, history, bounds, Attempted
  <2>3. CASE Start(w)
    BY <1>1, <1>6, <2>1, <2>3 DEF Start, history, bounds, Attempted
  <2>4. CASE Call(w)
    BY <1>1, <1>6, <2>1, <2>4 DEF Call, history, bounds, Attempted
  <2>5. CASE Answer(w)
    BY <1>1, <1>6, <2>1, <2>5 DEF Answer, history, bounds, Attempted
  <2>6. QED BY <1>8, <2>2, <2>3, <2>4, <2>5
<1>9. ASSUME NEW w \in Worker, Judge(w) \/ Store(w)
      PROVE  Goal
  <2>1. About(w) \in Document
    BY <1>9, HasJob DEF Judge, Store
  <2>2. UNCHANGED <<answers, faults, history>>
    BY <1>9 DEF Judge, Store, bounds
  <2>3. \/ UNCHANGED <<stage, charge, unsettled>>
        \/ Settled(About(w))
        \/ UNCHANGED <<stage, charge>> /\ unsettled' = unsettled \cup {About(w)}
    BY <1>9 DEF Judge, Store, Discarded, Unsettled
  <2>4. QED BY <1>1, <1>7, <2>1, <2>2, <2>3 DEF history
<1>10. ASSUME NEW w \in Worker, Break(w) \/ Crash(w)
       PROVE  Goal
  <2>1. About(w) \in Document
    BY <1>10, HasJob DEF Break, Crash
  <2>2. UNCHANGED <<stage, charge, answers, history>>
    BY <1>10 DEF Break, Crash
  <2>3. unsettled' \in {unsettled, unsettled \cup {About(w)}}
    BY <1>10 DEF Break, Crash
  <2>4. faults' = faults + 1 /\ faults < MaxFaults
    BY <1>10 DEF Break, Crash
  <2>5. QED BY <1>1, <2>1, <2>2, <2>3, <2>4, KnowledgeBounds DEF history
<1> HIDE DEF Goal
<1>11. \/ UNCHANGED <<billing, faults, history>>
       \/ \E d \in Document : Approve(d) \/ RecoverStale(d)
       \/ \E q \in Request : Reindex(q)
       \/ \E w \in Worker : \/ Reserve(w) \/ Start(w) \/ Call(w) \/ Answer(w)
                            \/ Judge(w) \/ Store(w) \/ Break(w) \/ Crash(w)
  BY DEF Next, Owner, Handle, Ask, Cancel, Delete, AskInVain, Write, Claim, Read,
         Ingest, Build, See, Complete, vars, billing, bounds, history
<1>12. Goal
  BY <1>2, <1>3, <1>4, <1>5, <1>8, <1>9, <1>10, <1>11
<1>13. QED BY <1>12 DEF Goal

\* Every step keeps the types.
LEMMA TypesStay ==
    ASSUME TypeOK, RequestsKnow, HoldersKnow, Named(jobs), NamesKnow, [Next]_vars
    PROVE  TypeOK'
<1>1. doc' \in [Document -> Knowledge]
  BY DocumentsStay
<1>2. jobs' \in Seq(Job)
  BY JobsStay
<1>3. Len(jobs') <= JobCount
  BY <1>2, NamesKept, Counted
<1>4. worker' \in [Worker -> Doing]
  <2>1. worker \in [Worker -> Doing]
    BY DEF TypeOK
  <2>2. Resting \in Doing
    <3>1. Nothing \in Knowledge
      BY DEF Nothing, Knowledge
    <3>2. QED BY <3>1 DEF Resting, Doing, Steps, Active, Waiting
  <2>3. QED BY <2>1, <2>2, Kinds DEF Asked, Takes, GoesOn, Ends
<1>5. \A q \in Request : request'[q] # None =>
        request'[q].saw \in Knowledge /\ request'[q].jobs \subseteq 1 .. Len(jobs')
  BY RequestsStay DEF RequestsKnow
<1>6. made' \subseteq Request
  BY RequestsStay
<1>7. QED BY <1>1, <1>2, <1>3, <1>4, <1>5, <1>6, BillsStay DEF TypeOK

\* What is known of the jobs, in one formula.
JobsInv == /\ TypeOK
           /\ RequestsKnow
           /\ Named(jobs)
           /\ NamesKnow
           /\ HoldersKnow
           /\ HeldOnce

\* No step breaks it.
LEMMA JobsInvStays == JobsInv /\ [Next]_vars => JobsInv'
<1> SUFFICES ASSUME JobsInv, [Next]_vars PROVE JobsInv'
  OBVIOUS
<1> USE DEF JobsInv
<1>1. TypeOK'
  BY TypesStay
<1>2. RequestsKnow'
  BY RequestsStay
<1>3. Named(jobs)' /\ NamesKnow'
  BY NamesKept DEF Named
<1>4. HoldersKnow' /\ HeldOnce'
  BY HoldersStay
<1>5. QED BY <1>1, <1>2, <1>3, <1>4

\* It holds of every behaviour.
LEMMA JobsAlways == Spec => []JobsInv
<1>1. Init => JobsInv
  <2> SUFFICES ASSUME Init PROVE JobsInv
    OBVIOUS
  <2> USE DEF Init
  <2>1. jobs = <<>> /\ jobs \in Seq(Job) /\ Len(jobs) = 0
    BY EmptySeq
  <2>2. Nothing \in Knowledge
    BY DEF Nothing, Knowledge
  <2>3. Resting \in Doing
    BY <2>2 DEF Resting, Doing, Steps, Active, Waiting
  <2>4. Len(jobs) <= JobCount
    <3>1. Named(jobs)
      BY <2>1 DEF Named
    <3>2. QED BY <2>1, <3>1, Counted
  <2>5. TypeOK
    BY <2>1, <2>2, <2>3, <2>4, KnowledgeBounds DEF TypeOK, Attempted
  <2>6. RequestsKnow /\ Named(jobs) /\ NamesKnow
    BY <2>1 DEF RequestsKnow, Named, NamesKnow
  <2>7. HoldersKnow /\ HeldOnce
    BY DEF HoldersKnow, HeldOnce, Resting
  <2>8. QED BY <2>5, <2>6, <2>7 DEF JobsInv
<1>2. QED BY <1>1, JobsInvStays, PTL DEF Spec

\* The rows are of their types, and there are no more jobs than an ingest and
\* the derived stages for each document and an ingest for each request: the
\* keys of enqueue_knowledge_job keep every other job out.
THEOREM TypeCorrect == Spec => []TypeOK
BY JobsAlways, PTL DEF JobsInv

\* The steps of a worker keep what is known of its stage.
LEMMA WorkerBills ==
    ASSUME JobsInv, StagesKnow, BillsAgree, NEW w \in Worker,
           Handle(w) \/ Break(w) \/ Crash(w)
    PROVE  Bills(w)
<1> DEFINE d == About(w)
           at == worker[w].at
           type == Mine(w).type
<1>1. /\ stage \in [Document -> {"none", "reserved"} \cup Attempted]
      /\ charge \in [Document -> {"none", "reserved", "debited", "released"}]
      /\ answers \in [Document -> Nat]
      /\ worker \in [Worker -> Doing]
  BY DEF JobsInv, TypeOK
<1>2. at # "idle" /\ d \in Document
  BY WorkerMoves, HasJob DEF JobsInv
<1>3. Consistent(stage[d], charge[d], answers[d])
  BY <1>2 DEF BillsAgree
<1>4. /\ at = "read" => type # "embedding"
      /\ at \in Embedding =>
           /\ type = "embedding"
           /\ stage[d] = IF at = "reserved" THEN "reserved" ELSE "running"
           /\ answers[d] = IF at \in {"answered", "storing"} THEN 1 ELSE 0
  BY DEF StagesKnow
<1>5. \A a \in Steps : Go(w, a) => worker'[w].at = a
  BY <1>1 DEF Go
<1>6. ReturnDropped(w) => worker'[w].at = "done"
  BY <1>1 DEF ReturnDropped
<1>7. worker' = [worker EXCEPT ![w] = Resting] => worker'[w].at = "idle"
  BY <1>1 DEF Resting
<1>8. Fail(w) => worker'[w].at = "idle"
  BY <1>7 DEF Fail
<1> DEFINE Same == UNCHANGED <<stage, charge, answers>>
<1>9. ASSUME Same, unsettled \subseteq unsettled',
             worker'[w].at \notin Embedding,
             worker'[w].at = "read" => type # "embedding",
             at \in {"answered", "storing"} => d \in unsettled'
      PROVE  Bills(w)
  BY <1>3, <1>9 DEF Bills, Embedding
<1> USE DEF Steps
<1>10. CASE Read(w)
  <2>1. at = "claimed" /\ type # "embedding" /\ Same /\ UNCHANGED unsettled
    BY <1>10 DEF Read, billing
  <2>2. worker'[w].at \in {"done", "idle", "read"}
    <3> DEFINE k == doc[d]
    <3>1. worker' = [worker EXCEPT ![w].at = "read", ![w].saw = k] => worker'[w].at = "read"
      BY <1>1
    <3>2. \/ ReturnDropped(w) \/ Fail(w)
          \/ worker' = [worker EXCEPT ![w].at = "read", ![w].saw = k]
      BY <1>10 DEF Read
    <3>3. QED BY <1>6, <1>8, <3>1, <3>2
  <2>3. QED BY <1>9, <2>1, <2>2 DEF Embedding
<1>11. CASE Ingest(w)
  <2>1. at = "read" /\ Same /\ UNCHANGED unsettled
    BY <1>11 DEF Ingest, billing
  <2>2. worker'[w].at = "idle"
    BY <1>7, <1>8, <1>11 DEF Ingest
  <2>3. QED BY <1>9, <2>1, <2>2 DEF Embedding
<1>12. CASE Build(w)
  <2>1. at = "read" /\ Same /\ UNCHANGED unsettled
    BY <1>12 DEF Build, billing
  <2>2. worker'[w].at \in {"idle", "done"}
    BY <1>5, <1>6, <1>8, <1>12 DEF Build, Return
  <2>3. QED BY <1>9, <2>1, <2>2 DEF Embedding
<1>13. CASE See(w)
  <2>1. at = "done" /\ Same /\ UNCHANGED unsettled
    BY <1>13 DEF See, billing
  <2>2. worker'[w].at = "seen"
    BY <1>1, <1>13 DEF See
  <2>3. QED BY <1>9, <2>1, <2>2 DEF Embedding
<1>14. CASE Complete(w)
  <2>1. at = "seen" /\ Same /\ UNCHANGED unsettled
    BY <1>14 DEF Complete, billing
  <2>2. worker'[w].at = "idle"
    BY <1>7, <1>14 DEF Complete
  <2>3. QED BY <1>9, <2>1, <2>2 DEF Embedding
<1>15. CASE Break(w) \/ Crash(w)
  <2>1. Same /\ worker'[w].at = "idle"
    BY <1>7, <1>8, <1>15 DEF Break, Crash
  <2>2. unsettled' = IF at \in {"answered", "storing"} THEN unsettled \cup {d} ELSE unsettled
    BY <1>15 DEF Break, Crash
  <2>3. QED BY <1>9, <2>1, <2>2 DEF Embedding
<1>16. \A s \in {"released", "failed"} : ReleaseAttempt(d, s) =>
         /\ \A e \in Document \ {d} : stage'[e] = stage[e] /\ charge'[e] = charge[e]
         /\ stage'[d] = IF stage[d] = "settled" THEN "settled" ELSE s
         /\ charge'[d] = IF charge[d] = "reserved" THEN "released" ELSE charge[d]
  BY <1>1, <1>2 DEF ReleaseAttempt
<1>17. Settled(d) =>
         /\ \A e \in Document \ {d} : stage'[e] = stage[e] /\ charge'[e] = charge[e]
         /\ stage'[d] = "settled"
         /\ charge'[d] = "debited"
         /\ UNCHANGED unsettled
  BY <1>1, <1>2 DEF Settled
<1> DEFINE Released == /\ \A e \in Document \ {d} : /\ stage'[e] = stage[e]
                                                    /\ charge'[e] = charge[e]
                       /\ stage[d] = "settled" => stage'[d] = "settled"
                       /\ stage[d] # "settled" => stage'[d] \in {"released", "failed"}
                       /\ charge'[d] = IF charge[d] = "reserved" THEN "released"
                                                                 ELSE charge[d]
                       /\ UNCHANGED <<answers, unsettled>>
                       /\ worker'[w].at = "done"
                       /\ type = "embedding"
                       /\ at \notin {"answered", "storing"}
<1>18. ASSUME Released
       PROVE  Bills(w)
  <2>1. Consistent(stage'[d], charge'[d], answers'[d])
    BY <1>3, <1>18 DEF Consistent, Attempted
  <2>2. QED BY <1>18, <2>1 DEF Bills, Embedding
<1>19. CASE Reserve(w)
  <2>1. at = "claimed" /\ type = "embedding" /\ UNCHANGED <<answers, unsettled>>
    BY <1>19 DEF Reserve
  <2>2. CASE Same /\ worker'[w].at \in {"done", "idle"}
    BY <1>9, <2>1, <2>2 DEF Embedding
  <2>3. CASE ReleaseAttempt(d, "released") /\ Go(w, "done")
    <3>1. worker'[w].at = "done"
      BY <1>5, <2>3
    <3>2. Released
      BY <1>16, <2>1, <2>3, <3>1
    <3>3. QED BY <1>18, <3>2
  <2>4. CASE /\ MayAttempt(d)
             /\ charge[d] # "debited"
             /\ stage' = [stage EXCEPT ![d] = "reserved"]
             /\ charge' = [charge EXCEPT ![d] = "reserved"]
             /\ Go(w, "reserved")
    <3>1. /\ \A e \in Document \ {d} : stage'[e] = stage[e] /\ charge'[e] = charge[e]
          /\ stage'[d] = "reserved" /\ charge'[d] = "reserved"
          /\ worker'[w].at = "reserved"
      BY <1>1, <1>2, <1>5, <2>4
    <3>2. answers[d] = 0
      BY <1>3, <2>4 DEF MayAttempt, Consistent
    <3>3. Consistent(stage'[d], charge'[d], answers'[d])
      BY <2>1, <3>1, <3>2 DEF Consistent, Attempted
    <3>4. QED BY <2>1, <2>4, <3>1, <3>2, <3>3 DEF Bills, Embedding
  <2>5. \/ Same /\ (ReturnDropped(w) \/ Fail(w) \/ Go(w, "done"))
        \/ ReleaseAttempt(d, "released") /\ Go(w, "done")
        \/ /\ MayAttempt(d)
           /\ charge[d] # "debited"
           /\ stage' = [stage EXCEPT ![d] = "reserved"]
           /\ charge' = [charge EXCEPT ![d] = "reserved"]
           /\ Go(w, "reserved")
    BY <1>19 DEF Reserve, Return
  <2>6. QED BY <1>5, <1>6, <1>8, <2>2, <2>3, <2>4, <2>5
<1>20. CASE Start(w)
  <2>1. at = "reserved" /\ UNCHANGED <<answers, unsettled>>
    BY <1>20 DEF Start
  <2>2. CASE ReleaseAttempt(d, "failed") /\ Return(w)
    <3>1. worker'[w].at = "done"
      BY <1>5, <2>2 DEF Return
    <3>2. Released
      BY <1>4, <1>16, <2>1, <2>2, <3>1 DEF Embedding
    <3>3. QED BY <1>18, <3>2
  <2>3. CASE /\ stage' = [stage EXCEPT ![d] = "running"]
             /\ Go(w, "running")
             /\ UNCHANGED charge
    <3>1. /\ \A e \in Document \ {d} : stage'[e] = stage[e] /\ charge'[e] = charge[e]
          /\ stage'[d] = "running" /\ charge'[d] = charge[d]
          /\ worker'[w].at = "running"
      BY <1>1, <1>2, <1>5, <2>3
    <3>2. answers[d] = 0 /\ type = "embedding" /\ charge[d] # "debited"
      BY <1>3, <1>4, <2>1 DEF Embedding, Consistent
    <3>3. Consistent(stage'[d], charge'[d], answers'[d])
      BY <2>1, <3>1, <3>2 DEF Consistent, Attempted
    <3>4. QED BY <2>1, <3>1, <3>2, <3>3 DEF Bills, Embedding
  <2>4. QED BY <1>20, <2>2, <2>3 DEF Start
<1>21. CASE Call(w)
  <2>1. at = "running" /\ UNCHANGED <<answers, unsettled>>
    BY <1>21 DEF Call
  <2>2. CASE ReleaseAttempt(d, "released") /\ (ReturnDropped(w) \/ Return(w))
    <3>1. worker'[w].at = "done"
      BY <1>5, <1>6, <2>2 DEF Return
    <3>2. Released
      BY <1>4, <1>16, <2>1, <2>2, <3>1 DEF Embedding
    <3>3. QED BY <1>18, <3>2
  <2>3. CASE Go(w, "calling") /\ UNCHANGED <<stage, charge>>
    <3>1. worker'[w].at = "calling"
      BY <1>5, <2>3
    <3>2. answers[d] = 0 /\ type = "embedding" /\ stage[d] = "running"
      BY <1>4, <2>1 DEF Embedding
    <3>3. QED BY <1>3, <2>1, <2>3, <3>1, <3>2 DEF Bills, Embedding
  <2>4. QED BY <1>21, <2>2, <2>3 DEF Call
<1>22. CASE Answer(w)
  <2>1. at = "calling" /\ UNCHANGED unsettled
    BY <1>22 DEF Answer
  <2>2. CASE ReleaseAttempt(d, "failed") /\ Return(w) /\ UNCHANGED answers
    <3>1. worker'[w].at = "done"
      BY <1>5, <2>2 DEF Return
    <3>2. Released
      BY <1>4, <1>16, <2>1, <2>2, <3>1 DEF Embedding
    <3>3. QED BY <1>18, <3>2
  <2>3. CASE /\ answers' = [answers EXCEPT ![d] = @ + 1]
             /\ Go(w, "answered")
             /\ UNCHANGED <<stage, charge>>
    <3>1. worker'[w].at = "answered"
      BY <1>5, <2>3
    <3>2. answers[d] = 0 /\ type = "embedding" /\ stage[d] = "running"
      BY <1>4, <2>1 DEF Embedding
    <3>3. answers'[d] = 1 /\ \A e \in Document \ {d} : answers'[e] = answers[e]
      BY <1>1, <1>2, <2>3, <3>2
    <3>4. Consistent(stage'[d], charge'[d], answers'[d])
      BY <1>3, <2>3, <3>2, <3>3 DEF Consistent, Attempted
    <3>5. QED BY <2>1, <2>3, <3>1, <3>2, <3>3, <3>4 DEF Bills, Embedding
  <2>4. QED BY <1>22, <2>2, <2>3 DEF Answer
<1>23. CASE Judge(w) \/ Store(w)
  <2>1. at \in {"answered", "storing"} /\ UNCHANGED answers
    BY <1>23 DEF Judge, Store
  <2>2. answers[d] = 1 /\ type = "embedding" /\ stage[d] = "running"
    BY <1>4, <2>1 DEF Embedding
  <2>3. CASE Settled(d) /\ (ReturnDropped(w) \/ Return(w))
    <3>1. worker'[w].at = "done"
      BY <1>5, <1>6, <2>3 DEF Return
    <3>2. Consistent(stage'[d], charge'[d], answers'[d])
      BY <1>17, <2>1, <2>2, <2>3 DEF Consistent, Attempted
    <3>3. QED BY <1>17, <2>1, <2>2, <2>3, <3>1, <3>2 DEF Bills, Embedding
  <2>4. CASE Unsettled(w, d)
    <3>1. worker'[w].at = "idle" /\ Same /\ unsettled' = unsettled \cup {d}
      BY <1>8, <2>1, <2>4 DEF Unsettled
    <3>2. QED BY <1>9, <3>1 DEF Embedding
  <2>5. CASE Go(w, "storing") /\ UNCHANGED <<stage, charge, unsettled>>
    <3>1. worker'[w].at = "storing"
      BY <1>5, <2>5
    <3>2. QED BY <1>3, <2>1, <2>2, <2>5, <3>1 DEF Bills, Embedding
  <2>6. QED BY <1>23, <2>3, <2>4, <2>5 DEF Judge, Store, Discarded
<1>24. QED
  BY <1>10, <1>11, <1>12, <1>13, <1>14, <1>15, <1>19, <1>20, <1>21, <1>22, <1>23
     DEF Handle

\* Two workers are not at the embedding of one document: there is one job.
LEMMA OneEmbedding ==
    ASSUME JobsInv, NEW v \in Worker, NEW w \in Worker,
           worker[v].at # "idle", worker[w].at # "idle",
           Mine(v).type = "embedding", Mine(w).type = "embedding",
           About(v) = About(w)
    PROVE  v = w
<1>1. worker[v].job \in 1 .. Len(jobs) /\ worker[w].job \in 1 .. Len(jobs)
  BY DEF JobsInv, HoldersKnow
<1>2. Mine(v).key = "chain" /\ Mine(w).key = "chain"
  BY <1>1 DEF JobsInv, Named, Mine
<1>3. worker[v].job = worker[w].job
  BY <1>1, <1>2 DEF JobsInv, Named, Mine, About
<1>4. QED BY <1>3 DEF JobsInv, HeldOnce

\* A worker that holds its job holds it under its name.
LEMMA NameHeld ==
    ASSUME JobsInv, [Next]_vars, NEW w \in Worker, worker[w].at # "idle",
           worker'[w].job = worker[w].job
    PROVE  Mine(w)'.type = Mine(w).type /\ About(w)' = About(w)
<1>1. Kept(jobs, jobs')
  BY JobsStay DEF JobsInv
<1>2. worker[w].job \in 1 .. Len(jobs)
  BY DEF JobsInv, HoldersKnow
<1>3. QED BY <1>1, <1>2 DEF Kept, Mine, About

\* What is known of stages, charges and answers.
BillsInv == /\ StagesKnow
            /\ BillsAgree
            /\ AnswersAreCharged

\* A step that leaves stages, charges and answers alone, and brings nobody to
\* an embedding.
LEMMA BillsUntouched ==
    ASSUME JobsInv, BillsInv, [Next]_vars,
           UNCHANGED <<stage, answers, unsettled>>,
           BillsAgree',
           \A d \in Document : charge[d] = "debited" => charge'[d] = "debited",
           \A v \in Worker : \/ worker'[v] = worker[v]
                             \/ /\ worker[v].at = "idle"
                                /\ worker'[v].at = "claimed"
    PROVE  BillsInv'
<1>1. \A v \in Worker : worker'[v].at \in Embedding \cup {"read"} =>
        /\ worker'[v] = worker[v]
        /\ Mine(v)'.type = Mine(v).type
        /\ About(v)' = About(v)
  BY NameHeld DEF Embedding
<1>2. StagesKnow'
  BY <1>1 DEF BillsInv, StagesKnow, Embedding
<1>3. AnswersAreCharged'
  <2> SUFFICES ASSUME NEW d \in Document, answers'[d] > 0, d \notin unsettled',
                      \A w \in Worker : worker'[w].at \in {"answered", "storing"}
                                          => About(w)' # d
               PROVE  charge'[d] = "debited"
    BY DEF AnswersAreCharged
  <2>1. ASSUME NEW w \in Worker, worker[w].at \in {"answered", "storing"}
        PROVE  About(w) # d
    <3>1. worker'[w] = worker[w]
      BY <2>1
    <3>2. QED BY <1>1, <2>1, <3>1 DEF Embedding
  <2>2. charge[d] = "debited"
    BY <2>1 DEF BillsInv, AnswersAreCharged
  <2>3. QED BY <2>2
<1>4. QED BY <1>2, <1>3 DEF BillsInv

\* The step of one worker leaves what the others know.
LEMMA BillsMove ==
    ASSUME JobsInv, BillsInv, [Next]_vars, NEW w \in Worker,
           Handle(w) \/ Break(w) \/ Crash(w)
    PROVE  BillsInv'
<1>1. Bills(w)
  BY WorkerBills DEF BillsInv
<1>2. /\ worker[w].at # "idle"
      /\ (GoesOn(w) /\ worker'[w].at # "idle") \/ Ends(w)
  BY WorkerMoves DEF JobsInv
<1>3. worker \in [Worker -> Doing]
  BY DEF JobsInv, TypeOK
<1>4. \A v \in Worker \ {w} : worker'[v] = worker[v]
  BY <1>2, <1>3 DEF GoesOn, Ends
<1>5. \A v \in Worker \ {w} : worker[v].at # "idle" =>
        Mine(v)'.type = Mine(v).type /\ About(v)' = About(v)
  BY <1>4, NameHeld
<1>6. worker'[w].at # "idle" => Mine(w)'.type = Mine(w).type /\ About(w)' = About(w)
  <2>1. worker'[w].at # "idle" => worker'[w].job = worker[w].job
    BY <1>2, <1>3 DEF GoesOn, Ends, Resting
  <2>2. QED BY <1>2, <2>1, NameHeld
<1>7. About(w) \in Document
  BY <1>2, HasJob DEF JobsInv
<1>8. StagesKnow'
  <2>1. ASSUME NEW v \in Worker \ {w}, worker[v].at \in Embedding
        PROVE  /\ stage'[About(v)] = stage[About(v)]
               /\ answers'[About(v)] = answers[About(v)]
    <3>1. Mine(v).type = "embedding" /\ worker[v].at # "idle"
      BY <2>1 DEF BillsInv, StagesKnow, Embedding
    <3>2. About(v) \in Document
      BY <3>1, HasJob DEF JobsInv
    <3>3. CASE About(v) = About(w)
      <4>1. Mine(w).type # "embedding"
        BY <1>2, <3>1, <3>3, OneEmbedding
      <4>2. QED BY <1>1, <4>1 DEF Bills
    <3>4. CASE About(v) # About(w)
      BY <1>1, <3>2, <3>4 DEF Bills
    <3>5. QED BY <3>3, <3>4
  <2>2. ASSUME NEW v \in Worker \ {w}
        PROVE  /\ worker'[v].at = "read" => Mine(v)'.type # "embedding"
               /\ worker'[v].at \in Embedding =>
                    /\ Mine(v)'.type = "embedding"
                    /\ stage'[About(v)'] = IF worker'[v].at = "reserved" THEN "reserved"
                                                                        ELSE "running"
                    /\ answers'[About(v)'] =
                         IF worker'[v].at \in {"answered", "storing"} THEN 1 ELSE 0
    <3>1. worker'[v] = worker[v]
      BY <1>4
    <3>2. worker[v].at \in Embedding \cup {"read"} =>
            Mine(v)'.type = Mine(v).type /\ About(v)' = About(v)
      BY <1>5 DEF Embedding
    <3>3. QED BY <2>1, <3>1, <3>2 DEF BillsInv, StagesKnow
  <2>3. /\ worker'[w].at = "read" => Mine(w)'.type # "embedding"
        /\ worker'[w].at \in Embedding =>
             /\ Mine(w)'.type = "embedding"
             /\ stage'[About(w)'] = IF worker'[w].at = "reserved" THEN "reserved"
                                                                 ELSE "running"
             /\ answers'[About(w)'] =
                  IF worker'[w].at \in {"answered", "storing"} THEN 1 ELSE 0
    BY <1>1, <1>6 DEF Bills, Embedding
  <2>4. QED BY <2>2, <2>3 DEF StagesKnow
<1>9. BillsAgree'
  BY <1>1, <1>7 DEF Bills, BillsInv, BillsAgree, Consistent
<1>10. AnswersAreCharged'
  <2> SUFFICES ASSUME NEW d \in Document, answers'[d] > 0, d \notin unsettled',
                      \A v \in Worker : worker'[v].at \in {"answered", "storing"}
                                          => About(v)' # d
               PROVE  charge'[d] = "debited"
    BY DEF AnswersAreCharged
  <2>1. \A v \in Worker \ {w} : worker[v].at \in {"answered", "storing"} => About(v) # d
    BY <1>4, <1>5
  <2>2. d \notin unsettled
    BY <1>1 DEF Bills
  <2>3. CASE d # About(w)
    <3>1. charge[d] = "debited"
      BY <1>1, <2>1, <2>2, <2>3 DEF Bills, BillsInv, AnswersAreCharged
    <3>2. QED BY <1>1, <2>3, <3>1 DEF Bills
  <2>4. CASE d = About(w)
    <3>1. worker'[w].at \notin {"answered", "storing"}
      BY <1>6, <2>4
    <3>2. answers'[d] = answers[d]
      BY <1>1, <2>4, <3>1 DEF Bills
    <3>3. CASE worker[w].at \in {"answered", "storing"}
      BY <1>1, <2>4, <3>1, <3>3 DEF Bills
    <3>4. CASE worker[w].at \notin {"answered", "storing"}
      <4>1. charge[d] = "debited"
        BY <2>1, <2>2, <3>2, <3>4 DEF BillsInv, AnswersAreCharged
      <4>2. QED BY <1>1, <2>4, <4>1 DEF Bills
    <3>5. QED BY <3>3, <3>4
  <2>5. QED BY <2>3, <2>4
<1>11. QED BY <1>8, <1>9, <1>10 DEF BillsInv

\* No step breaks what is known of the bills.
LEMMA BillsInvStays == JobsInv /\ BillsInv /\ [Next]_vars => BillsInv'
<1> SUFFICES ASSUME JobsInv, BillsInv, [Next]_vars PROVE BillsInv'
  OBVIOUS
<1>1. CASE UNCHANGED <<billing, worker>>
  BY <1>1, BillsUntouched DEF billing, BillsInv, BillsAgree
<1>2. ASSUME NEW d \in Document, RecoverStale(d)
      PROVE  BillsInv'
  <2>1. /\ charge[d] = "reserved"
        /\ charge' = [charge EXCEPT ![d] = "released"]
        /\ UNCHANGED <<stage, answers, unsettled, worker>>
    BY <1>2 DEF RecoverStale
  <2>2. charge \in [Document -> {"none", "reserved", "debited", "released"}]
    BY DEF JobsInv, TypeOK
  <2>3. BillsAgree'
    BY <2>1, <2>2 DEF BillsInv, BillsAgree, Consistent
  <2>4. \A e \in Document : charge[e] = "debited" => charge'[e] = "debited"
    BY <2>1, <2>2
  <2>5. QED BY <2>1, <2>3, <2>4, BillsUntouched
<1>3. ASSUME NEW w \in Worker, Claim(w)
      PROVE  BillsInv'
  <2>1. Takes(w) /\ UNCHANGED billing /\ worker[w].at = "idle"
    BY <1>3, ClaimTakes DEF JobsInv, Claim
  <2>2. QED BY <2>1, BillsUntouched DEF Takes, billing, BillsInv, BillsAgree
<1>4. ASSUME NEW w \in Worker, Handle(w) \/ Break(w) \/ Crash(w)
      PROVE  BillsInv'
  BY <1>4, BillsMove
<1>5. Owner \/ UNCHANGED vars => UNCHANGED <<billing, worker>>
  BY DEF Owner, Approve, Ask, Cancel, Delete, Reindex, AskInVain, Write, vars, billing
<1>6. QED BY <1>1, <1>2, <1>3, <1>4, <1>5 DEF Next

\* They hold of every behaviour.
LEMMA BillsAlways == Spec => []BillsInv
<1>1. Init => BillsInv
  BY DEF Init, BillsInv, StagesKnow, BillsAgree, Consistent, AnswersAreCharged, Embedding,
         Resting, Attempted
<1>2. QED BY <1>1, JobsAlways, BillsInvStays, PTL DEF Spec

\* No document is sent to the paid provider twice: the key of the chain admits
\* one embedding job for it, one worker holds a job, and a stage that may have
\* been called is not attempted again, whatever fails or is repeated.
THEOREM SentOnce == Spec => []PaidOnce
<1>1. BillsInv => PaidOnce
  BY DEF BillsInv, BillsAgree, Consistent, PaidOnce
<1>2. QED BY <1>1, BillsAlways, PTL

\* _settle_paid_stage and _release_embedding_attempt keep the stage and its
\* charge together, with the recovery of charges between any two steps.
THEOREM StageCharged == Spec => []StageMatchesCharge
<1>1. BillsInv => StageMatchesCharge
  BY DEF BillsInv, BillsAgree, Consistent, StageMatchesCharge
<1>2. QED BY <1>1, BillsAlways, PTL

\* Nothing that the provider has answered goes unpaid unless its settlement
\* could not be committed: the checks after the call discard the vectors of
\* what was cancelled, deleted or replaced meanwhile, and settle first.
THEOREM AnswersCharged == Spec => []AnswersAreCharged
<1>1. BillsInv => AnswersAreCharged
  BY DEF BillsInv
<1>2. QED BY <1>1, BillsAlways, PTL

-----------------------------------------------------------------------------
(* The row of a document and its chunks.                                   *)

Whole(k) == /\ k.status = "indexing" => k.chunks = "pending"
            /\ k.status = "ready" => k.chunks = "ready"

\* The row of a document and its chunks agree, in the tables and in what was
\* read from them, unless a newer version or a re-indexing tore them apart.
RowsAgree ==
    \A d \in Document \ (replaced \cup partly) :
      /\ Whole(doc[d])
      /\ \A q \in Request : request[q] # None /\ request[q].document = d
                              => Whole(request[q].saw)
      /\ \A w \in Worker :
           worker[w].at = "read" /\ Mine(w).type = "ingest" /\ About(w) = d =>
             /\ Whole(worker[w].saw)
             /\ worker[w].saw.status \in {"indexing", "ready"}

\* A re-indexing of a whole document leaves it whole, or torn as partly says.
LEMMA ResetWhole ==
    ASSUME NEW now \in Knowledge, NEW saw \in Knowledge, Whole(now), Whole(saw),
           ~(Reset(now, saw).status = "indexing" /\ Reset(now, saw).chunks # "pending")
    PROVE  Whole(Reset(now, saw))
<1> DEFINE k == Reset(now, saw)
<1>1. /\ k.status = Updated(now.status, saw.status, "indexing")
      /\ k.chunks = Updated(now.chunks, saw.chunks, "pending")
  BY DEF Reset
<1>2. k.status = "indexing" => k.chunks = "pending"
  OBVIOUS
<1>3. ASSUME k.status = "ready"
      PROVE  k.chunks = "ready"
  <2>1. saw.status = "indexing" /\ now.status = "ready"
    BY <1>1, <1>3 DEF Updated
  <2>2. saw.chunks = "pending" /\ now.chunks = "ready"
    BY <2>1 DEF Whole
  <2>3. QED BY <1>1, <2>2 DEF Updated
<1>4. QED BY <1>2, <1>3 DEF Whole

\* An ingest of a whole document leaves it whole.
LEMMA IngestWhole ==
    ASSUME NEW now \in Knowledge, NEW saw \in Knowledge, Whole(now), Whole(saw),
           saw.status \in {"indexing", "ready"}
    PROVE  Whole([now EXCEPT !.status = Updated(@, saw.status, "ready"),
                             !.chunks = Updated(@, saw.chunks, "ready")])
<1> DEFINE s == Updated(now.status, saw.status, "ready")
           c == Updated(now.chunks, saw.chunks, "ready")
           k == [now EXCEPT !.status = s, !.chunks = c]
<1>1. k.status = s /\ k.chunks = c
  BY DEF Knowledge
<1>2. CASE saw.status = "indexing"
  <2>1. saw.chunks = "pending"
    BY <1>2 DEF Whole
  <2>2. s = "ready" /\ c = "ready"
    BY <1>2, <2>1 DEF Updated
  <2>3. Whole(k)
    BY <1>1, <2>2 DEF Whole
  <2>4. QED BY <2>3
<1>3. CASE saw.status = "ready"
  <2>1. saw.chunks = "ready"
    BY <1>3 DEF Whole
  <2>2. s = now.status /\ c = now.chunks
    BY <1>3, <2>1 DEF Updated
  <2>3. Whole(k)
    BY <1>1, <2>2 DEF Whole
  <2>4. QED BY <2>3
<1>4. QED BY <1>2, <1>3

\* Documents stay whole.
LEMMA DocumentsWhole ==
    ASSUME JobsInv, RowsAgree, [Next]_vars,
           NEW d \in Document, d \notin replaced', d \notin partly'
    PROVE  /\ d \notin replaced /\ d \notin partly
           /\ Whole(doc'[d])
<1> DEFINE Goal == /\ d \notin replaced /\ d \notin partly
                   /\ Whole(doc'[d])
<1>1. doc \in [Document -> Knowledge]
  BY DEF JobsInv, TypeOK
<1>2. d \notin replaced /\ d \notin partly => Whole(doc[d])
  BY DEF RowsAgree
<1>3. ASSUME UNCHANGED history, doc'[d] = doc[d]
      PROVE  Goal
  BY <1>2, <1>3 DEF history
<1>4. ASSUME NEW e \in Document, Approve(e)
      PROVE  Goal
  <2>1. d \notin replaced /\ d \notin partly /\ (Exists(d) => d = e)
    BY <1>4 DEF Approve
  <2>2. doc'[d] \in {doc[d], [Nothing EXCEPT !.status = "indexing"]}
    BY <1>4, <2>1 DEF Approve
  <2>3. Whole([Nothing EXCEPT !.status = "indexing"])
    BY DEF Whole, Nothing
  <2>4. QED BY <1>2, <2>1, <2>2, <2>3
<1>5. ASSUME NEW q \in Request, Cancel(q) \/ Delete(q) \/ Reindex(q)
      PROVE  Goal
  <2> DEFINE e == request[q].document
             now == doc[e]
             saw == request[q].saw
  <2>1. request[q] # None
    BY <1>5 DEF Cancel, Delete, Reindex, Asks
  <2>2. e \in Document /\ saw \in Knowledge /\ now \in Knowledge
    BY <1>1, <2>1 DEF JobsInv, RequestsKnow
  <2>3. replaced' = replaced /\ partly \subseteq partly'
    BY <1>5 DEF Cancel, Delete, Reindex, Write
  <2>4. d \notin replaced /\ d \notin partly
    BY <2>3
  <2>5. ASSUME d = e
        PROVE  Whole(now) /\ Whole(saw)
    BY <2>1, <2>4, <2>5 DEF RowsAgree
  <2>6. CASE Cancel(q)
    <3> DEFINE s == Updated(now.status, saw.status, "failed")
    <3>1. doc' = [doc EXCEPT ![e] = [now EXCEPT !.status = s]]
      BY <2>6 DEF Cancel, Write
    <3>2. s \in {now.status, "failed"}
      BY DEF Updated
    <3> HIDE DEF s
    <3>3. Whole(now) => Whole([now EXCEPT !.status = s])
      BY <2>2, <3>2 DEF Whole, Knowledge
    <3>4. Whole(doc'[d])
      BY <1>1, <1>2, <2>2, <2>4, <2>5, <3>1, <3>3
    <3>5. QED BY <2>4, <3>4
  <2>7. CASE Delete(q)
    <3>1. doc' = [doc EXCEPT ![e] = [Nothing EXCEPT !.status = "deleted"]]
      BY <2>7 DEF Delete, Write
    <3>2. Whole([Nothing EXCEPT !.status = "deleted"])
      BY DEF Whole, Nothing
    <3>3. Whole(doc'[d])
      BY <1>1, <1>2, <2>2, <2>4, <3>1, <3>2
    <3>4. QED BY <2>4, <3>3
  <2>8. CASE Reindex(q)
    <3> DEFINE k == Reset(now, saw)
    <3>1. doc' = [doc EXCEPT ![e] = k]
      BY <2>8 DEF Reindex, Write
    <3>2. partly' = IF k.status = "indexing" /\ k.chunks # "pending"
                    THEN partly \cup {e} ELSE partly
      BY <2>8 DEF Reindex
    <3>3. d = e => ~(k.status = "indexing" /\ k.chunks # "pending")
      BY <3>2
    <3>4. d = e => Whole(k)
      BY <2>2, <2>5, <3>3, ResetWhole
    <3> HIDE DEF k
    <3>5. Whole(doc'[d])
      BY <1>1, <1>2, <2>2, <2>4, <3>1, <3>4
    <3>6. QED BY <2>4, <3>5
  <2>9. QED BY <1>5, <2>6, <2>7, <2>8
<1>6. ASSUME NEW w \in Worker, Ingest(w)
      PROVE  Goal
  <2> DEFINE e == About(w)
             saw == worker[w].saw
             now == doc[e]
             k == [now EXCEPT !.status = Updated(@, saw.status, "ready"),
                              !.chunks = Updated(@, saw.chunks, "ready")]
  <2>1. worker[w].at = "read" /\ Mine(w).type = "ingest" /\ UNCHANGED history
    BY <1>6 DEF Ingest
  <2>2. e \in Document /\ saw \in Knowledge /\ now \in Knowledge
    BY <1>1, <2>1, HasJob DEF JobsInv
  <2>3. d \notin replaced /\ d \notin partly
    BY <2>1 DEF history
  <2>4. CASE doc' = doc
    BY <1>3, <2>1, <2>4
  <2>5. CASE Exists(e)
    <3>1. doc' = [doc EXCEPT ![e].status = Updated(@, saw.status, "ready"),
                             ![e].chunks = Updated(@, saw.chunks, "ready")]
      BY <1>6, <2>5 DEF Ingest
    <3>2. doc' = [doc EXCEPT ![e] = k]
      BY <1>1, <2>2, <3>1
    <3>3. d = e => Whole(k)
      <4>1. ASSUME d = e
            PROVE  Whole(now) /\ Whole(saw) /\ saw.status \in {"indexing", "ready"}
        BY <2>1, <2>3, <4>1 DEF RowsAgree
      <4>2. QED BY <2>2, <4>1, IngestWhole
    <3> HIDE DEF k
    <3>4. Whole(doc'[d])
      BY <1>1, <1>2, <2>2, <2>3, <3>2, <3>3
    <3>5. QED BY <2>3, <3>4
  <2>6. QED BY <1>6, <2>4, <2>5 DEF Ingest
<1>7. ASSUME NEW w \in Worker, Build(w) \/ Store(w)
      PROVE  Goal
  <2> DEFINE e == About(w)
             now == doc[e]
  <2>1. worker[w].at # "idle" /\ UNCHANGED history
    BY <1>7 DEF Build, Store
  <2>2. e \in Document /\ now \in Knowledge
    BY <1>1, <2>1, HasJob DEF JobsInv
  <2>3. \/ doc' = doc
        \/ doc' = [doc EXCEPT ![e].built = @ \cup {Mine(w).type}]
        \/ doc' = [doc EXCEPT ![e].vectors = TRUE]
    BY <1>7 DEF Build, Store
  <2>4. doc'[d].status = doc[d].status /\ doc'[d].chunks = doc[d].chunks
    BY <1>1, <2>2, <2>3 DEF Knowledge
  <2>5. QED BY <1>2, <2>1, <2>4 DEF Whole, history
<1>8. \/ UNCHANGED <<doc, history>>
      \/ \E e \in Document : Approve(e)
      \/ \E q \in Request : Cancel(q) \/ Delete(q) \/ Reindex(q)
      \/ \E w \in Worker : Ingest(w) \/ Build(w) \/ Store(w)
  BY DEF Next, Owner, Handle, Ask, AskInVain, Claim, Break, Crash, RecoverStale,
         Read, Reserve, Start, Call, Answer, Judge, See, Complete, vars, history
<1> HIDE DEF Goal
<1>9. Goal
  BY <1>3, <1>4, <1>5, <1>6, <1>7, <1>8
<1>10. QED BY <1>9 DEF Goal

\* What requests have read of a document stays whole.
LEMMA RequestsWhole ==
    ASSUME JobsInv, RowsAgree, [Next]_vars,
           NEW d \in Document, d \notin replaced, d \notin partly,
           NEW q \in Request, request'[q] # None, request'[q].document = d
    PROVE  Whole(request'[q].saw)
<1>1. request = [p \in Request |-> request[p]]
  BY DEF JobsInv, RequestsKnow
<1>2. CASE request'[q] = request[q]
  BY <1>2 DEF RowsAgree
<1>3. ASSUME NEW p \in Request, request' = [request EXCEPT ![p] = None]
      PROVE  request'[q] = request[q]
  <2>1. DOMAIN request = Request
    BY <1>1
  <2>2. p # q
    BY <1>3, <2>1
  <2>3. QED BY <1>3, <2>1, <2>2
<1>4. ASSUME NEW p \in Request, NEW e \in Document,
             NEW op \in {"cancel", "delete", "reindex"}, Ask(p, e, op)
      PROVE  Whole(request'[q].saw)
  <2> DEFINE row == [op |-> op, document |-> e, saw |-> doc[e],
                     jobs |-> IF op = "cancel" THEN LatestActive(e)
                                               ELSE ActiveJobs(e)]
  <2>1. request' = [request EXCEPT ![p] = row]
    BY <1>4 DEF Ask
  <2>2. row.document = e /\ row.saw = doc[e]
    OBVIOUS
  <2> HIDE DEF row
  <2>3. DOMAIN request = Request
    BY <1>1
  <2>4. CASE p = q
    <3>1. request'[q] = row
      BY <2>1, <2>3, <2>4
    <3>2. e = d /\ request'[q].saw = doc[d]
      BY <2>2, <3>1
    <3>3. QED BY <3>2 DEF RowsAgree
  <2>5. CASE p # q
    BY <1>2, <2>1, <2>3, <2>5
  <2>6. QED BY <2>4, <2>5
<1>5. \/ request' = request
      \/ \E p \in Request : request' = [request EXCEPT ![p] = None]
      \/ \E p \in Request, e \in Document, op \in {"cancel", "delete", "reindex"} :
           Ask(p, e, op)
  BY DEF Next, Owner, Approve, Cancel, Delete, Reindex, AskInVain, Write, Claim, Handle,
         Break, Crash, RecoverStale, Read, Ingest, Build, Reserve, Start, Call, Answer,
         Judge, Store, See, Complete, vars
<1>6. QED BY <1>2, <1>3, <1>4, <1>5

\* A worker that goes to another step has not just read.
LEMMA GoesElsewhere ==
    ASSUME TypeOK, NEW w \in Worker, NEW at \in Steps
    PROVE  /\ Go(w, at) => worker'[w].at = at
           /\ ReturnDropped(w) => worker'[w].at = "done"
           /\ Fail(w) => worker'[w].at = "idle"
           /\ See(w) => worker'[w].at = "seen"
<1>1. worker \in [Worker -> Doing]
  BY DEF TypeOK
<1>2. ASSUME NEW row, worker' = [worker EXCEPT ![w] = row]
      PROVE  worker'[w] = row
  BY <1>1, <1>2
<1>3. ASSUME Go(w, at)
      PROVE  worker'[w].at = at
  <2> DEFINE row == [worker[w] EXCEPT !.at = at, !.saw = Nothing]
  <2>1. worker' = [worker EXCEPT ![w] = row] /\ row.at = at
    BY <1>1, <1>3 DEF Go, Doing
  <2> HIDE DEF row
  <2>2. QED BY <1>2, <2>1
<1>4. ASSUME ReturnDropped(w)
      PROVE  worker'[w].at = "done"
  <2> DEFINE row == [worker[w] EXCEPT !.at = "done", !.saw = Nothing, !.dropped = TRUE]
  <2>1. worker' = [worker EXCEPT ![w] = row] /\ row.at = "done"
    BY <1>1, <1>4 DEF ReturnDropped, Doing
  <2> HIDE DEF row
  <2>2. QED BY <1>2, <2>1
<1>5. ASSUME Fail(w)
      PROVE  worker'[w].at = "idle"
  <2>1. worker' = [worker EXCEPT ![w] = Resting]
    BY <1>5 DEF Fail
  <2>2. QED BY <1>2, <2>1 DEF Resting
<1>6. ASSUME See(w)
      PROVE  worker'[w].at = "seen"
  <2> DEFINE row == [worker[w] EXCEPT !.at = "seen", !.status = Mine(w).status]
  <2>1. worker' = [worker EXCEPT ![w] = row] /\ row.at = "seen"
    BY <1>1, <1>6 DEF See, Doing
  <2> HIDE DEF row
  <2>2. QED BY <1>2, <2>1
<1>7. QED BY <1>3, <1>4, <1>5, <1>6

\* Who has read a document has just read it, or had read it before.
LEMMA Readers ==
    ASSUME JobsInv, [Next]_vars, NEW w \in Worker, worker'[w].at = "read"
    PROVE  /\ worker[w].at # "idle"
           /\ worker'[w].job = worker[w].job
           /\ \/ worker'[w] = worker[w]
              \/ MayRead(w) /\ worker'[w].saw = doc[About(w)]
<1> USE DEF JobsInv, Return
<1>1. worker \in [Worker -> Doing]
  BY DEF TypeOK
<1>2. CASE worker'[w] = worker[w]
  BY <1>2
<1>3. ASSUME NEW v \in Worker, Takes(v)
      PROVE  worker'[w] = worker[w]
  BY <1>3 DEF Takes
<1>4. ASSUME NEW v \in Worker, Ends(v)
      PROVE  worker'[w] = worker[w]
  BY <1>1, <1>4 DEF Ends, Resting
<1>5. ASSUME NEW v \in Worker, Read(v), worker[v].at # "idle", GoesOn(v)
      PROVE  /\ worker[w].at # "idle"
             /\ worker'[w].job = worker[w].job
             /\ \/ worker'[w] = worker[w]
                \/ MayRead(w) /\ worker'[w].saw = doc[About(w)]
  <2>1. CASE v # w
    BY <1>2, <1>5, <2>1 DEF GoesOn
  <2>2. CASE v = w
    <3>1. worker'[w].job = worker[w].job
      BY <1>5, <2>2 DEF GoesOn
    <3>2. ~ReturnDropped(w) /\ ~Fail(w)
      BY GoesElsewhere DEF Steps
    <3>3. /\ MayRead(w)
          /\ worker' = [worker EXCEPT ![w].at = "read", ![w].saw = doc[About(w)]]
      BY <1>5, <2>2, <3>2 DEF Read
    <3>4. worker'[w].saw = doc[About(w)]
      BY <1>1, <3>3 DEF Doing
    <3>5. QED BY <1>5, <2>2, <3>1, <3>3, <3>4
  <2>3. QED BY <2>1, <2>2
<1>6. ASSUME NEW v \in Worker, Handle(v) \/ Break(v) \/ Crash(v), ~Read(v), GoesOn(v)
      PROVE  worker'[w] = worker[w]
  <2>1. CASE v # w
    BY <1>6, <2>1 DEF GoesOn
  <2>2. CASE v = w
    <3>1. \A at \in Steps \ {"read"} : ~Go(w, at)
      BY GoesElsewhere
    <3>2. ~ReturnDropped(w) /\ ~Fail(w) /\ ~See(w)
      BY GoesElsewhere DEF Steps
    <3>3. worker' # [worker EXCEPT ![w] = Resting]
      BY <1>1 DEF Resting
    <3>4. \/ Go(w, "done") \/ Go(w, "reserved") \/ Go(w, "running")
          \/ Go(w, "calling") \/ Go(w, "answered") \/ Go(w, "storing")
          \/ ReturnDropped(w) \/ Fail(w) \/ worker' = [worker EXCEPT ![w] = Resting]
      BY <1>6, <2>2, <3>2
      DEF Handle, Break, Crash, Ingest, Build, Reserve, Start, Call, Answer, Judge,
          Store, Complete, Unsettled
    <3>5. QED BY <3>1, <3>2, <3>3, <3>4 DEF Steps
  <2>3. QED BY <2>1, <2>2
<1>7. CASE worker' = worker
  BY <1>2, <1>7
<1>8. worker'[w] = worker[w] => worker[w].at # "idle"
  OBVIOUS
<1>9. \/ worker' = worker
      \/ \E v \in Worker : Takes(v)
      \/ \E v \in Worker : /\ Handle(v) \/ Break(v) \/ Crash(v)
                           /\ worker[v].at # "idle"
                           /\ GoesOn(v) \/ Ends(v)
  BY Kinds DEF Asked
<1>10. QED BY <1>2, <1>3, <1>4, <1>5, <1>6, <1>7, <1>9

\* The rows stay whole.
LEMMA RowsStay == JobsInv /\ RowsAgree /\ [Next]_vars => RowsAgree'
<1> SUFFICES ASSUME JobsInv, RowsAgree, [Next]_vars,
                    NEW d \in Document, d \notin replaced', d \notin partly'
             PROVE  /\ Whole(doc'[d])
                    /\ \A q \in Request :
                         request'[q] # None /\ request'[q].document = d
                           => Whole(request'[q].saw)
                    /\ \A w \in Worker :
                         worker'[w].at = "read" /\ Mine(w)'.type = "ingest"
                           /\ About(w)' = d =>
                             /\ Whole(worker'[w].saw)
                             /\ worker'[w].saw.status \in {"indexing", "ready"}
  BY DEF RowsAgree
<1>1. d \notin replaced /\ d \notin partly /\ Whole(doc'[d])
  BY DocumentsWhole
<1>2. ASSUME NEW w \in Worker, worker'[w].at = "read", Mine(w)'.type = "ingest",
             About(w)' = d
      PROVE  /\ Whole(worker'[w].saw)
             /\ worker'[w].saw.status \in {"indexing", "ready"}
  <2>1. /\ worker[w].at # "idle"
        /\ worker'[w].job = worker[w].job
        /\ \/ worker'[w] = worker[w]
           \/ MayRead(w) /\ worker'[w].saw = doc[About(w)]
    BY <1>2, Readers
  <2>2. Mine(w).type = "ingest" /\ About(w) = d
    BY <1>2, <2>1, NameHeld
  <2>3. Whole(doc[d])
    BY <1>1 DEF RowsAgree
  <2>4. CASE worker'[w] = worker[w]
    BY <1>1, <1>2, <2>2, <2>4 DEF RowsAgree
  <2>5. CASE MayRead(w) /\ worker'[w].saw = doc[About(w)]
    BY <2>2, <2>3, <2>5 DEF MayRead
  <2>6. QED BY <2>1, <2>4, <2>5
<1>3. QED BY <1>1, <1>2, RequestsWhole

\* A document is ready only with ready chunks: what an ingest or a request has
\* read before it writes was whole, and a column is written when it differs
\* from what was read.
THEOREM ReadySearchable == Spec => []ReadyIsSearchable
<1>1. Init => RowsAgree
  BY DEF Init, RowsAgree, Whole, Nothing, Resting
<1>2. RowsAgree => ReadyIsSearchable
  BY DEF RowsAgree, ReadyIsSearchable, Whole
<1>3. QED BY <1>1, <1>2, RowsStay, JobsAlways, PTL DEF Spec
=============================================================================
