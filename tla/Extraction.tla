----------------------------- MODULE Extraction -----------------------------
(***************************************************************************)
(* PDF extraction: what happens to the documents of one batch after the    *)
(* upload has answered 202.                                                *)
(*                                                                         *)
(* An upload spools its files, stores a PENDING job for each in one        *)
(* transaction and queues one background task per job.  The tasks of one   *)
(* upload run one after the other (Starlette awaits them in turn, and an   *)
(* exception out of one drops the rest); the tasks of different uploads    *)
(* run in different threads, at most Limit of them past the semaphore.     *)
(*                                                                         *)
(* Around them, three things go wrong: the batch is deleted, which         *)
(* cascades to the job rows; a database statement fails; the process dies. *)
(*                                                                         *)
(* Two things are shared with the other requests on the batch: the event   *)
(* loop, which an upload handler keeps from its last await to its answer,  *)
(* and the batch's row lock, which a refused request holds until the loop  *)
(* comes round to closing its session.  Documents studies those requests;  *)
(* here they are what the tasks meet of them.                              *)
(***************************************************************************)
EXTENDS Integers, Sequences, FiniteSets

CONSTANTS Uploads,     \* the upload requests
          Jobs,        \* one job per uploaded file
          Files,       \* Files[u]: the jobs of upload u, in the order of its files
          Limit,       \* max_concurrent_extractions
          MaxFaults    \* bound: in how many uploads a statement may fail

ASSUME FilesAssumption ==
  /\ Files \in [Uploads -> Seq(Jobs)]
  /\ \A u, v \in Uploads : \A i \in DOMAIN Files[u], k \in DOMAIN Files[v] :
       Files[u][i] = Files[v][k] => u = v /\ i = k
ASSUME LimitAssumption == Limit \in Nat \ {0} /\ MaxFaults \in Nat
ASSUME JobsAssumption == IsFiniteSet(Jobs)

VARIABLES batch,       \* TRUE while the import_batch row exists
          held,        \* a refused request of another kind holds the batch FOR UPDATE
          importing,   \* the handler of a CSV upload keeps the event loop
          status,      \* the extraction_job rows; "absent": no such row
          records,     \* the jobs whose records are in the table
          request,     \* request[u]: how far the upload's handler has got
          spooled,     \* the jobs whose temporary file is on disk
          queue,       \* queue[u]: the tasks of upload u left to run, the first one running
          pc,          \* how far the running task of a job has got
          permits,     \* the free permits of the semaphore
          faulty,      \* the uploads of which a statement has failed
          up           \* FALSE once the process has died

others == <<held, importing>>
vars == <<batch, status, records, others, request, spooled, queue, pc, permits, faulty, up>>
rows == <<batch, status, records>>

Settled == {"SUCCEEDED", "FAILED"}
JobStatus == {"PENDING", "PROCESSING"} \cup Settled
Admitted == {"admitted", "loaded", "extracting", "extracted", "found", "locked", "failing", "returning", "raising"}

TypeOK ==
  /\ batch \in BOOLEAN /\ up \in BOOLEAN /\ held \in BOOLEAN /\ importing \in BOOLEAN
  /\ status \in [Jobs -> JobStatus \cup {"absent"}]
  /\ records \subseteq Jobs /\ spooled \subseteq Jobs
  /\ request \in [Uploads -> {"none", "spooled", "handling", "created", "answered", "refused", "closed"}]
  /\ queue \in [Uploads -> Seq(Jobs)]
  /\ pc \in [Jobs -> Admitted \cup {"none", "waiting"}]
  /\ permits \in 0..Limit
  /\ faulty \subseteq Uploads /\ Cardinality(faulty) <= MaxFaults

Init ==
  /\ batch = TRUE /\ up = TRUE /\ held = FALSE /\ importing = FALSE
  /\ status = [j \in Jobs |-> "absent"]
  /\ records = {} /\ spooled = {}
  /\ request = [u \in Uploads |-> "none"]
  /\ queue = [u \in Uploads |-> <<>>]
  /\ pc = [j \in Jobs |-> "none"]
  /\ permits = Limit
  /\ faulty = {}

FilesOf(u) == {Files[u][i] : i \in DOMAIN Files[u]}
UploadOf(j) == CHOOSE u \in Uploads : j \in FilesOf(u)

Goto(j, place) == pc' = [pc EXCEPT ![j] = place]

\* A statement of the upload, or of one of its tasks, fails: a lost connection, a full
\* disk.  SQLAlchemy rolls the transaction back at once, and its locks are gone.
Fault(u) ==
  /\ faulty' = faulty \cup {u}
  /\ Cardinality(faulty') <= MaxFaults

\* Who is in the way of a KEY SHARE on the batch, that an insert takes, and of a
\* FOR UPDATE, or a DELETE.  A batch that is gone gives no row to wait for.
Shareable == batch => ~held /\ \A j \in Jobs : pc[j] # "locked"
Lockable == Shareable /\ (batch => \A u \in Uploads : request[u] # "refused")

LoopFree == ~importing /\ \A u \in Uploads : request[u] \notin {"handling", "created"}

-----------------------------------------------------------------------------
(***************************************************************************)
(* upload_pdfs.  Spooling awaits the client; from there to the answer the  *)
(* handler keeps the event loop, so no two uploads are in that part at     *)
(* once, but deletions and tasks run in other threads.  A file refused     *)
(* while it is spooled, or as a duplicate, leaves nothing: not here.       *)
(***************************************************************************)
Advance(u, place) == request' = [request EXCEPT ![u] = place]

Spool(u) ==
  /\ up /\ batch /\ LoopFree
  /\ request[u] = "none"
  /\ spooled' = spooled \cup FilesOf(u)
  /\ Advance(u, "spooled")
  /\ UNCHANGED <<rows, others, queue, pc, permits, faulty, up>>

\* The last await returns.
Enter(u) ==
  /\ request[u] = "spooled" /\ LoopFree
  /\ Advance(u, "handling")
  /\ UNCHANGED <<rows, others, spooled, queue, pc, permits, faulty, up>>

\* store and create_jobs: the documents and a PENDING job for each in one commit,
\* refused whole when the batch is gone or a statement fails.  A file that cannot be
\* written leaves the transaction open, with its KEY SHARE, until the session is closed.
CreateJobs(u) ==
  /\ request[u] = "handling" /\ Shareable
  /\ \/ /\ batch
        /\ status' = [j \in Jobs |-> IF j \in FilesOf(u) THEN "PENDING" ELSE status[j]]
        /\ Advance(u, "created")
        /\ UNCHANGED faulty
     \/ ~batch /\ Advance(u, "closed") /\ UNCHANGED <<status, faulty>>
     \/ Fault(u) /\ (Advance(u, "refused") \/ Advance(u, "closed")) /\ UNCHANGED status
  /\ UNCHANGED <<batch, records, others, spooled, queue, pc, permits, up>>

\* session.refresh of every job, then one task for each.  A batch deleted between
\* the commit and the refresh has taken the rows: the request ends in an error.
QueueTasks(u) ==
  /\ request[u] = "created"
  /\ \/ batch /\ queue' = [queue EXCEPT ![u] = Files[u]] /\ Advance(u, "answered") /\ UNCHANGED faulty
     \/ ~batch /\ Advance(u, "closed") /\ UNCHANGED <<queue, faulty>>
     \/ Fault(u) /\ Advance(u, "closed") /\ UNCHANGED queue
  /\ UNCHANGED <<rows, others, spooled, pc, permits, up>>

\* session.close() of a refused upload: the event loop has to come round to it.
Close(u) ==
  /\ request[u] = "refused" /\ LoopFree
  /\ Advance(u, "closed")
  /\ UNCHANGED <<rows, others, spooled, queue, pc, permits, faulty, up>>

\* The event loop hands the next task of an upload to the thread pool.
Start(j) ==
  /\ up /\ LoopFree /\ pc[j] = "none"
  /\ \E u \in Uploads : queue[u] # <<>> /\ Head(queue[u]) = j
  /\ Goto(j, "waiting")
  /\ UNCHANGED <<rows, others, request, spooled, queue, permits, faulty, up>>

\* Mutant of Acquire: no semaphore.
AcquireUnbounded(j) ==
  /\ pc[j] = "waiting"
  /\ permits' = permits - 1
  /\ Goto(j, "admitted")
  /\ UNCHANGED <<rows, others, request, spooled, queue, faulty, up>>

\* with get_semaphore(...), session_factory()
Acquire(j) ==
  /\ pc[j] = "waiting" /\ permits > 0
  /\ permits' = permits - 1
  /\ Goto(j, "admitted")
  /\ UNCHANGED <<rows, others, request, spooled, queue, faulty, up>>

\* session.get(ExtractionJob, job_id): a job that vanished ends the task quietly.
LoadJob(j) ==
  /\ pc[j] = "admitted"
  /\ \/ Goto(j, IF status[j] = "absent" THEN "returning" ELSE "loaded") /\ UNCHANGED faulty
     \/ Fault(UploadOf(j)) /\ Goto(j, "raising")
  /\ UNCHANGED <<rows, others, request, spooled, queue, permits, up>>

\* job.status = PROCESSING, committed at once.  This is outside the try: an UPDATE
\* that matches no row (StaleDataError) or fails leaves the function.
MarkProcessing(j) ==
  /\ pc[j] = "loaded"
  /\ \/ /\ status[j] # "absent"
        /\ status' = [status EXCEPT ![j] = "PROCESSING"]
        /\ Goto(j, "extracting")
        /\ UNCHANGED faulty
     \/ /\ status[j] = "absent"
        /\ Goto(j, "raising")
        /\ UNCHANGED <<status, faulty>>
     \/ Fault(UploadOf(j)) /\ Goto(j, "raising") /\ UNCHANGED status
  /\ UNCHANGED <<batch, records, others, request, spooled, queue, permits, up>>

\* Mutant of Extract: only persistence is guarded, not the provider call.
ExtractUnguarded(j) ==
  /\ pc[j] = "extracting"
  /\ \/ j \in spooled /\ Goto(j, "extracted")
     \/ Goto(j, "raising")
  /\ UNCHANGED <<rows, others, request, spooled, queue, permits, faulty, up>>

\* provider.extract on the spooled file: any exception at all becomes a failed job.
Extract(j) ==
  /\ pc[j] = "extracting"
  /\ \/ j \in spooled /\ Goto(j, "extracted")
     \/ Goto(j, "failing")
  /\ UNCHANGED <<rows, others, request, spooled, queue, permits, faulty, up>>

\* session.get(ImportBatch, job.batch_id)
FindBatch(j) ==
  /\ pc[j] = "extracted"
  /\ \/ Goto(j, IF batch THEN "found" ELSE "failing") /\ UNCHANGED faulty
     \/ Fault(UploadOf(j)) /\ Goto(j, "failing")
  /\ UNCHANGED <<rows, others, request, spooled, queue, permits, up>>

\* lock_batch waits for whoever holds the batch; the lock keeps a deletion out until
\* the task's transaction ends.
LockBatch(j) ==
  /\ pc[j] = "found" /\ Lockable
  /\ \/ Goto(j, "locked") /\ UNCHANGED faulty
     \/ Fault(UploadOf(j)) /\ Goto(j, "failing")
  /\ UNCHANGED <<rows, others, request, spooled, queue, permits, up>>

\* Mutant of PersistRecords: the records are committed before the job's outcome.
PersistInTwoCommits(j) ==
  /\ pc[j] = "locked" /\ batch
  /\ records' = records \cup {j}
  /\ IF j \in records
     THEN status' = [status EXCEPT ![j] = "SUCCEEDED"] /\ Goto(j, "returning")
     ELSE UNCHANGED <<status, pc>>
  /\ UNCHANGED <<batch, others, request, spooled, queue, permits, faulty, up>>

\* persist_records and the job's outcome in one commit; a batch that was gone before
\* it could be locked is refused by the foreign key.
PersistRecords(j) ==
  /\ pc[j] = "locked"
  /\ \/ /\ batch
        /\ records' = records \cup {j}
        /\ status' = [status EXCEPT ![j] = "SUCCEEDED"]
        /\ Goto(j, "returning")
        /\ UNCHANGED faulty
     \/ /\ ~batch
        /\ Goto(j, "failing")
        /\ UNCHANGED <<status, records, faulty>>
     \/ Fault(UploadOf(j)) /\ Goto(j, "failing") /\ UNCHANGED <<status, records>>
  /\ UNCHANGED <<batch, others, request, spooled, queue, permits, up>>

\* _fail.  When the job's row is gone the rollback has expired the job, and reading
\* job.id raises ObjectDeletedError; or, no transaction having begun, the UPDATE
\* raises StaleDataError.  Its "if job is None" is never reached with such a row.
Fail(j) ==
  /\ pc[j] = "failing"
  /\ \/ /\ status[j] # "absent"
        /\ status' = [status EXCEPT ![j] = "FAILED"]
        /\ Goto(j, "returning")
        /\ UNCHANGED faulty
     \/ /\ status[j] = "absent"
        /\ Goto(j, "raising")
        /\ UNCHANGED <<status, faulty>>
     \/ Fault(UploadOf(j)) /\ Goto(j, "raising") /\ UNCHANGED status
  /\ UNCHANGED <<batch, records, others, request, spooled, queue, permits, up>>

\* Mutant of Return: the spooled file is left to someone else.
ReturnWithoutUnlink(j) ==
  /\ pc[j] = "returning"
  /\ queue' = [queue EXCEPT ![UploadOf(j)] = Tail(@)]
  /\ permits' = permits + 1
  /\ Goto(j, "none")
  /\ UNCHANGED <<rows, others, request, spooled, faulty, up>>

\* Mutant of Return: the permit is kept.
ReturnWithoutRelease(j) ==
  /\ pc[j] = "returning"
  /\ queue' = [queue EXCEPT ![UploadOf(j)] = Tail(@)]
  /\ spooled' = spooled \ {j}
  /\ Goto(j, "none")
  /\ UNCHANGED <<rows, others, request, permits, faulty, up>>

\* The task returns: the session and the permit are released, the spooled file is
\* removed (run_extraction's finally), and the upload's next task may start.
Return(j) ==
  /\ pc[j] = "returning"
  /\ queue' = [queue EXCEPT ![UploadOf(j)] = Tail(@)]
  /\ permits' = permits + 1
  /\ spooled' = spooled \ {j}
  /\ Goto(j, "none")
  /\ UNCHANGED <<rows, others, request, faulty, up>>

\* Mutant of Raise: an exception skips the release of the permit.
RaiseWithoutRelease(j) ==
  /\ pc[j] = "raising"
  /\ queue' = [queue EXCEPT ![UploadOf(j)] = <<>>]
  /\ spooled' = spooled \ {j}
  /\ Goto(j, "none")
  /\ UNCHANGED <<rows, others, request, permits, faulty, up>>

\* The task raises: the same cleaning up, and the upload's other tasks are dropped.
Raise(j) ==
  /\ pc[j] = "raising"
  /\ queue' = [queue EXCEPT ![UploadOf(j)] = <<>>]
  /\ permits' = permits + 1
  /\ spooled' = spooled \ {j}
  /\ Goto(j, "none")
  /\ UNCHANGED <<rows, others, request, faulty, up>>

-----------------------------------------------------------------------------
(***************************************************************************)
(* The other requests on the batch.                                        *)
(***************************************************************************)
\* delete_batch: the rows of the batch's jobs and records cascade away with it.
DeleteBatch ==
  /\ up /\ batch /\ Lockable
  /\ batch' = FALSE
  /\ status' = [j \in Jobs |-> "absent"]
  /\ records' = {}
  /\ UNCHANGED <<others, request, spooled, queue, pc, permits, faulty, up>>

\* A correction or an approval is refused after it took the lock.  One that is
\* accepted commits in its own thread: it holds nobody up for long.
RefuseReview ==
  /\ up /\ batch /\ Lockable
  /\ held' = TRUE
  /\ UNCHANGED <<rows, importing, request, spooled, queue, pc, permits, faulty, up>>

CloseReview ==
  /\ up /\ held /\ LoopFree
  /\ held' = FALSE
  /\ UNCHANGED <<rows, importing, request, spooled, queue, pc, permits, faulty, up>>

\* upload_csv: its handler keeps the loop and waits for the lock.  It commits, or is
\* refused and has its session closed later.
BeginImport ==
  /\ up /\ LoopFree
  /\ importing' = TRUE
  /\ UNCHANGED <<rows, held, request, spooled, queue, pc, permits, faulty, up>>

EndImport ==
  /\ importing /\ Lockable
  /\ importing' = FALSE
  /\ UNCHANGED held \/ (batch /\ held' = TRUE)
  /\ UNCHANGED <<rows, request, spooled, queue, pc, permits, faulty, up>>

\* The process dies: what was in memory is gone, what was committed or on disk stays.
Crash ==
  /\ up
  /\ up' = FALSE /\ held' = FALSE /\ importing' = FALSE
  /\ queue' = [u \in Uploads |-> <<>>]
  /\ request' = [u \in Uploads |-> IF request[u] = "answered" THEN "answered" ELSE "closed"]
  /\ pc' = [j \in Jobs |-> "none"]
  /\ permits' = Limit
  /\ UNCHANGED <<rows, spooled, faulty>>

Proceed(u) == Enter(u) \/ CreateJobs(u) \/ QueueTasks(u) \/ Close(u)

Run(j) ==
  \/ Start(j) \/ Acquire(j) \/ LoadJob(j) \/ MarkProcessing(j) \/ Extract(j)
  \/ FindBatch(j) \/ LockBatch(j) \/ PersistRecords(j) \/ Fail(j) \/ Return(j) \/ Raise(j)

Elsewhere == RefuseReview \/ CloseReview \/ BeginImport \/ EndImport

Next ==
  \/ \E u \in Uploads : Spool(u) \/ Proceed(u)
  \/ \E j \in Jobs : Run(j)
  \/ DeleteBatch
  \/ Elsewhere
  \/ Crash

\* What waits for the event loop, for the row lock or for a permit goes on if these come
\* free again and again: the loop and PostgreSQL serve those who wait in order.  That
\* some handler and some task do is enough, as they take finitely many steps.  Nobody has
\* to upload, import, review, delete or crash.
Fairness ==
  /\ SF_vars(\E u \in Uploads : Proceed(u))
  /\ SF_vars(\E j \in Jobs : Run(j))
  /\ SF_vars(CloseReview \/ EndImport)

Spec == Init /\ [][Next]_vars /\ Fairness

-----------------------------------------------------------------------------
(***************************************************************************)
(* Properties.                                                             *)
(***************************************************************************)

\* "ONE commit for the records and the job outcome together": at no moment, not
\* even after a crash, are there records of a job that is not SUCCEEDED, or a
\* SUCCEEDED job without its records.
JobsAndRecordsAgree == \A j \in Jobs : j \in records <=> status[j] = "SUCCEEDED"

\* The semaphore is exact: every permit is free or held by one admitted task,
\* whichever way the tasks before it ended.
PermitsAccounted == permits + Cardinality({j \in Jobs : pc[j] \in Admitted}) = Limit

\* The tasks that remain, and the jobs a handler is about to queue.
Owned(j) ==
  LET u == UploadOf(j)
  IN  request[u] = "created" \/ \E i \in DOMAIN queue[u] : queue[u][i] = j

\* Nothing but a failed statement of its own upload, a deletion or a dead process leaves
\* a stored job that no task will settle: no error of a document does, of its own or of
\* another file, nor does any failure of another upload.
NoJobAbandoned ==
  batch /\ up =>
    \A j \in Jobs : status[j] \in {"PENDING", "PROCESSING"} => Owned(j) \/ UploadOf(j) \in faulty

\* Likewise for the temporary files: each has a handler or a task to remove it.
NoSpoolAbandoned ==
  batch /\ up =>
    \A j \in spooled :
      request[UploadOf(j)] \in {"spooled", "handling"} \/ Owned(j) \/ UploadOf(j) \in faulty

\* The handler that keeps the event loop waits for a lock whose holder needs the loop:
\* nothing gets out of it but the end of the process.
Hung ==
  /\ batch
  /\ \/ held /\ \E u \in Uploads : request[u] = "handling"
     \/ importing /\ (held \/ \E u \in Uploads : request[u] = "refused")

\* The interface polls a job until it settles, so it must: unless its batch is
\* deleted, the server hangs or dies, or a statement of its upload fails.
EveryJobSettles ==
  \A j \in Jobs : status[j] = "PENDING" ~>
                   status[j] \in Settled \/ ~batch \/ ~up \/ UploadOf(j) \in faulty \/ Hung

\* A task waiting for the semaphore gets it, whatever happens to the tasks that hold
\* it, failures, deletions and exceptions included: unless the server hangs, as a
\* task that waits for the row lock then keeps its permit.
WaitersAreAdmitted == \A j \in Jobs : pc[j] = "waiting" ~> pc[j] # "waiting" \/ Hung

(***************************************************************************)
(* The inductive invariant of the proofs: it implies the safety invariants *)
(* above.                                                                  *)
(***************************************************************************)

\* A queue holds files of its own upload, none twice, and is filled by the answer.
\* Of an upload's tasks only the first one runs.
TasksInOrder ==
  /\ \A u \in Uploads :
       /\ \A i \in DOMAIN queue[u] : queue[u][i] \in FilesOf(u)
       /\ \A i, k \in DOMAIN queue[u] : queue[u][i] = queue[u][k] => i = k
       /\ queue[u] # <<>> => request[u] = "answered"
  /\ \A j \in Jobs : pc[j] # "none" => \E u \in Uploads : queue[u] # <<>> /\ Head(queue[u]) = j

\* What a job's row may say while its task is at a place.
Plausible(place) ==
  CASE place \in {"none", "waiting", "admitted", "loaded"} -> {"PENDING", "absent"}
    [] place \in {"extracting", "extracted", "found", "locked", "failing"} -> {"PROCESSING", "absent"}
    [] place = "returning" -> Settled \cup {"absent"}
    [] OTHER -> JobStatus \cup {"absent"}

\* A job's row is created by its upload, goes with its task until the task ends, and
\* is absent only before that or after the batch was deleted.
RowsFollowTasks ==
  \A u \in Uploads : \A j \in FilesOf(u) :
    /\ request[u] \in {"none", "spooled", "handling"} => status[j] = "absent"
    /\ request[u] = "created" => status[j] \in {"PENDING", "absent"}
    /\ (\E i \in DOMAIN queue[u] : queue[u][i] = j) => status[j] \in Plausible(pc[j])
    /\ batch /\ request[u] \in {"created", "answered"} => status[j] # "absent"

\* Only a file of an upload is spooled or has a job.
NothingStrays ==
  \A j \in Jobs : j \in spooled \/ status[j] # "absent" => \E u \in Uploads : j \in FilesOf(u)

\* A task raises only over a deleted batch or a failed statement.
RaisingHasCause == \A j \in Jobs : pc[j] = "raising" => ~batch \/ UploadOf(j) \in faulty

Inductive ==
  /\ TypeOK
  /\ PermitsAccounted
  /\ JobsAndRecordsAgree
  /\ TasksInOrder
  /\ RowsFollowTasks
  /\ NothingStrays
  /\ RaisingHasCause
  /\ NoJobAbandoned
  /\ NoSpoolAbandoned

\* "It must never raise": the docstring of run_extraction.
NeverRaises == \A j \in Jobs : pc[j] # "raising"
=============================================================================
