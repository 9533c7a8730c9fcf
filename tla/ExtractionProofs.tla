-------------------------- MODULE ExtractionProofs --------------------------
(***************************************************************************)
(* What every run of Extraction preserves, proved for any uploads, files,  *)
(* number of permits and number of failures.                               *)
(*                                                                         *)
(* The argument: a queue is what is left of its upload's files and only    *)
(* its first task runs (TasksInOrder), so a task is the only writer of its *)
(* job's row, which says what the task has done so far (RowsFollowTasks):  *)
(* the row is never SUCCEEDED before the one step that also inserts the    *)
(* records, and is settled when the task returns.  A task that raises, and *)
(* so drops the tasks behind it, met a deleted batch or a failed statement *)
(* (RaisingHasCause), and only then may jobs and files of its upload, and  *)
(* of no other, be abandoned.                                              *)
(***************************************************************************)
EXTENDS Extraction, FiniteSetTheorems, TLAPS

(***************************************************************************)
(* Files and uploads.                                                      *)
(***************************************************************************)

\* A file belongs to one upload, which UploadOf finds.
LEMMA UploadOfFile ==
  ASSUME NEW u \in Uploads, NEW j \in FilesOf(u)
  PROVE  UploadOf(j) = u /\ j \in Jobs
<1>1. \A v \in Uploads : j \in FilesOf(v) => v = u
  BY FilesAssumption DEF FilesOf
<1>2. j \in Jobs
  BY FilesAssumption DEF FilesOf
<1> QED BY <1>1, <1>2 DEF UploadOf

\* The file of a running task heads the queue of its upload.
LEMMA RunningHeadsQueue ==
  ASSUME TypeOK, TasksInOrder, NEW j \in Jobs, pc[j] # "none"
  PROVE  /\ UploadOf(j) \in Uploads
         /\ j \in FilesOf(UploadOf(j))
         /\ queue[UploadOf(j)] # <<>>
         /\ queue[UploadOf(j)][1] = j
         /\ 1 \in DOMAIN queue[UploadOf(j)]
         /\ request[UploadOf(j)] = "answered"
<1>1. PICK u \in Uploads : queue[u] # <<>> /\ Head(queue[u]) = j
  BY DEF TasksInOrder
<1>2. queue[u] \in Seq(Jobs)
  BY DEF TypeOK
<1>3. 1 \in DOMAIN queue[u] /\ queue[u][1] = j
  BY <1>1, <1>2
<1>4. j \in FilesOf(u) /\ request[u] = "answered"
  BY <1>1, <1>3 DEF TasksInOrder
<1>5. UploadOf(j) = u
  BY <1>4, UploadOfFile
<1> QED BY <1>1, <1>3, <1>4, <1>5

\* The account of the failures may only grow.
FaultyGrows == faulty' \subseteq Uploads /\ Cardinality(faulty') <= MaxFaults /\ faulty \subseteq faulty'

\* A failure is put down to its upload.
LEMMA FaultIsCounted ==
  ASSUME TypeOK, NEW u \in Uploads, Fault(u)
  PROVE  FaultyGrows /\ u \in faulty'
BY DEF Fault, FaultyGrows, TypeOK

\* No failure, no change.
LEMMA NoFault == TypeOK /\ UNCHANGED faulty => FaultyGrows
BY DEF FaultyGrows, TypeOK

(***************************************************************************)
(* Permits.                                                                *)
(***************************************************************************)
Holders == {j \in Jobs : pc[j] \in Admitted}

\* The tasks past the semaphore are finitely many.
LEMMA HoldersFinite == IsFiniteSet(Holders) /\ Cardinality(Holders) \in Nat
BY JobsAssumption, FS_Subset, FS_CardinalityType DEF Holders

\* A task that goes on past the semaphore leaves the account as it is.
LEMMA PermitsKept ==
  ASSUME PermitsAccounted, TypeOK, NEW j \in Jobs, NEW place \in Admitted,
         pc[j] \in Admitted, pc' = [pc EXCEPT ![j] = place], permits' = permits
  PROVE  PermitsAccounted'
<1>1. {k \in Jobs : pc'[k] \in Admitted} = {k \in Jobs : pc[k] \in Admitted}
  BY DEF TypeOK
<1> QED BY <1>1 DEF PermitsAccounted

\* A task that ends gives its permit back.
LEMMA PermitReleased ==
  ASSUME PermitsAccounted, TypeOK, NEW j \in Jobs,
         pc[j] \in Admitted, pc' = [pc EXCEPT ![j] = "none"], permits' = permits + 1
  PROVE  PermitsAccounted' /\ permits' \in 0..Limit
<1>1. {k \in Jobs : pc'[k] \in Admitted} = Holders \ {j}
  BY DEF TypeOK, Holders, Admitted
<1>2. Cardinality(Holders \ {j}) = Cardinality(Holders) - 1
  BY HoldersFinite, FS_RemoveElement DEF Holders
<1>3. permits + Cardinality(Holders) = Limit
  BY DEF PermitsAccounted, Holders
<1>4. Cardinality(Holders \ {j}) \in Nat
  BY HoldersFinite, FS_RemoveElement, FS_CardinalityType
<1>5. permits' + Cardinality(Holders \ {j}) = Limit
  BY <1>2, <1>3, HoldersFinite, LimitAssumption DEF TypeOK
<1>6. permits' \in 0..Limit
  BY <1>4, <1>5, LimitAssumption DEF TypeOK
<1>7. PermitsAccounted'
  BY <1>1, <1>5 DEF PermitsAccounted
<1> QED BY <1>6, <1>7

\* A task that is admitted takes one.
LEMMA PermitTaken ==
  ASSUME PermitsAccounted, TypeOK, NEW j \in Jobs,
         pc[j] = "waiting", pc' = [pc EXCEPT ![j] = "admitted"], permits' = permits - 1
  PROVE  PermitsAccounted'
<1>1. {k \in Jobs : pc'[k] \in Admitted} = Holders \cup {j}
  BY DEF TypeOK, Holders, Admitted
<1>2. Cardinality(Holders \cup {j}) = Cardinality(Holders) + 1
  BY HoldersFinite, FS_AddElement DEF Holders, Admitted
<1>3. permits + Cardinality(Holders) = Limit
  BY DEF PermitsAccounted, Holders
<1>4. permits' + Cardinality(Holders \cup {j}) = Limit
  BY <1>2, <1>3, HoldersFinite, LimitAssumption DEF TypeOK
<1> QED BY <1>1, <1>4 DEF PermitsAccounted

\* A task that is not past the semaphore before or after a step does not count.
LEMMA PermitsUntouched ==
  ASSUME PermitsAccounted, TypeOK, NEW j \in Jobs, NEW place,
         pc[j] \notin Admitted, place \notin Admitted, pc' = [pc EXCEPT ![j] = place], permits' = permits
  PROVE  PermitsAccounted'
<1>1. {k \in Jobs : pc'[k] \in Admitted} = {k \in Jobs : pc[k] \in Admitted}
  BY DEF TypeOK
<1> QED BY <1>1 DEF PermitsAccounted

(***************************************************************************)
(* The inductive invariant, action by action.                              *)
(***************************************************************************)

\* Before any upload the invariant holds.
LEMMA InitInductive == Init => Inductive
<1> SUFFICES ASSUME Init PROVE Inductive
  OBVIOUS
<1> USE DEF Init
<1>1. TypeOK
  <2>1. faulty \subseteq Uploads /\ Cardinality(faulty) <= MaxFaults
    BY LimitAssumption, FS_EmptySet
  <2>2. queue \in [Uploads -> Seq(Jobs)]
    OBVIOUS
  <2>3. permits \in 0..Limit
    BY LimitAssumption
  <2>4. status \in [Jobs -> JobStatus \cup {"absent"}] /\ pc \in [Jobs -> Admitted \cup {"none", "waiting"}]
    BY DEF JobStatus
  <2> QED BY <2>1, <2>2, <2>3, <2>4 DEF TypeOK
<1>2. PermitsAccounted
  <2>1. {j \in Jobs : pc[j] \in Admitted} = {}
    BY DEF Admitted
  <2>2. Cardinality({j \in Jobs : pc[j] \in Admitted}) = 0
    BY <2>1, FS_EmptySet
  <2> QED BY <2>2, LimitAssumption DEF PermitsAccounted
<1>3. JobsAndRecordsAgree /\ NothingStrays /\ RaisingHasCause
  BY DEF JobsAndRecordsAgree, NothingStrays, RaisingHasCause
<1>4. TasksInOrder
  BY DEF TasksInOrder
<1>5. RowsFollowTasks
  BY UploadOfFile DEF RowsFollowTasks
<1>6. NoJobAbandoned /\ NoSpoolAbandoned
  BY DEF NoJobAbandoned, NoSpoolAbandoned
<1> QED BY <1>1, <1>2, <1>3, <1>4, <1>5, <1>6 DEF Inductive

\* A statement of a running task: the task goes on past the semaphore, and its job's
\* row says what it may say there.  The six statements of a task are cases of this.
LEMMA TaskStep ==
  ASSUME Inductive, NEW j \in Jobs, pc[j] \in Admitted,
         NEW place \in Admitted, NEW s \in Plausible(place),
         pc' = [pc EXCEPT ![j] = place],
         status' = [status EXCEPT ![j] = s], s = "absent" <=> status[j] = "absent",
         records' = IF s = "SUCCEEDED" THEN records \cup {j} ELSE records,
         j \in records => s = "SUCCEEDED",
         FaultyGrows, place = "raising" => ~batch \/ UploadOf(j) \in faulty',
         UNCHANGED <<batch, others, request, spooled, queue, permits, up>>
  PROVE  Inductive'
<1> USE DEF Inductive, FaultyGrows, others
<1> DEFINE u == UploadOf(j)
<1>0. /\ u \in Uploads /\ j \in FilesOf(u) /\ queue[u] # <<>> /\ queue[u][1] = j
      /\ 1 \in DOMAIN queue[u] /\ request[u] = "answered"
  BY RunningHeadsQueue DEF Admitted
<1>01. s \in JobStatus \cup {"absent"}
  BY DEF Plausible, JobStatus, Settled, Admitted
<1>1. TypeOK'
  BY <1>01 DEF TypeOK
<1>2. PermitsAccounted'
  BY PermitsKept
<1>3. JobsAndRecordsAgree'
  BY DEF JobsAndRecordsAgree, TypeOK
<1>4. TasksInOrder'
  <2>1. ASSUME NEW k \in Jobs, pc'[k] # "none" PROVE pc[k] # "none"
    BY <2>1 DEF TypeOK, Admitted
  <2> QED BY <2>1 DEF TasksInOrder
<1>5. RowsFollowTasks'
  <2> SUFFICES ASSUME NEW v \in Uploads, NEW k \in FilesOf(v)
               PROVE  /\ request[v] \in {"none", "spooled", "handling"} => status'[k] = "absent"
                      /\ request[v] = "created" => status'[k] \in {"PENDING", "absent"}
                      /\ (\E i \in DOMAIN queue[v] : queue[v][i] = k) => status'[k] \in Plausible(pc'[k])
                      /\ batch /\ request[v] \in {"created", "answered"} => status'[k] # "absent"
    BY DEF RowsFollowTasks
  <2>0. k \in Jobs /\ UploadOf(k) = v
    BY UploadOfFile
  <2>1. CASE k = j
    <3>1. status'[k] = s /\ pc'[k] = place /\ request[v] = "answered"
      BY <1>0, <2>0, <2>1 DEF TypeOK
    <3> QED BY <2>1, <3>1 DEF RowsFollowTasks
  <2>2. CASE k # j
    <3>1. status'[k] = status[k] /\ pc'[k] = pc[k]
      BY <2>0, <2>2 DEF TypeOK
    <3> QED BY <3>1 DEF RowsFollowTasks
  <2> QED BY <2>1, <2>2
<1>6. NothingStrays'
  BY <1>0 DEF NothingStrays, TypeOK
<1>7. RaisingHasCause'
  BY DEF RaisingHasCause, TypeOK
<1>8. \A k \in Jobs : Owned(k)' <=> Owned(k)
  BY DEF Owned
<1>9. NoJobAbandoned'
  <2> SUFFICES ASSUME batch, up, NEW k \in Jobs, status'[k] \in {"PENDING", "PROCESSING"}, UploadOf(k) \notin faulty
               PROVE  Owned(k)
    BY <1>8 DEF NoJobAbandoned
  <2>2. CASE k = j
    BY <1>0, <2>2 DEF Owned
  <2>3. CASE k # j
    BY <2>3 DEF NoJobAbandoned, TypeOK
  <2> QED BY <2>2, <2>3
<1>10. NoSpoolAbandoned'
  <2>2. spooled \subseteq Jobs
    BY DEF TypeOK
  <2> QED BY <1>8, <2>2 DEF NoSpoolAbandoned
<1> QED BY <1>1, <1>2, <1>3, <1>4, <1>5, <1>6, <1>7, <1>9, <1>10

\* A running task's job is where RowsFollowTasks says.
LEMMA RunningRow ==
  ASSUME Inductive, NEW j \in Jobs, pc[j] \in Admitted
  PROVE  /\ status[j] \in Plausible(pc[j])
         /\ batch => status[j] # "absent"
         /\ j \in records <=> status[j] = "SUCCEEDED"
         /\ Fault(UploadOf(j)) => FaultyGrows /\ UploadOf(j) \in faulty'
<1>1. /\ UploadOf(j) \in Uploads /\ j \in FilesOf(UploadOf(j)) /\ queue[UploadOf(j)][1] = j
      /\ 1 \in DOMAIN queue[UploadOf(j)] /\ request[UploadOf(j)] = "answered"
  BY RunningHeadsQueue DEF Admitted, Inductive
<1> QED BY <1>1, FaultIsCounted DEF Inductive, RowsFollowTasks, JobsAndRecordsAgree

\* session.get of the job: it goes on, ends quietly or raises.
LEMMA LoadJobInductive ==
  ASSUME Inductive, NEW j \in Jobs, LoadJob(j)
  PROVE  Inductive'
<1> USE DEF LoadJob, rows, Goto
<1>0. status[j] \in {"PENDING", "absent"} /\ (batch => status[j] # "absent") /\ pc[j] \in Admitted
      /\ j \notin records
  BY RunningRow DEF Plausible, Admitted
<1>1. PICK place \in {"returning", "loaded", "raising"} :
        /\ pc' = [pc EXCEPT ![j] = place]
        /\ place = "returning" <=> status[j] = "absent" /\ place # "raising"
        /\ place = "raising" => Fault(UploadOf(j))
  OBVIOUS
<1>2. status' = [status EXCEPT ![j] = status[j]] /\ FaultyGrows /\ (Fault(UploadOf(j)) => UploadOf(j) \in faulty')
  BY <1>0, RunningRow, NoFault DEF Inductive, TypeOK
<1>3. status[j] \in Plausible(place) /\ place \in Admitted
  BY <1>0, <1>1 DEF Plausible, Admitted, JobStatus
<1> QED BY <1>0, <1>1, <1>2, <1>3, TaskStep

\* The commit of PROCESSING, outside the try.
LEMMA MarkProcessingInductive ==
  ASSUME Inductive, NEW j \in Jobs, MarkProcessing(j)
  PROVE  Inductive'
<1> USE DEF MarkProcessing, Goto
<1>0. status[j] \in {"PENDING", "absent"} /\ (batch => status[j] # "absent") /\ pc[j] \in Admitted
      /\ j \notin records
  BY RunningRow DEF Plausible, Admitted
<1>1. FaultyGrows /\ (Fault(UploadOf(j)) => UploadOf(j) \in faulty')
  BY <1>0, RunningRow, NoFault DEF Inductive
<1>2. CASE status[j] # "absent" /\ status' = [status EXCEPT ![j] = "PROCESSING"] /\ Goto(j, "extracting")
  <2>1. "PROCESSING" \in Plausible("extracting") /\ "extracting" \in Admitted
    BY DEF Plausible, Admitted
  <2> QED BY <1>0, <1>1, <1>2, <2>1, TaskStep
<1>3. CASE Goto(j, "raising") /\ status' = status /\ (status[j] = "absent" \/ Fault(UploadOf(j)))
  <2>1. status[j] \in Plausible("raising") /\ "raising" \in Admitted
    BY <1>0 DEF Plausible, Admitted, JobStatus
  <2>2. status' = [status EXCEPT ![j] = status[j]]
    BY <1>3 DEF Inductive, TypeOK
  <2> QED BY <1>0, <1>1, <1>3, <2>1, <2>2, TaskStep
<1> QED BY <1>2, <1>3

\* The provider answers or fails, the session looks the batch up and locks it: no row is
\* written.
LEMMA ExtractFindInductive ==
  ASSUME Inductive, NEW j \in Jobs, Extract(j) \/ FindBatch(j) \/ LockBatch(j)
  PROVE  Inductive'
<1> USE DEF Extract, FindBatch, LockBatch, rows, Goto
<1>0. status[j] \in {"PROCESSING", "absent"} /\ pc[j] \in Admitted /\ j \notin records
  BY RunningRow DEF Plausible, Admitted
<1>1. PICK place \in {"extracted", "found", "locked", "failing"} : pc' = [pc EXCEPT ![j] = place]
  OBVIOUS
<1>2. status' = [status EXCEPT ![j] = status[j]] /\ FaultyGrows
  BY <1>0, RunningRow, NoFault DEF Inductive, TypeOK
<1>3. status[j] \in Plausible(place) /\ place \in Admitted /\ place # "raising"
  BY <1>0, <1>1 DEF Plausible, Admitted
<1> QED BY <1>0, <1>1, <1>2, <1>3, TaskStep

\* The one commit of the records and of the outcome.
LEMMA PersistRecordsInductive ==
  ASSUME Inductive, NEW j \in Jobs, PersistRecords(j)
  PROVE  Inductive'
<1> USE DEF PersistRecords, Goto
<1>0. status[j] \in {"PROCESSING", "absent"} /\ (batch => status[j] # "absent") /\ pc[j] \in Admitted
      /\ j \notin records
  BY RunningRow DEF Plausible, Admitted
<1>1. FaultyGrows /\ (Fault(UploadOf(j)) => UploadOf(j) \in faulty')
  BY <1>0, RunningRow, NoFault DEF Inductive
<1>2. CASE batch /\ records' = records \cup {j} /\ status' = [status EXCEPT ![j] = "SUCCEEDED"] /\ Goto(j, "returning")
  <2>1. "SUCCEEDED" \in Plausible("returning") /\ "returning" \in Admitted
    BY DEF Plausible, Admitted, Settled
  <2> QED BY <1>0, <1>1, <1>2, <2>1, TaskStep
<1>3. CASE Goto(j, "failing") /\ status' = status /\ records' = records
  <2>1. status[j] \in Plausible("failing") /\ "failing" \in Admitted
    BY <1>0 DEF Plausible, Admitted
  <2>2. status' = [status EXCEPT ![j] = status[j]]
    BY <1>3 DEF Inductive, TypeOK
  <2> QED BY <1>0, <1>1, <1>3, <2>1, <2>2, TaskStep
<1> QED BY <1>2, <1>3

\* _fail: the row says FAILED, or is gone, and then the task raises.
LEMMA FailInductive ==
  ASSUME Inductive, NEW j \in Jobs, Fail(j)
  PROVE  Inductive'
<1> USE DEF Fail, Goto
<1>0. status[j] \in {"PROCESSING", "absent"} /\ (batch => status[j] # "absent") /\ pc[j] \in Admitted
      /\ j \notin records
  BY RunningRow DEF Plausible, Admitted
<1>1. FaultyGrows /\ (Fault(UploadOf(j)) => UploadOf(j) \in faulty')
  BY <1>0, RunningRow, NoFault DEF Inductive
<1>2. CASE status[j] # "absent" /\ status' = [status EXCEPT ![j] = "FAILED"] /\ Goto(j, "returning")
  <2>1. "FAILED" \in Plausible("returning") /\ "returning" \in Admitted
    BY DEF Plausible, Admitted, Settled
  <2> QED BY <1>0, <1>1, <1>2, <2>1, TaskStep
<1>3. CASE Goto(j, "raising") /\ status' = status /\ (status[j] = "absent" \/ Fault(UploadOf(j)))
  <2>1. status[j] \in Plausible("raising") /\ "raising" \in Admitted
    BY <1>0 DEF Plausible, Admitted, JobStatus
  <2>2. status' = [status EXCEPT ![j] = status[j]]
    BY <1>3 DEF Inductive, TypeOK
  <2> QED BY <1>0, <1>1, <1>3, <2>1, <2>2, TaskStep
<1> QED BY <1>2, <1>3

\* A thread takes the first task of a queue, or the semaphore lets it pass: no row is
\* written, and the task's row may still say what it said.
LEMMA TaskBegins ==
  ASSUME Inductive, NEW j \in Jobs, NEW place \in {"waiting", "admitted"},
         pc[j] \in {"none", "waiting"}, pc' = [pc EXCEPT ![j] = place],
         \E u \in Uploads : queue[u] # <<>> /\ Head(queue[u]) = j,
         PermitsAccounted', permits' \in 0..Limit,
         UNCHANGED <<rows, others, request, spooled, queue, faulty, up>>
  PROVE  Inductive'
<1> USE DEF Inductive, rows, others
<1>1. TypeOK'
  BY DEF TypeOK, Admitted
<1>2. JobsAndRecordsAgree'
  BY DEF JobsAndRecordsAgree
<1>3. TasksInOrder'
  BY DEF TasksInOrder, TypeOK
<1>4. RowsFollowTasks'
  <2> SUFFICES ASSUME NEW v \in Uploads, NEW k \in FilesOf(v), \E i \in DOMAIN queue[v] : queue[v][i] = k
               PROVE  status[k] \in Plausible(pc'[k])
    BY DEF RowsFollowTasks
  <2>1. status[k] \in Plausible(pc[k]) /\ k \in Jobs
    BY UploadOfFile DEF RowsFollowTasks
  <2>2. Plausible("none") = Plausible(place) /\ Plausible("waiting") = Plausible(place)
    BY DEF Plausible
  <2> QED BY <2>1, <2>2 DEF TypeOK
<1>5. NothingStrays'
  BY DEF NothingStrays
<1>6. RaisingHasCause'
  BY DEF RaisingHasCause, TypeOK
<1>7. NoJobAbandoned'
  BY DEF NoJobAbandoned, Owned
<1>8. NoSpoolAbandoned'
  BY DEF NoSpoolAbandoned, Owned
<1> QED BY <1>1, <1>2, <1>3, <1>4, <1>5, <1>6, <1>7, <1>8

\* A task that begins is the first of its upload, and takes no permit yet.
LEMMA StartInductive ==
  ASSUME Inductive, NEW j \in Jobs, Start(j)
  PROVE  Inductive'
<1>1. PermitsAccounted' /\ permits' \in 0..Limit
  BY PermitsUntouched DEF Start, Goto, Inductive, TypeOK, Admitted
<1> QED BY <1>1, TaskBegins DEF Start, Goto

\* A permit that is taken is one less, and one more task inside.
LEMMA AcquireInductive ==
  ASSUME Inductive, NEW j \in Jobs, Acquire(j)
  PROVE  Inductive'
<1>1. PermitsAccounted'
  BY PermitTaken DEF Acquire, Goto, Inductive
<1>2. permits' \in 0..Limit
  BY LimitAssumption DEF Acquire, Inductive, TypeOK
<1>3. \E u \in Uploads : queue[u] # <<>> /\ Head(queue[u]) = j
  BY DEF Acquire, Inductive, TasksInOrder
<1> QED BY <1>1, <1>2, <1>3, TaskBegins DEF Acquire, Goto

\* What is left of a queue without its first task, or without any.
LEMMA RestOfQueue ==
  ASSUME NEW q \in Seq(Jobs), q # <<>>, NEW rest, rest = Tail(q) \/ rest = <<>>,
         \A i, k \in DOMAIN q : q[i] = q[k] => i = k
  PROVE  /\ rest \in Seq(Jobs)
         /\ \A i \in DOMAIN rest : i + 1 \in DOMAIN q /\ rest[i] = q[i + 1] /\ rest[i] # q[1]
         /\ \A i, k \in DOMAIN rest : rest[i] = rest[k] => i = k
         /\ rest = Tail(q) => \A k \in DOMAIN q : q[k] # q[1] => \E i \in DOMAIN rest : rest[i] = q[k]
<1>1. rest \in Seq(Jobs)
  <2>1. Tail(q) \in Seq(Jobs)
    OBVIOUS
  <2>2. <<>> \in Seq(Jobs)
    OBVIOUS
  <2> QED BY <2>1, <2>2
<1>2. ASSUME NEW i \in DOMAIN rest
      PROVE  i + 1 \in DOMAIN q /\ rest[i] = q[i + 1] /\ rest[i] # q[1]
  <2>1. rest = Tail(q)
    OBVIOUS
  <2>2. i \in 1..(Len(q) - 1) /\ rest[i] = q[i + 1]
    BY <2>1
  <2> QED BY <2>2
<1>3. \A i, k \in DOMAIN rest : rest[i] = rest[k] => i = k
  <2>1. DOMAIN rest \subseteq Int
    BY <1>1
  <2> QED BY <1>2, <2>1
<1>4. ASSUME rest = Tail(q), NEW k \in DOMAIN q, q[k] # q[1]
      PROVE  \E i \in DOMAIN rest : rest[i] = q[k]
  <2>1. k - 1 \in DOMAIN rest /\ rest[k - 1] = q[k]
    BY <1>4
  <2> QED BY <2>1
<1> QED BY <1>1, <1>2, <1>3, <1>4

\* A task ends: by returning, with its row settled, or by raising, which drops the
\* tasks behind it and has a cause.
LEMMA TaskEnds ==
  ASSUME Inductive, NEW j \in Jobs, Return(j) \/ Raise(j)
  PROVE  Inductive'
<1> USE DEF Inductive
<1> DEFINE u == UploadOf(j)
           rest == IF pc[j] = "returning" THEN Tail(queue[u]) ELSE <<>>
<1>0. /\ pc[j] \in {"returning", "raising"} /\ pc[j] \in Admitted /\ pc' = [pc EXCEPT ![j] = "none"]
      /\ queue' = [queue EXCEPT ![u] = rest] /\ spooled' = spooled \ {j} /\ permits' = permits + 1
      /\ UNCHANGED <<batch, status, records, held, importing, request, faulty, up>>
  BY DEF Return, Raise, Goto, rows, others, Admitted
<1>01. /\ u \in Uploads /\ j \in FilesOf(u) /\ queue[u] # <<>> /\ queue[u][1] = j
       /\ 1 \in DOMAIN queue[u] /\ request[u] = "answered"
  BY <1>0, RunningHeadsQueue
<1> HIDE DEF u
<1>02. queue[u] \in Seq(Jobs) /\ \A i, k \in DOMAIN queue[u] : queue[u][i] = queue[u][k] => i = k
  BY <1>01 DEF TasksInOrder, TypeOK
<1>03. /\ rest \in Seq(Jobs)
       /\ \A i \in DOMAIN rest : \E n \in DOMAIN queue[u] : rest[i] = queue[u][n] /\ rest[i] # j
       /\ \A i, k \in DOMAIN rest : rest[i] = rest[k] => i = k
       /\ pc[j] = "returning" => \A k \in DOMAIN queue[u] : queue[u][k] # j => \E i \in DOMAIN rest : rest[i] = queue[u][k]
  <2> DEFINE q == queue[u]
  <2>1. (rest = Tail(q) \/ rest = <<>>) /\ (pc[j] = "returning" => rest = Tail(q))
    BY <1>0
  <2>0. q \in Seq(Jobs) /\ q # <<>> /\ q[1] = j /\ \A i, k \in DOMAIN q : q[i] = q[k] => i = k
    BY <1>01, <1>02
  <2> HIDE DEF rest, q, Inductive
  <2>2. /\ rest \in Seq(Jobs)
        /\ \A i \in DOMAIN rest : i + 1 \in DOMAIN q /\ rest[i] = q[i + 1] /\ rest[i] # q[1]
        /\ \A i, k \in DOMAIN rest : rest[i] = rest[k] => i = k
        /\ rest = Tail(q) => \A k \in DOMAIN q : q[k] # q[1] => \E i \in DOMAIN rest : rest[i] = q[k]
    BY <2>0, <2>1, RestOfQueue
  <2>3. \A i \in DOMAIN rest : \E n \in DOMAIN q : rest[i] = q[n] /\ rest[i] # j
    BY <2>0, <2>2
  <2> QED BY <2>0, <2>1, <2>2, <2>3 DEF q
<1>04. queue'[u] = rest /\ \A v \in Uploads : v # u => queue'[v] = queue[v]
  BY <1>0, <1>01 DEF TypeOK
<1> HIDE DEF rest
<1>05. \A v \in Uploads, k \in Jobs : (\E i \in DOMAIN queue'[v] : queue'[v][i] = k) =>
                                        k # j /\ \E i \in DOMAIN queue[v] : queue[v][i] = k
  <2> SUFFICES ASSUME NEW v \in Uploads, NEW i \in DOMAIN queue'[v]
               PROVE  queue'[v][i] # j /\ \E n \in DOMAIN queue[v] : queue[v][n] = queue'[v][i]
    OBVIOUS
  <2>1. CASE v = u
    BY <1>03, <1>04, <2>1
  <2>2. CASE v # u
    <3>1. queue[v][i] \in FilesOf(v)
      BY <1>04, <2>2 DEF TasksInOrder
    <3>2. queue[v][i] # j
      BY <1>01, <2>2, <3>1, UploadOfFile
    <3> QED BY <1>04, <2>2, <3>2
  <2> QED BY <2>1, <2>2
<1>1. permits' \in 0..Limit /\ PermitsAccounted'
  BY <1>0, PermitReleased
<1>2. TypeOK'
  <2>1. queue' \in [Uploads -> Seq(Jobs)]
    BY <1>0, <1>03 DEF TypeOK
  <2> QED BY <1>0, <1>1, <2>1 DEF TypeOK
<1>3. JobsAndRecordsAgree'
  BY <1>0 DEF JobsAndRecordsAgree
<1>4. TasksInOrder'
  <2>1. ASSUME NEW v \in Uploads
        PROVE  /\ \A i \in DOMAIN queue'[v] : queue'[v][i] \in FilesOf(v)
               /\ \A i, k \in DOMAIN queue'[v] : queue'[v][i] = queue'[v][k] => i = k
               /\ queue'[v] # <<>> => request[v] = "answered"
    <3>1. CASE v = u
      BY <1>01, <1>03, <1>04, <3>1 DEF TasksInOrder
    <3>2. CASE v # u
      BY <1>04, <3>2 DEF TasksInOrder
    <3> QED BY <3>1, <3>2
  <2>2. ASSUME NEW k \in Jobs, pc'[k] # "none"
        PROVE  \E v \in Uploads : queue'[v] # <<>> /\ Head(queue'[v]) = k
    <3>1. k # j /\ pc[k] # "none"
      BY <1>0, <2>2 DEF TypeOK
    <3>2. PICK v \in Uploads : queue[v] # <<>> /\ Head(queue[v]) = k
      BY <3>1 DEF TasksInOrder
    <3>3. v # u
      BY <1>01, <3>1, <3>2, <1>02
    <3> QED BY <1>04, <3>2, <3>3
  <2> QED BY <1>0, <2>1, <2>2 DEF TasksInOrder
<1>5. RowsFollowTasks'
  <2> SUFFICES ASSUME NEW v \in Uploads, NEW k \in FilesOf(v), \E i \in DOMAIN queue'[v] : queue'[v][i] = k
               PROVE  status[k] \in Plausible(pc'[k])
    BY <1>0 DEF RowsFollowTasks
  <2>1. k \in Jobs
    BY UploadOfFile
  <2>2. k # j /\ \E i \in DOMAIN queue[v] : queue[v][i] = k
    BY <1>05, <2>1
  <2>3. pc'[k] = pc[k]
    BY <1>0, <2>1, <2>2 DEF TypeOK
  <2> QED BY <2>2, <2>3 DEF RowsFollowTasks
<1>6. NothingStrays'
  BY <1>0 DEF NothingStrays
<1>7. RaisingHasCause'
  BY <1>0 DEF RaisingHasCause, TypeOK
<1>8. ASSUME batch, up, NEW k \in Jobs, k # j, Owned(k), UploadOf(k) \notin faulty
      PROVE  Owned(k)'
  <2>1. UploadOf(k) = u => pc[j] = "returning"
    BY <1>0, <1>8 DEF RaisingHasCause, u
  <2>2. CASE request[UploadOf(k)] = "created"
    BY <1>0, <2>2 DEF Owned
  <2>3. CASE \E i \in DOMAIN queue[UploadOf(k)] : queue[UploadOf(k)][i] = k
    <3>1. CASE UploadOf(k) = u
      <4>1. \E i \in DOMAIN rest : rest[i] = k
        BY <1>03, <1>8, <2>1, <2>3, <3>1
      <4> QED BY <1>04, <3>1, <4>1 DEF Owned
    <3>2. CASE UploadOf(k) # u
      <4>1. queue'[UploadOf(k)] = queue[UploadOf(k)]
        BY <1>0, <3>2 DEF TypeOK
      <4> QED BY <2>3, <4>1 DEF Owned
    <3> QED BY <3>1, <3>2
  <2> QED BY <1>8, <2>2, <2>3 DEF Owned
<1>9. NoJobAbandoned'
  <2> SUFFICES ASSUME batch, up, NEW k \in Jobs, status[k] \in {"PENDING", "PROCESSING"}, UploadOf(k) \notin faulty
               PROVE  Owned(k)'
    BY <1>0 DEF NoJobAbandoned
  <2>1. CASE k = j
    <3>1. pc[j] = "returning"
      BY <1>0, <2>1 DEF RaisingHasCause
    <3>2. status[k] \in {"SUCCEEDED", "FAILED", "absent"}
      BY <1>0, <2>1, <3>1, RunningRow DEF Plausible, Settled
    <3> QED BY <3>2
  <2>2. CASE k # j
    BY <1>8, <2>2 DEF NoJobAbandoned
  <2> QED BY <2>1, <2>2
<1>10. NoSpoolAbandoned'
  BY <1>0, <1>8 DEF NoSpoolAbandoned, TypeOK
<1> QED BY <1>1, <1>2, <1>3, <1>4, <1>5, <1>6, <1>7, <1>9, <1>10

\* An upload whose handler has not answered has no task.
LEMMA NoTaskBeforeAnswer ==
  ASSUME Inductive, NEW u \in Uploads, request[u] # "answered", NEW j \in FilesOf(u)
  PROVE  j \in Jobs /\ UploadOf(j) = u /\ queue[u] = <<>> /\ pc[j] = "none"
<1>1. j \in Jobs /\ UploadOf(j) = u
  BY UploadOfFile
<1>2. queue[u] = <<>>
  BY DEF Inductive, TasksInOrder
<1> QED BY <1>1, <1>2, RunningHeadsQueue DEF Inductive

\* Spooling: the files are on disk and the handler owns them.
LEMMA SpoolInductive ==
  ASSUME Inductive, NEW u \in Uploads, Spool(u)
  PROVE  Inductive'
<1> USE DEF Inductive
<1>0. /\ request[u] = "none" /\ spooled' = spooled \cup FilesOf(u) /\ request' = [request EXCEPT ![u] = "spooled"]
      /\ UNCHANGED <<batch, status, records, held, importing, queue, pc, permits, faulty, up>>
  BY DEF Spool, Advance, rows, others
<1>1. TypeOK'
  BY <1>0, UploadOfFile DEF TypeOK
<1>2. PermitsAccounted' /\ JobsAndRecordsAgree'
  BY <1>0 DEF PermitsAccounted, JobsAndRecordsAgree
<1>3. TasksInOrder'
  BY <1>0 DEF TasksInOrder, TypeOK
<1>4. RowsFollowTasks'
  BY <1>0 DEF RowsFollowTasks, TypeOK
<1>5. NothingStrays' /\ RaisingHasCause'
  BY <1>0 DEF NothingStrays, RaisingHasCause
<1>6. \A k \in Jobs : Owned(k) => Owned(k)'
  BY <1>0 DEF Owned, TypeOK
<1>7. NoJobAbandoned'
  BY <1>0, <1>6 DEF NoJobAbandoned
<1>8. NoSpoolAbandoned'
  <2> SUFFICES ASSUME batch, up, NEW k \in spooled', UploadOf(k) \notin faulty
               PROVE  request'[UploadOf(k)] \in {"spooled", "handling"} \/ Owned(k)'
    BY <1>0 DEF NoSpoolAbandoned
  <2>1. CASE k \in FilesOf(u)
    BY <1>0, <2>1, UploadOfFile DEF TypeOK
  <2>2. CASE k \notin FilesOf(u)
    <3>1. k \in Jobs /\ (request[UploadOf(k)] \in {"spooled", "handling"} \/ Owned(k))
      BY <1>0, <2>2 DEF NoSpoolAbandoned, TypeOK
    <3> QED BY <1>0, <1>6, <3>1 DEF TypeOK
  <2> QED BY <2>1, <2>2
<1> QED BY <1>1, <1>2, <1>3, <1>4, <1>5, <1>7, <1>8

\* A handler goes on from its last await, or ends without its jobs being queued, over a
\* deleted batch or a failed statement: only then may jobs and files be left without an
\* owner.
LEMMA HandlerMoves ==
  ASSUME Inductive, NEW u \in Uploads, NEW place \in {"handling", "refused", "closed"},
         request' = [request EXCEPT ![u] = place],
         \/ request[u] = "spooled" /\ place = "handling"
         \/ request[u] = "refused" /\ place = "closed"
         \/ request[u] \in {"handling", "created"} /\ place # "handling" /\ (~batch \/ u \in faulty'),
         FaultyGrows,
         UNCHANGED <<batch, status, records, others, spooled, queue, pc, permits, up>>
  PROVE  Inductive'
<1> USE DEF Inductive, FaultyGrows, others
<1>1. TypeOK'
  BY DEF TypeOK
<1>2. PermitsAccounted' /\ JobsAndRecordsAgree'
  BY DEF PermitsAccounted, JobsAndRecordsAgree
<1>3. TasksInOrder'
  BY DEF TasksInOrder, TypeOK
<1>4. RowsFollowTasks'
  BY DEF RowsFollowTasks, TypeOK
<1>5. NothingStrays' /\ RaisingHasCause'
  BY DEF NothingStrays, RaisingHasCause, TypeOK
<1>6. ASSUME batch, NEW k \in Jobs, UploadOf(k) \notin faulty', Owned(k)
      PROVE  Owned(k)'
  BY <1>6 DEF Owned, TypeOK
<1>7. NoJobAbandoned'
  BY <1>6 DEF NoJobAbandoned
<1>8. NoSpoolAbandoned'
  <2> SUFFICES ASSUME batch, up, NEW k \in spooled, UploadOf(k) \notin faulty'
               PROVE  request'[UploadOf(k)] \in {"spooled", "handling"} \/ Owned(k)'
    BY DEF NoSpoolAbandoned
  <2>1. k \in Jobs /\ (request[UploadOf(k)] \in {"spooled", "handling"} \/ Owned(k))
    BY DEF NoSpoolAbandoned, TypeOK
  <2> QED BY <1>6, <2>1 DEF TypeOK
<1> QED BY <1>1, <1>2, <1>3, <1>4, <1>5, <1>7, <1>8

\* The last await returns, or the session of a refused upload is closed.
LEMMA EnterCloseInductive ==
  ASSUME Inductive, NEW u \in Uploads, Enter(u) \/ Close(u)
  PROVE  Inductive'
<1>1. FaultyGrows
  BY NoFault DEF Enter, Close, Inductive
<1> QED BY <1>1, HandlerMoves DEF Enter, Close, Advance, rows

\* The jobs are stored: none of them has a task yet, and the handler owns them.
LEMMA CreateJobsInductive ==
  ASSUME Inductive, NEW u \in Uploads, CreateJobs(u)
  PROVE  Inductive'
<1> USE DEF Inductive
<1>1. CASE /\ request' = [request EXCEPT ![u] = "refused"] \/ request' = [request EXCEPT ![u] = "closed"]
           /\ UNCHANGED status
           /\ (~batch /\ UNCHANGED faulty) \/ Fault(u)
  <2>1. request[u] = "handling" /\ UNCHANGED <<batch, status, records, others, spooled, queue, pc, permits, up>>
    BY <1>1 DEF CreateJobs
  <2>2. FaultyGrows /\ (~batch \/ u \in faulty')
    BY <1>1, NoFault, FaultIsCounted
  <2> QED BY <1>1, <2>1, <2>2, HandlerMoves
<1>2. CASE /\ batch
           /\ status' = [j \in Jobs |-> IF j \in FilesOf(u) THEN "PENDING" ELSE status[j]]
           /\ request' = [request EXCEPT ![u] = "created"]
           /\ UNCHANGED faulty
  <2>0. request[u] = "handling" /\ UNCHANGED <<batch, records, held, importing, spooled, queue, pc, permits, up>>
    BY DEF CreateJobs, others
  <2>1. TypeOK'
    BY <1>2, <2>0 DEF TypeOK, JobStatus
  <2>2. PermitsAccounted'
    BY <2>0 DEF PermitsAccounted
  <2>3. JobsAndRecordsAgree'
    <3>1. \A j \in FilesOf(u) : status[j] = "absent"
      BY <2>0 DEF RowsFollowTasks
    <3> QED BY <1>2, <2>0, <3>1 DEF JobsAndRecordsAgree
  <2>4. TasksInOrder'
    BY <1>2, <2>0 DEF TasksInOrder, TypeOK
  <2>5. RowsFollowTasks'
    <3> SUFFICES ASSUME NEW v \in Uploads, NEW k \in FilesOf(v)
                 PROVE  /\ request'[v] \in {"none", "spooled", "handling"} => status'[k] = "absent"
                        /\ request'[v] = "created" => status'[k] \in {"PENDING", "absent"}
                        /\ (\E i \in DOMAIN queue[v] : queue[v][i] = k) => status'[k] \in Plausible(pc[k])
                        /\ request'[v] \in {"created", "answered"} => status'[k] # "absent"
      BY <1>2, <2>0 DEF RowsFollowTasks
    <3>1. CASE v = u
      <4>1. k \in Jobs /\ queue[v] = <<>>
        BY <2>0, <3>1, NoTaskBeforeAnswer
      <4> QED BY <1>2, <3>1, <4>1 DEF TypeOK
    <3>2. CASE v # u
      <4>1. k \in Jobs /\ k \notin FilesOf(u)
        BY <3>2, UploadOfFile
      <4> QED BY <1>2, <3>2, <4>1 DEF RowsFollowTasks, TypeOK
    <3> QED BY <3>1, <3>2
  <2>6. NothingStrays' /\ RaisingHasCause'
    BY <1>2, <2>0 DEF NothingStrays, RaisingHasCause
  <2>7. \A k \in Jobs : Owned(k) => Owned(k)'
    BY <1>2, <2>0 DEF Owned, TypeOK
  <2>8. \A k \in FilesOf(u) : Owned(k)'
    BY <1>2, UploadOfFile DEF Owned, TypeOK
  <2>9. NoJobAbandoned'
    BY <1>2, <2>0, <2>7, <2>8 DEF NoJobAbandoned
  <2>10. NoSpoolAbandoned'
    <3> SUFFICES ASSUME batch, up, NEW k \in spooled, UploadOf(k) \notin faulty
                 PROVE  request'[UploadOf(k)] \in {"spooled", "handling"} \/ Owned(k)'
      BY <1>2, <2>0 DEF NoSpoolAbandoned
    <3>1. k \in Jobs /\ (request[UploadOf(k)] \in {"spooled", "handling"} \/ Owned(k))
      BY DEF NoSpoolAbandoned, TypeOK
    <3>2. CASE UploadOf(k) = u
      BY <1>2, <3>2 DEF Owned, TypeOK
    <3>3. CASE UploadOf(k) # u
      BY <1>2, <2>7, <3>1, <3>3 DEF TypeOK
    <3> QED BY <3>2, <3>3
  <2> QED BY <2>1, <2>2, <2>3, <2>4, <2>5, <2>6, <2>9, <2>10
<1> QED BY <1>1, <1>2 DEF CreateJobs, Advance

\* The answer: each job the handler owned has a task of its own.
LEMMA QueueTasksInductive ==
  ASSUME Inductive, NEW u \in Uploads, QueueTasks(u)
  PROVE  Inductive'
<1> USE DEF Inductive
<1>1. CASE request' = [request EXCEPT ![u] = "closed"] /\ UNCHANGED queue /\ ((~batch /\ UNCHANGED faulty) \/ Fault(u))
  <2>1. request[u] = "created" /\ UNCHANGED <<batch, status, records, others, spooled, queue, pc, permits, up>>
    BY <1>1 DEF QueueTasks, rows
  <2>2. FaultyGrows /\ (~batch \/ u \in faulty')
    BY <1>1, NoFault, FaultIsCounted
  <2> QED BY <1>1, <2>1, <2>2, HandlerMoves
<1>2. CASE batch /\ queue' = [queue EXCEPT ![u] = Files[u]] /\ request' = [request EXCEPT ![u] = "answered"]
           /\ UNCHANGED faulty
  <2>0. request[u] = "created" /\ UNCHANGED <<batch, status, records, held, importing, spooled, pc, permits, up>>
    BY DEF QueueTasks, rows, others
  <2>01. /\ queue'[u] = Files[u] /\ request'[u] = "answered"
         /\ \A v \in Uploads : v # u => queue'[v] = queue[v] /\ request'[v] = request[v]
    BY <1>2 DEF TypeOK
  <2>1. TypeOK'
    BY <1>2, <2>0, FilesAssumption DEF TypeOK
  <2>2. PermitsAccounted' /\ JobsAndRecordsAgree'
    BY <2>0 DEF PermitsAccounted, JobsAndRecordsAgree
  <2>3. TasksInOrder'
    <3>1. ASSUME NEW v \in Uploads
          PROVE  /\ \A i \in DOMAIN queue'[v] : queue'[v][i] \in FilesOf(v)
                 /\ \A i, k \in DOMAIN queue'[v] : queue'[v][i] = queue'[v][k] => i = k
                 /\ queue'[v] # <<>> => request'[v] = "answered"
      <4>1. CASE v = u
        <5>1. \A i, k \in DOMAIN Files[u] : Files[u][i] = Files[u][k] => i = k
          BY FilesAssumption
        <5> QED BY <2>01, <4>1, <5>1 DEF FilesOf
      <4>2. CASE v # u
        BY <2>01, <4>2 DEF TasksInOrder
      <4> QED BY <4>1, <4>2
    <3>2. ASSUME NEW k \in Jobs, pc[k] # "none"
          PROVE  \E v \in Uploads : queue'[v] # <<>> /\ Head(queue'[v]) = k
      <4>1. PICK v \in Uploads : queue[v] # <<>> /\ Head(queue[v]) = k
        BY <3>2 DEF TasksInOrder
      <4>2. v # u
        BY <2>0, <4>1 DEF TasksInOrder
      <4> QED BY <2>01, <4>1, <4>2
    <3> QED BY <2>0, <3>1, <3>2 DEF TasksInOrder
  <2>4. RowsFollowTasks'
    <3> SUFFICES ASSUME NEW v \in Uploads, NEW k \in FilesOf(v)
                 PROVE  /\ request'[v] \in {"none", "spooled", "handling"} => status[k] = "absent"
                        /\ request'[v] = "created" => status[k] \in {"PENDING", "absent"}
                        /\ (\E i \in DOMAIN queue'[v] : queue'[v][i] = k) => status[k] \in Plausible(pc[k])
                        /\ request'[v] \in {"created", "answered"} => status[k] # "absent"
      BY <1>2, <2>0 DEF RowsFollowTasks
    <3>1. CASE v = u
      <4>1. pc[k] = "none"
        BY <2>0, <3>1, NoTaskBeforeAnswer
      <4> QED BY <1>2, <2>0, <2>01, <3>1, <4>1 DEF RowsFollowTasks, Plausible
    <3>2. CASE v # u
      BY <1>2, <2>01, <3>2 DEF RowsFollowTasks
    <3> QED BY <3>1, <3>2
  <2>5. NothingStrays' /\ RaisingHasCause'
    BY <1>2, <2>0 DEF NothingStrays, RaisingHasCause
  <2>6. \A k \in FilesOf(u) : Owned(k)'
    <3> SUFFICES ASSUME NEW k \in FilesOf(u) PROVE Owned(k)'
      OBVIOUS
    <3>1. \E i \in DOMAIN Files[u] : Files[u][i] = k
      BY DEF FilesOf
    <3> QED BY <2>01, <3>1, UploadOfFile DEF Owned
  <2>7. ASSUME NEW v \in Uploads, v # u, NEW k \in FilesOf(v), Owned(k)
        PROVE  Owned(k)'
    BY <2>01, <2>7, UploadOfFile DEF Owned
  <2>8. NoJobAbandoned'
    BY <1>2, <2>0, <2>6, <2>7 DEF NoJobAbandoned, NothingStrays
  <2>9. NoSpoolAbandoned'
    <3> SUFFICES ASSUME batch, up, NEW k \in spooled, UploadOf(k) \notin faulty
                 PROVE  request'[UploadOf(k)] \in {"spooled", "handling"} \/ Owned(k)'
      BY <1>2, <2>0 DEF NoSpoolAbandoned
    <3>1. PICK v \in Uploads : k \in FilesOf(v)
      BY DEF NothingStrays, TypeOK
    <3>2. UploadOf(k) = v /\ (request[v] \in {"spooled", "handling"} \/ Owned(k))
      BY <3>1, UploadOfFile DEF NoSpoolAbandoned
    <3> QED BY <2>01, <2>6, <2>7, <3>1, <3>2
  <2> QED BY <2>1, <2>2, <2>3, <2>4, <2>5, <2>8, <2>9
<1> QED BY <1>1, <1>2 DEF QueueTasks, Advance

\* The rows cascade away with their batch: what is left claims nothing.
LEMMA DeleteBatchInductive ==
  ASSUME Inductive, DeleteBatch
  PROVE  Inductive'
<1> USE DEF Inductive, DeleteBatch, others
<1>1. TypeOK'
  BY DEF TypeOK
<1>2. PermitsAccounted' /\ JobsAndRecordsAgree'
  BY DEF PermitsAccounted, JobsAndRecordsAgree
<1>3. TasksInOrder'
  BY DEF TasksInOrder
<1>4. RowsFollowTasks'
  <2>1. \A place : "absent" \in Plausible(place)
    BY DEF Plausible
  <2>2. ASSUME NEW u \in Uploads, NEW j \in FilesOf(u)
        PROVE  status'[j] = "absent"
    BY UploadOfFile
  <2> QED BY <2>1, <2>2 DEF RowsFollowTasks
<1>5. NothingStrays' /\ RaisingHasCause' /\ NoJobAbandoned' /\ NoSpoolAbandoned'
  BY DEF NothingStrays, RaisingHasCause, NoJobAbandoned, NoSpoolAbandoned
<1> QED BY <1>1, <1>2, <1>3, <1>4, <1>5

\* The process dies between any two statements: the rows still agree.
LEMMA CrashInductive ==
  ASSUME Inductive, Crash
  PROVE  Inductive'
<1> USE DEF Inductive, Crash, rows
<1>1. TypeOK'
  <2>1. queue' \in [Uploads -> Seq(Jobs)]
    OBVIOUS
  <2>2. request' \in [Uploads -> {"none", "spooled", "handling", "created", "answered", "refused", "closed"}]
    OBVIOUS
  <2>3. pc' \in [Jobs -> Admitted \cup {"none", "waiting"}]
    OBVIOUS
  <2>4. permits' \in 0..Limit
    BY LimitAssumption
  <2> QED BY <2>1, <2>2, <2>3, <2>4 DEF TypeOK
<1>2. PermitsAccounted'
  <2>1. {j \in Jobs : pc'[j] \in Admitted} = {}
    BY DEF Admitted
  <2>2. Cardinality({j \in Jobs : pc'[j] \in Admitted}) = 0
    BY <2>1, FS_EmptySet
  <2> QED BY <2>2, LimitAssumption DEF PermitsAccounted
<1>3. JobsAndRecordsAgree' /\ NothingStrays' /\ RaisingHasCause'
  BY DEF JobsAndRecordsAgree, NothingStrays, RaisingHasCause
<1>4. TasksInOrder'
  BY DEF TasksInOrder
<1>5. RowsFollowTasks'
  BY UploadOfFile DEF RowsFollowTasks
<1>6. NoJobAbandoned' /\ NoSpoolAbandoned'
  BY DEF NoJobAbandoned, NoSpoolAbandoned
<1> QED BY <1>1, <1>2, <1>3, <1>4, <1>5, <1>6

\* What the other requests do to the loop and to the lock concerns no task's account.
LEMMA ElsewhereInductive ==
  ASSUME Inductive, Elsewhere
  PROVE  Inductive'
<1>1. held' \in BOOLEAN /\ importing' \in BOOLEAN
  BY DEF Elsewhere, RefuseReview, CloseReview, BeginImport, EndImport, Inductive, TypeOK
<1>2. UNCHANGED <<batch, status, records, request, spooled, queue, pc, permits, faulty, up>>
  BY DEF Elsewhere, RefuseReview, CloseReview, BeginImport, EndImport, rows
<1> QED BY <1>1, <1>2 DEF Inductive, TypeOK, PermitsAccounted, JobsAndRecordsAgree, TasksInOrder, RowsFollowTasks,
              NothingStrays, RaisingHasCause, NoJobAbandoned, NoSpoolAbandoned, Owned

\* Every step preserves the invariant, one action at a time.
LEMMA NextInductive == Inductive /\ [Next]_vars => Inductive'
<1> SUFFICES ASSUME Inductive, [Next]_vars PROVE Inductive'
  OBVIOUS
<1>1. CASE UNCHANGED vars
  BY <1>1 DEF vars, others, Inductive, TypeOK, PermitsAccounted, JobsAndRecordsAgree, TasksInOrder, RowsFollowTasks,
              NothingStrays, RaisingHasCause, NoJobAbandoned, NoSpoolAbandoned, Owned
<1>2. ASSUME NEW u \in Uploads, Spool(u) \/ Proceed(u)
      PROVE  Inductive'
  BY <1>2, SpoolInductive, EnterCloseInductive, CreateJobsInductive, QueueTasksInductive DEF Proceed
<1>3. ASSUME NEW j \in Jobs, Run(j)
      PROVE  Inductive'
  BY <1>3, StartInductive, AcquireInductive, LoadJobInductive, MarkProcessingInductive, ExtractFindInductive,
     PersistRecordsInductive, FailInductive, TaskEnds DEF Run
<1> QED BY <1>1, <1>2, <1>3, DeleteBatchInductive, ElsewhereInductive, CrashInductive DEF Next

(***************************************************************************)
(* The theorems.                                                           *)
(***************************************************************************)

\* Whatever fails, is deleted or dies: tasks in order, rows that follow them, permits
\* accounted for, nothing abandoned without a cause.
THEOREM AlwaysInductive == Spec => []Inductive
<1>1. Init => Inductive
  BY InitInductive
<1>2. Inductive /\ [Next]_vars => Inductive'
  BY NextInductive
<1> QED BY <1>1, <1>2, PTL DEF Spec

\* The variables keep their types: no permit is given back twice.
THEOREM TypeCorrect == Spec => []TypeOK
<1>1. Inductive => TypeOK
  BY DEF Inductive
<1> QED BY <1>1, AlwaysInductive, PTL

\* Records are in the table exactly when their job is SUCCEEDED, at every moment and
\* after any crash (the one commit of run_extraction).
THEOREM JobsAgreeWithRecords == Spec => []JobsAndRecordsAgree
<1>1. Inductive => JobsAndRecordsAgree
  BY DEF Inductive
<1> QED BY <1>1, AlwaysInductive, PTL

\* Every permit of the semaphore is free or held by one running task, for any number of
\* tasks and permits (get_semaphore).
THEOREM PermitsAreAccounted == Spec => []PermitsAccounted
<1>1. Inductive => PermitsAccounted
  BY DEF Inductive
<1> QED BY <1>1, AlwaysInductive, PTL

\* A stored job is never without a handler or a task, unless its batch was deleted, a
\* statement of its own upload failed or the process died.
THEOREM JobsAreOwned == Spec => []NoJobAbandoned
<1>1. Inductive => NoJobAbandoned
  BY DEF Inductive
<1> QED BY <1>1, AlwaysInductive, PTL

\* Nor is a temporary file (run_extraction's finally, upload_pdfs).
THEOREM SpooledFilesAreOwned == Spec => []NoSpoolAbandoned
<1>1. Inductive => NoSpoolAbandoned
  BY DEF Inductive
<1> QED BY <1>1, AlwaysInductive, PTL
=============================================================================
