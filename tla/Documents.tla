----------------------------- MODULE Documents -----------------------------
(***************************************************************************)
(* The uploaded documents: a source_document row in the database and a     *)
(* file on disk, which no transaction covers together; and the requests    *)
(* that store, open and delete them while others work on the same batch.   *)
(*                                                                         *)
(* The upload handlers are coroutines that call the database synchronously *)
(* (api/batches.py): from the last await, the spooling, to the answer such *)
(* a handler keeps the event loop, a wait for a row lock included.  Every  *)
(* other handler runs in a thread, but needs the loop to begin, and, when  *)
(* it is refused, once more to have its session closed (get_session).      *)
(*                                                                         *)
(* The row locks on import_batch: FOR UPDATE (lock_batch), and the KEY     *)
(* SHARE that inserting a row that refers to the batch takes.              *)
(***************************************************************************)
EXTENDS Integers, FiniteSets, Sequences

CONSTANTS Requests,    \* the requests
          Nobody,      \* the event loop, or a lock, is free
          Batches, Contents,
          Orders,      \* what a request may ask for
          MaxFaults    \* bound: how many statements, or writes to the disk, may fail

Kinds == {"csv", "pdf", "review", "open", "delete"}
Uploads == {"csv", "pdf"}

\* contents: the files sent, one for a CSV upload, any list of them for a PDF one.
\* forced: the person chose to import a duplicate.  accepted: the file has the
\* structure import_csv requires; the record is in a state the review accepts.
Order == [kind: Kinds, batch: Batches, contents: Seq(Contents), forced: BOOLEAN, accepted: BOOLEAN]

\* The i-th document of request r.
Document == Requests \X (Nat \ {0})

ASSUME RequestAssumption == Nobody \notin Requests
ASSUME OrderAssumption ==
  /\ Orders \subseteq Order /\ MaxFaults \in Nat
  /\ \A o \in Orders : /\ o.kind = "csv" => Len(o.contents) = 1
                       /\ o.kind = "pdf" => o.contents # <<>>

VARIABLES batches,     \* the import_batch rows
          rows,        \* the committed source_document rows
          files,       \* the files under upload_storage_dir
          loop,        \* the upload handler that keeps the event loop
          lock,        \* lock[b]: who holds batch b FOR UPDATE
          shares,      \* who holds its batch FOR KEY SHARE
          pc, order,   \* how far each request has got, and what it asks for
          written,     \* how many of its files an upload has stored
          paths,       \* the documents a deletion has collected, or an opening found
          faults, up

vars == <<batches, rows, files, loop, lock, shares, pc, order, written, paths, faults, up>>
disk == <<batches, rows, files>>

\* A KEY SHARE lasts from the insert to the end of its transaction.
TypeOK ==
  /\ batches \subseteq Batches
  /\ rows \subseteq Document /\ files \subseteq Document
  /\ loop \in Requests \cup {Nobody}
  /\ lock \in [Batches -> Requests \cup {Nobody}]
  /\ pc \in [Requests -> {"idle", "received", "handling", "checked", "locked", "inserted", "stored",
                          "found", "collected", "deleted", "refused", "done"}]
  /\ shares \subseteq {r \in Requests : pc[r] \in {"checked", "locked", "inserted", "stored", "refused"}}
  /\ DOMAIN order = {r \in Requests : pc[r] # "idle"} /\ \A r \in DOMAIN order : order[r] \in Order
  /\ written \in [Requests -> Nat]
  /\ paths \in [Requests -> SUBSET Document]
  /\ faults \in 0..MaxFaults /\ up \in BOOLEAN

Init ==
  /\ batches = Batches
  /\ rows = {} /\ files = {}
  /\ loop = Nobody
  /\ lock = [b \in Batches |-> Nobody] /\ shares = {}
  /\ pc = [r \in Requests |-> "idle"] /\ order = <<>>
  /\ written = [r \in Requests |-> 0] /\ paths = [r \in Requests |-> {}]
  /\ faults = 0 /\ up = TRUE

BatchOf(r) == order[r].batch
RowsOf(b) == {d \in rows : BatchOf(d[1]) = b}
DocumentsOf(r) == {r} \X DOMAIN order[r].contents
ContentOf(d) == order[d[1]].contents[d[2]]
Sent(r) == {order[r].contents[i] : i \in DOMAIN order[r].contents}
Exists(r) == BatchOf(r) \in batches

At(r, place) == up /\ pc[r] = place
Goto(r, place) == pc' = [pc EXCEPT ![r] = place]

\* Who is in the way of a FOR UPDATE, and of a KEY SHARE, on the batch of r.
BlocksUpdate(r) ==
  ({lock[BatchOf(r)]} \cup {q \in shares : BatchOf(q) = BatchOf(r)}) \ {r, Nobody}
BlocksShare(r) == {lock[BatchOf(r)]} \ {r, Nobody}

\* The end of a transaction, committed or rolled back.
Release(r) ==
  /\ lock' = [b \in Batches |-> IF lock[b] = r THEN Nobody ELSE lock[b]]
  /\ shares' = shares \ {r}

\* The handler answers, or raises, and the event loop goes on.
LeaveLoop(r) == loop' = IF loop = r THEN Nobody ELSE loop

Fault == faults < MaxFaults /\ faults' = faults + 1

-----------------------------------------------------------------------------
(***************************************************************************)
(* A request comes in: the event loop accepts it.                          *)
(***************************************************************************)
Receive(r) ==
  /\ At(r, "idle") /\ loop = Nobody
  /\ \E o \in Orders :
       /\ o.batch \in batches
       /\ order' = [q \in DOMAIN order \cup {r} |-> IF q = r THEN o ELSE order[q]]
  /\ Goto(r, "received")
  /\ UNCHANGED <<disk, loop, lock, shares, written, paths, faults, up>>

\* Mutant of EnterLoop: the handlers are declared def and run in threads.
EnterThread(r) ==
  /\ At(r, "received") /\ order[r].kind \in Uploads
  /\ Goto(r, "handling")
  /\ UNCHANGED <<disk, loop, lock, shares, order, written, paths, faults, up>>

\* The upload is spooled; its handler resumes after the last await.
EnterLoop(r) ==
  /\ At(r, "received") /\ order[r].kind \in Uploads
  /\ loop = Nobody /\ loop' = r
  /\ Goto(r, "handling")
  /\ UNCHANGED <<disk, lock, shares, order, written, paths, faults, up>>

\* refuse_duplicate, for every file of the list before any is stored: a committed
\* document of the batch has the same content.  Two equal files of the list pass.
RefuseDuplicate(r) ==
  /\ At(r, "handling")
  /\ IF ~order[r].forced /\ \E d \in RowsOf(BatchOf(r)) : ContentOf(d) \in Sent(r)
     THEN Goto(r, "done") /\ LeaveLoop(r)
     ELSE Goto(r, "checked") /\ UNCHANGED loop
  /\ UNCHANGED <<disk, lock, shares, order, written, paths, faults, up>>

\* lock_batch: a CSV upload takes it before it stores, a review at once.  A batch
\* that is gone gives no row to lock.
LockBatch(r) ==
  /\ \/ At(r, "checked") /\ order[r].kind = "csv"
     \/ At(r, "received") /\ order[r].kind = "review"
  /\ Exists(r) => BlocksUpdate(r) = {}
  /\ lock' = [lock EXCEPT ![BatchOf(r)] = IF Exists(r) THEN r ELSE @]
  /\ Goto(r, "locked")
  /\ UNCHANGED <<disk, loop, shares, order, written, paths, faults, up>>

Storing(r) ==
  \/ At(r, "locked") /\ order[r].kind = "csv"
  \/ At(r, "checked") /\ order[r].kind = "pdf"

\* store, the insert: it takes a KEY SHARE on the batch and fails without it.  A
\* statement that fails ends the transaction.
InsertRow(r) ==
  /\ Storing(r)
  /\ \/ /\ Exists(r) /\ BlocksShare(r) = {}
        /\ shares' = shares \cup {r}
        /\ Goto(r, "inserted")
        /\ UNCHANGED <<loop, lock, faults>>
     \/ /\ ~Exists(r)
        /\ Release(r) /\ Goto(r, "refused") /\ LeaveLoop(r)
        /\ UNCHANGED faults
     \/ Fault /\ Release(r) /\ Goto(r, "refused") /\ LeaveLoop(r)
  /\ UNCHANGED <<disk, order, written, paths, up>>

\* store, the file: written before the row is committed.  A list goes on with its
\* next file; a file that cannot be written ends the request, not its transaction.
WriteFile(r) ==
  /\ At(r, "inserted")
  /\ \/ /\ written' = [written EXCEPT ![r] = @ + 1]
        /\ files' = files \cup {<<r, written'[r]>>}
        /\ Goto(r, IF written'[r] = Len(order[r].contents) THEN "stored" ELSE "checked")
        /\ UNCHANGED <<loop, faults>>
     \/ Fault /\ Goto(r, "refused") /\ LeaveLoop(r) /\ UNCHANGED <<files, written>>
  /\ UNCHANGED <<batches, rows, lock, shares, order, paths, up>>

\* Mutant of Commit: the handler leaves the transaction open.
CommitForgotten(r) ==
  /\ At(r, "stored")
  /\ rows' = rows \cup DocumentsOf(r)
  /\ Goto(r, "done") /\ LeaveLoop(r)
  /\ UNCHANGED <<batches, files, lock, shares, order, written, paths, faults, up>>

\* import_csv and create_jobs end with the commit, unless the file has not the
\* structure of an import, or a statement fails.
Commit(r) ==
  /\ At(r, "stored")
  /\ \/ /\ order[r].kind = "csv" => order[r].accepted
        /\ rows' = rows \cup DocumentsOf(r)
        /\ Release(r) /\ Goto(r, "done")
        /\ UNCHANGED faults
     \/ /\ order[r].kind = "csv" /\ ~order[r].accepted
        /\ Goto(r, "refused")
        /\ UNCHANGED <<rows, lock, shares, faults>>
     \/ Fault /\ Release(r) /\ Goto(r, "refused") /\ UNCHANGED rows
  /\ LeaveLoop(r)
  /\ UNCHANGED <<batches, files, order, written, paths, up>>

\* A review (correction, revalidation, approval) commits or is refused.
Review(r) ==
  /\ At(r, "locked") /\ order[r].kind = "review"
  /\ IF order[r].accepted /\ Exists(r)
     THEN Release(r) /\ Goto(r, "done")
     ELSE Goto(r, "refused") /\ UNCHANGED <<lock, shares>>
  /\ UNCHANGED <<disk, loop, order, written, paths, faults, up>>

\* Mutant of Close: get_session without its finally.
CloseForgotten(r) ==
  /\ At(r, "refused") /\ loop = Nobody
  /\ Goto(r, "done")
  /\ UNCHANGED <<disk, loop, lock, shares, order, written, paths, faults, up>>

\* session.close() of a refused request: the event loop has to come round to it.
Close(r) ==
  /\ At(r, "refused") /\ loop = Nobody
  /\ Release(r) /\ Goto(r, "done")
  /\ UNCHANGED <<disk, loop, order, written, paths, faults, up>>

-----------------------------------------------------------------------------
(***************************************************************************)
(* read_for_record: the row, then the file.                                *)
(***************************************************************************)
FindDocument(r) ==
  /\ At(r, "received") /\ order[r].kind = "open"
  /\ \/ \E d \in RowsOf(BatchOf(r)) : paths' = [paths EXCEPT ![r] = {d}] /\ Goto(r, "found")
     \/ RowsOf(BatchOf(r)) = {} /\ Goto(r, "done") /\ UNCHANGED paths
  /\ UNCHANGED <<disk, loop, lock, shares, order, written, faults, up>>

\* The content is served, or the document is no longer available (410).
ReadFile(r) ==
  /\ At(r, "found")
  /\ Goto(r, "done")
  /\ UNCHANGED <<disk, loop, lock, shares, order, written, paths, faults, up>>

(***************************************************************************)
(* delete_batch: collect the paths, commit, then unlink.                   *)
(***************************************************************************)
\* Mutant of CollectFiles: the files are removed before the commit.
CollectAndUnlink(r) ==
  /\ At(r, "received") /\ order[r].kind = "delete"
  /\ files' = files \ RowsOf(BatchOf(r))
  /\ Goto(r, "collected")
  /\ UNCHANGED <<batches, rows, loop, lock, shares, order, written, paths, faults, up>>

CollectFiles(r) ==
  /\ At(r, "received") /\ order[r].kind = "delete"
  /\ paths' = [paths EXCEPT ![r] = RowsOf(BatchOf(r))]
  /\ Goto(r, "collected")
  /\ UNCHANGED <<disk, loop, lock, shares, order, written, faults, up>>

\* session.delete(batch) and its commit: the rows cascade away.  The DELETE waits
\* for whoever holds the batch.
DeleteBatch(r) ==
  /\ At(r, "collected")
  /\ \/ /\ Exists(r) => BlocksUpdate(r) = {}
        /\ batches' = batches \ {BatchOf(r)}
        /\ rows' = rows \ RowsOf(BatchOf(r))
        /\ Goto(r, "deleted")
        /\ UNCHANGED faults
     \/ Fault /\ Goto(r, "refused") /\ UNCHANGED <<batches, rows>>
  /\ UNCHANGED <<files, loop, lock, shares, order, written, paths, up>>

UnlinkFiles(r) ==
  /\ At(r, "deleted")
  /\ IF paths[r] = {}
     THEN Goto(r, "done") /\ UNCHANGED <<files, paths>>
     ELSE /\ \E d \in paths[r] : files' = files \ {d} /\ paths' = [paths EXCEPT ![r] = @ \ {d}]
          /\ UNCHANGED pc
  /\ UNCHANGED <<batches, rows, loop, lock, shares, order, written, faults, up>>

\* The process dies: PostgreSQL ends its transactions, the disk keeps its files.
Crash ==
  /\ up /\ up' = FALSE
  /\ loop' = Nobody
  /\ lock' = [b \in Batches |-> Nobody] /\ shares' = {}
  /\ UNCHANGED <<disk, pc, order, written, paths, faults>>

-----------------------------------------------------------------------------
Serve(r) ==
  \/ EnterLoop(r) \/ RefuseDuplicate(r) \/ LockBatch(r)
  \/ InsertRow(r) \/ WriteFile(r) \/ Commit(r) \/ Review(r) \/ Close(r)
  \/ FindDocument(r) \/ ReadFile(r)
  \/ CollectFiles(r) \/ DeleteBatch(r) \/ UnlinkFiles(r)

Next ==
  \/ \E r \in Requests : Receive(r) \/ Serve(r)
  \/ Crash

\* A request that was received is served: the loop, the threads and the database
\* make progress whenever they can.
Fairness == \A r \in Requests : WF_vars(Serve(r))

Spec == Init /\ [][Next]_vars /\ Fairness

-----------------------------------------------------------------------------
(***************************************************************************)
(* Properties.                                                             *)
(***************************************************************************)

\* A stored document can always be opened: at no moment, and after no crash, does
\* a row point at a file that is gone (delete_batch: "which is the broken 'open
\* the source document' button").
RowsHaveFiles == rows \subseteq files

\* A document that is byte-identical to one of another request enters the batch only
\* when a person chose so (refuse_duplicate), although nothing is locked between the
\* check and the insert.  Equal files of one list are not compared, and both enter.
NoReuploadUnlessForced ==
  \A c, d \in rows :
    c[1] # d[1] /\ BatchOf(c[1]) = BatchOf(d[1]) /\ ContentOf(c) = ContentOf(d)
      => order[c[1]].forced \/ order[d[1]].forced

(***************************************************************************)
(* The inductive invariant of the proofs: it implies the safety invariants *)
(* above.                                                                  *)
(***************************************************************************)

\* The stretch of an upload handler without an await: it keeps the event loop.
InLoop(r) == pc[r] \in {"handling", "checked", "inserted", "stored"} \/ (pc[r] = "locked" /\ order[r].kind = "csv")
LoopIsKept == up => \A r \in Requests : InLoop(r) => loop = r

\* So what refuse_duplicate saw is still so when the document is committed.
CheckIsCurrent ==
  up => \A r \in Requests : InLoop(r) /\ pc[r] # "handling" /\ ~order[r].forced =>
          \A d \in RowsOf(BatchOf(r)) : ContentOf(d) \notin Sent(r)

\* The files are written before their rows are committed, and the rows and paths anyone
\* holds are those of uploads that are over.
FilesComeFirst ==
  \A r \in Requests :
    /\ pc[r] # "done" => \A i \in 1..written[r] : <<r, i>> \in files
    /\ pc[r] = "stored" => written[r] = Len(order[r].contents)
RowsAreCommitted ==
  /\ \A d \in rows : pc[d[1]] = "done" /\ d[2] \in DOMAIN order[d[1]].contents
  /\ \A r \in Requests : \A d \in paths[r] : pc[d[1]] = "done"

\* A deletion has collected documents of its batch, and removes a file only when the
\* row is gone.
PathsAreDeleted ==
  \A r \in Requests :
    /\ pc[r] = "collected" => \A d \in paths[r] : BatchOf(d[1]) = BatchOf(r)
    /\ pc[r] = "deleted" => paths[r] \cap rows = {}

Inductive ==
  /\ TypeOK
  /\ RowsHaveFiles
  /\ NoReuploadUnlessForced
  /\ LoopIsKept
  /\ CheckIsCurrent
  /\ FilesComeFirst
  /\ RowsAreCommitted
  /\ PathsAreDeleted

\* The handler that keeps the loop waits for a lock whose holder needs the loop.
WaitsForLock(r) ==
  Exists(r) /\ \/ pc[r] = "checked" /\ order[r].kind = "csv" /\ BlocksUpdate(r) # {}
               \/ Storing(r) /\ BlocksShare(r) # {}
Hung ==
  /\ loop # Nobody
  /\ WaitsForLock(loop)
  /\ \E q \in BlocksUpdate(loop) : pc[q] = "refused"

\* Every request that is received comes to its end, or the server has hung in the
\* one way it can: a refused request still holds the batch the loop waits for.
RequestsEnd == \A r \in Requests : pc[r] = "received" ~> pc[r] = "done" \/ Hung \/ ~up

\* A deletion removes every file of the batch: a document whose row it deleted is
\* not left on the disk (collect_stored_files: "or they leak for good").
DeletionLeaksNoFile ==
  [][\A r \in Requests : At(r, "collected") /\ pc'[r] = "deleted" => RowsOf(BatchOf(r)) \subseteq paths[r]]_vars
=============================================================================
