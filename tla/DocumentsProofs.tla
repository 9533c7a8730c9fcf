-------------------------- MODULE DocumentsProofs --------------------------
(***************************************************************************)
(* What every run of Documents preserves, proved for any requests,         *)
(* batches, contents, orders and number of failures.                       *)
(*                                                                         *)
(* The argument: an upload handler keeps the event loop from the check for *)
(* duplicates to its commit (LoopIsKept), so no other document enters the  *)
(* table in between and the check is still right (CheckIsCurrent).  The    *)
(* rows of a list are committed after its files are written                *)
(* (FilesComeFirst), and a file is unlinked after its row was deleted;     *)
(* only an upload inserts its own rows, and it does so once, so a row does *)
(* not come back (RowsAreCommitted, PathsAreDeleted).                      *)
(***************************************************************************)
EXTENDS Documents, TLAPS

\* Before any request the invariant holds.
LEMMA InitInductive == Init => Inductive
<1> SUFFICES ASSUME Init PROVE Inductive
  OBVIOUS
<1> USE DEF Init
<1>1. TypeOK
  BY OrderAssumption DEF TypeOK
<1>2. RowsHaveFiles /\ NoReuploadUnlessForced
  BY DEF RowsHaveFiles, NoReuploadUnlessForced
<1>3. LoopIsKept /\ CheckIsCurrent
  BY DEF LoopIsKept, CheckIsCurrent, InLoop
<1>4. FilesComeFirst /\ RowsAreCommitted /\ PathsAreDeleted
  BY DEF FilesComeFirst, RowsAreCommitted, PathsAreDeleted
<1> QED BY <1>1, <1>2, <1>3, <1>4 DEF Inductive

\* What a request that was received asks for.
LEMMA OrderType ==
  ASSUME TypeOK, NEW r \in Requests, pc[r] # "idle"
  PROVE  /\ r \in DOMAIN order /\ order[r] \in Order
         /\ BatchOf(r) \in Batches
         /\ order[r].contents \in Seq(Contents)
         /\ DocumentsOf(r) \subseteq Document
BY DEF TypeOK, Order, BatchOf, DocumentsOf, Document

\* The documents anyone speaks of belong to requests.
LEMMA OwnersAreRequests ==
  ASSUME TypeOK
  PROVE  /\ \A d \in rows : d[1] \in Requests
         /\ \A q \in Requests : \A d \in paths[q] : d[1] \in Requests
BY DEF TypeOK, Document

\* A request moves on and leaves the rows and the files alone.  Most steps are of this
\* kind: what they have to keep is the hold on the loop and the outcome of the check.
LEMMA RequestMoves ==
  ASSUME Inductive, TypeOK', NEW r \in Requests, NEW place, up,
         pc[r] \notin {"idle", "done"}, place \notin {"idle", "stored", "deleted"},
         pc' = [pc EXCEPT ![r] = place],
         UNCHANGED <<batches, rows, files, order, written, up>>,
         \A q \in Requests \ {r} : paths'[q] = paths[q] /\ (loop = q => loop' = q),
         \A d \in paths'[r] : pc[d[1]] = "done" /\ (place = "collected" => BatchOf(d[1]) = BatchOf(r)),
         InLoop(r)' => loop' = r,
         InLoop(r)' /\ place # "handling" /\ ~order[r].forced =>
           \A d \in RowsOf(BatchOf(r)) : ContentOf(d) \notin Sent(r)
  PROVE  Inductive'
<1> USE DEF Inductive
<1>0. pc'[r] = place /\ \A q \in Requests : q # r => pc'[q] = pc[q] /\ (InLoop(q)' <=> InLoop(q))
  BY DEF TypeOK, InLoop
<1>01. \A d \in Requests : pc[d] = "done" => pc'[d] = "done"
  BY <1>0
<1>1. RowsHaveFiles' /\ NoReuploadUnlessForced'
  BY DEF RowsHaveFiles, NoReuploadUnlessForced, BatchOf, ContentOf
<1>2. LoopIsKept'
  BY <1>0 DEF LoopIsKept
<1>3. CheckIsCurrent'
  BY <1>0 DEF CheckIsCurrent, RowsOf, BatchOf, ContentOf, Sent
<1>4. FilesComeFirst'
  BY <1>0 DEF FilesComeFirst
<1>5. RowsAreCommitted'
  BY <1>01, OwnersAreRequests DEF RowsAreCommitted, TypeOK, Document
<1>6. PathsAreDeleted'
  BY <1>0 DEF PathsAreDeleted, BatchOf
<1> QED BY <1>1, <1>2, <1>3, <1>4, <1>5, <1>6

\* An upload handler resumes after its last await and takes the loop.
LEMMA EnterLoopInductive ==
  ASSUME Inductive, NEW r \in Requests, EnterLoop(r)
  PROVE  Inductive'
<1> USE DEF Inductive, EnterLoop, At, Goto, disk
<1>1. TypeOK'
  BY DEF TypeOK
<1>2. InLoop(r)' => loop' = r
  BY DEF TypeOK
<1>3. \A d \in paths'[r] : pc[d[1]] = "done"
  BY DEF RowsAreCommitted
<1>4. PICK place \in {"handling"} : pc' = [pc EXCEPT ![r] = place]
  OBVIOUS
<1>5. pc[r] \notin {"idle", "done"} /\ up /\ UNCHANGED <<batches, rows, files, order, written, up>>
  OBVIOUS
<1>6. \A q \in Requests \ {r} : paths'[q] = paths[q] /\ (loop = q => loop' = q)
  BY RequestAssumption
<1>7. Inductive
  OBVIOUS
<1> HIDE DEF EnterLoop, At, Goto, disk, Inductive
<1>8. place = "handling" /\ place \notin {"idle", "stored", "deleted"}
  BY <1>4
<1>9. \A d \in paths'[r] : pc[d[1]] = "done" /\ (place = "collected" => BatchOf(d[1]) = BatchOf(r))
  BY <1>3, <1>8
<1> QED BY <1>1, <1>2, <1>4, <1>5, <1>6, <1>7, <1>8, <1>9, RequestMoves

\* refuse_duplicate: a request that passes the check has no committed twin.
LEMMA RefuseDuplicateInductive ==
  ASSUME Inductive, NEW r \in Requests, RefuseDuplicate(r)
  PROVE  Inductive'
<1> USE DEF Inductive, RefuseDuplicate, At, Goto, disk, LeaveLoop
<1>1. PICK place \in {"checked", "done"} : pc' = [pc EXCEPT ![r] = place]
  OBVIOUS
<1>2. loop = r
  BY DEF LoopIsKept, InLoop
<1>3. TypeOK'
  BY <1>2 DEF TypeOK
<1>4. pc'[r] = place /\ (InLoop(r)' => loop' = r)
  BY <1>1, <1>2 DEF TypeOK, InLoop
<1>5. InLoop(r)' /\ place # "handling" /\ ~order[r].forced =>
        \A d \in RowsOf(BatchOf(r)) : ContentOf(d) \notin Sent(r)
  BY <1>4 DEF InLoop, TypeOK
<1>6. \A d \in paths'[r] : pc[d[1]] = "done"
  BY DEF RowsAreCommitted
<1>7. \A q \in Requests \ {r} : paths'[q] = paths[q] /\ (loop = q => loop' = q)
  BY <1>2
<1> HIDE DEF RefuseDuplicate, LeaveLoop, Inductive, Goto
<1>8. UNCHANGED <<batches, rows, files, order, written, up>> /\ up /\ pc[r] = "handling"
  BY DEF RefuseDuplicate
<1> QED BY <1>1, <1>3, <1>4, <1>5, <1>6, <1>7, <1>8, RequestMoves

\* lock_batch: the loop stays where it is, and so does what the check saw.
LEMMA LockBatchInductive ==
  ASSUME Inductive, NEW r \in Requests, LockBatch(r)
  PROVE  Inductive'
<1> USE DEF Inductive, LockBatch, At, Goto, disk
<1>0. BatchOf(r) \in Batches
  BY OrderType
<1>1. TypeOK'
  BY <1>0 DEF TypeOK
<1>2. InLoop(r)' => pc[r] = "checked" /\ InLoop(r)
  BY DEF InLoop, TypeOK
<1>3. InLoop(r)' => loop' = r
  BY <1>2 DEF LoopIsKept
<1>4. InLoop(r)' /\ ~order[r].forced => \A d \in RowsOf(BatchOf(r)) : ContentOf(d) \notin Sent(r)
  BY <1>2 DEF CheckIsCurrent
<1>5. \A d \in paths'[r] : pc[d[1]] = "done"
  BY DEF RowsAreCommitted
<1>6. PICK place \in {"locked"} : pc' = [pc EXCEPT ![r] = place]
  OBVIOUS
<1>7. UNCHANGED <<batches, rows, files, order, written, up, loop, paths>> /\ up /\ pc[r] \in {"checked", "received"}
  OBVIOUS
<1> HIDE DEF LockBatch, Inductive, Goto
<1> QED BY <1>1, <1>3, <1>4, <1>5, <1>6, <1>7, RequestMoves

\* The insert: it keeps the loop, or is refused and leaves it.
LEMMA InsertRowInductive ==
  ASSUME Inductive, NEW r \in Requests, InsertRow(r)
  PROVE  Inductive'
<1> USE DEF Inductive, InsertRow, Storing, At, Goto, disk, LeaveLoop, Fault
<1>1. PICK place \in {"inserted", "refused"} :
        pc' = [pc EXCEPT ![r] = place] /\ (place = "inserted" => loop' = loop)
  OBVIOUS
<1>2. InLoop(r) /\ loop = r /\ pc[r] \in {"locked", "checked"}
  BY DEF LoopIsKept, InLoop
<1>3. TypeOK'
  BY <1>2, OrderAssumption DEF TypeOK, Release
<1>4. pc'[r] = place /\ (InLoop(r)' => loop' = r)
  BY <1>1, <1>2 DEF TypeOK, InLoop
<1>5. ~order[r].forced => \A d \in RowsOf(BatchOf(r)) : ContentOf(d) \notin Sent(r)
  BY <1>2 DEF CheckIsCurrent
<1>6. \A d \in paths'[r] : pc[d[1]] = "done"
  BY DEF RowsAreCommitted
<1>7. \A q \in Requests \ {r} : paths'[q] = paths[q] /\ (loop = q => loop' = q)
  BY <1>2
<1>8. UNCHANGED <<batches, rows, files, order, written, up>> /\ up
  OBVIOUS
<1> HIDE DEF InsertRow, LeaveLoop, Inductive, Goto, Fault, Storing
<1> QED BY <1>1, <1>2, <1>3, <1>4, <1>5, <1>6, <1>7, <1>8, RequestMoves

\* A review, a refused session's end, and an opening hold nothing these speak of.
LEMMA BystanderInductive ==
  ASSUME Inductive, NEW r \in Requests, Review(r) \/ Close(r) \/ FindDocument(r) \/ ReadFile(r)
  PROVE  Inductive'
<1> USE DEF Inductive, At, Goto, disk
<1>1. PICK place \in {"done", "refused", "found"} : pc' = [pc EXCEPT ![r] = place]
  BY DEF Review, Close, FindDocument, ReadFile
<1>2. TypeOK'
  <2>1. UNCHANGED <<batches, rows, files, loop, order, written, faults, up>> /\ pc[r] \in {"locked", "refused", "received", "found"}
    BY DEF Review, Close, FindDocument, ReadFile
  <2>2. /\ pc' \in [Requests -> {"idle", "received", "handling", "checked", "locked", "inserted", "stored",
                                "found", "collected", "deleted", "refused", "done"}]
        /\ pc'[r] = place /\ \A q \in Requests \ {r} : pc'[q] = pc[q]
    BY <1>1 DEF TypeOK
  <2>3. {q \in Requests : pc'[q] # "idle"} = {q \in Requests : pc[q] # "idle"}
    BY <1>1, <2>1, <2>2
  <2>4. lock' \in [Batches -> Requests \cup {Nobody}]
    BY DEF TypeOK, Review, Close, FindDocument, ReadFile, Release
  <2>5. paths' \in [Requests -> SUBSET Document]
    BY DEF TypeOK, Review, Close, FindDocument, ReadFile, RowsOf
  <2>6. shares' \subseteq shares /\ (r \in shares' => place = "refused")
    <3>1. CASE Review(r)
      BY <2>2, <3>1 DEF TypeOK, Review, Release
    <3>2. CASE Close(r)
      BY <3>2 DEF Close, Release
    <3>3. CASE FindDocument(r) \/ ReadFile(r)
      BY <3>3 DEF TypeOK, FindDocument, ReadFile
    <3> QED BY <3>1, <3>2, <3>3
  <2>7. shares' \subseteq {q \in Requests : pc'[q] \in {"checked", "locked", "inserted", "stored", "refused"}}
    BY <2>2, <2>6 DEF TypeOK
  <2> QED BY <2>1, <2>2, <2>3, <2>4, <2>5, <2>7 DEF TypeOK
<1>3. pc'[r] = place /\ UNCHANGED <<batches, rows, files, order, written, loop, up>> /\ up
      /\ pc[r] \in {"locked", "refused", "received", "found"}
  BY <1>1 DEF TypeOK, Review, Close, FindDocument, ReadFile
<1>4. ~InLoop(r)'
  BY <1>3 DEF InLoop
<1>5. \A d \in paths'[r] : pc[d[1]] = "done"
  BY DEF RowsAreCommitted, Review, Close, FindDocument, ReadFile, RowsOf, TypeOK
<1>6. \A q \in Requests \ {r} : paths'[q] = paths[q]
  BY DEF Review, Close, FindDocument, ReadFile, TypeOK
<1>7. pc' = [pc EXCEPT ![r] = place]
  BY <1>1
<1> HIDE DEF Inductive, At, Goto, disk
<1> QED BY <1>1, <1>2, <1>3, <1>4, <1>5, <1>6, <1>7, RequestMoves

\* A deletion collects the paths of committed documents of its batch.
LEMMA CollectFilesInductive ==
  ASSUME Inductive, NEW r \in Requests, CollectFiles(r)
  PROVE  Inductive'
<1> USE DEF Inductive, CollectFiles, At, Goto, disk
<1>1. TypeOK'
  BY DEF TypeOK, RowsOf
<1>2. pc'[r] = "collected" /\ ~InLoop(r)'
  BY DEF TypeOK, InLoop
<1>3. \A d \in paths'[r] : pc[d[1]] = "done" /\ BatchOf(d[1]) = BatchOf(r)
  BY DEF RowsAreCommitted, RowsOf, TypeOK
<1>4. \A q \in Requests \ {r} : paths'[q] = paths[q]
  BY DEF TypeOK
<1>5. pc[r] = "received" /\ pc' = [pc EXCEPT ![r] = "collected"]
      /\ UNCHANGED <<batches, rows, files, order, written, loop, up>> /\ up
  OBVIOUS
<1> HIDE DEF Inductive, CollectFiles, At, Goto, disk
<1> QED BY <1>1, <1>2, <1>3, <1>4, <1>5, RequestMoves

\* store writes the file: from now on the row may be committed.  Or it cannot, and the
\* request is refused.
LEMMA WriteFileInductive ==
  ASSUME Inductive, NEW r \in Requests, WriteFile(r)
  PROVE  Inductive'
<1> USE DEF Inductive, At, Goto
<1>1. /\ up /\ pc[r] = "inserted" /\ InLoop(r) /\ loop = r
      /\ UNCHANGED <<batches, rows, lock, shares, order, paths, up>>
  BY DEF WriteFile, InLoop, LoopIsKept
<1>2. order[r].contents \in Seq(Contents)
  BY <1>1, OrderType
<1>3. CASE files' = files /\ written' = written /\ loop' # loop
  <2>1. PICK place \in {"refused"} : pc' = [pc EXCEPT ![r] = place]
    BY <1>3 DEF WriteFile
  <2>2. TypeOK'
    BY <1>1, <1>3, <2>1, OrderAssumption DEF TypeOK, WriteFile, LeaveLoop, Fault
  <2>3. ~InLoop(r)'
    BY <2>1 DEF TypeOK, InLoop
  <2>4. \A d \in paths'[r] : pc[d[1]] = "done"
    BY <1>1 DEF RowsAreCommitted
  <2> HIDE DEF Inductive
  <2> QED BY <1>1, <1>3, <2>1, <2>2, <2>3, <2>4, RequestMoves
<1>4. CASE ~(files' = files /\ written' = written /\ loop' # loop)
  <2>1. PICK place \in {"checked", "stored"} :
          /\ pc' = [pc EXCEPT ![r] = place]
          /\ place = "stored" => written'[r] = Len(order[r].contents)
    BY <1>1, <1>4, RequestAssumption DEF WriteFile, LeaveLoop
  <2>2. /\ written' = [written EXCEPT ![r] = @ + 1] /\ files' = files \cup {<<r, written'[r]>>}
        /\ UNCHANGED <<loop, faults>>
    BY <1>1, <1>4, RequestAssumption DEF WriteFile, LeaveLoop
  <2>3. TypeOK'
    <3>1. written'[r] \in Nat \ {0} /\ <<r, written'[r]>> \in Document
      BY <2>2 DEF TypeOK, Document
    <3> QED BY <1>1, <2>1, <2>2, <3>1 DEF TypeOK
  <2>4. pc'[r] = place /\ \A q \in Requests : (q # r => pc'[q] = pc[q]) /\ (InLoop(q)' <=> InLoop(q))
    BY <1>1, <2>1 DEF TypeOK, InLoop
  <2>5. \A q \in Requests : pc[q] = "done" => pc'[q] = "done"
    BY <1>1, <2>4
  <2>6. RowsHaveFiles' /\ NoReuploadUnlessForced'
    BY <1>1, <2>2 DEF RowsHaveFiles, NoReuploadUnlessForced, BatchOf, ContentOf
  <2>7. LoopIsKept'
    BY <1>1, <2>2, <2>4 DEF LoopIsKept
  <2>8. CheckIsCurrent'
    BY <1>1, <2>4 DEF CheckIsCurrent, RowsOf, BatchOf, ContentOf, Sent
  <2>9. FilesComeFirst'
    <3>1. ASSUME NEW i \in 1..written'[r] PROVE <<r, i>> \in files'
      BY <1>1, <2>2 DEF TypeOK, FilesComeFirst
    <3> QED BY <1>1, <2>1, <2>2, <2>4, <3>1 DEF TypeOK, FilesComeFirst
  <2>10. RowsAreCommitted'
    BY <1>1, <2>5, OwnersAreRequests DEF RowsAreCommitted
  <2>11. PathsAreDeleted'
    BY <1>1, <2>4 DEF PathsAreDeleted, BatchOf
  <2> QED BY <2>3, <2>6, <2>7, <2>8, <2>9, <2>10, <2>11
<1> QED BY <1>3, <1>4

\* The commit: the one step that brings a row in.  Its handler has the loop, so no
\* other is between its check and its commit, and its own check is still right.
LEMMA CommitInductive ==
  ASSUME Inductive, NEW r \in Requests, Commit(r)
  PROVE  Inductive'
<1> USE DEF Inductive, At, Goto
<1>1. up /\ pc[r] = "stored" /\ InLoop(r) /\ loop = r
  BY DEF Commit, InLoop, LoopIsKept
<1>0. /\ DocumentsOf(r) \subseteq Document /\ DocumentsOf(r) \subseteq files
      /\ \A d \in DocumentsOf(r) :
           d[1] = r /\ d[2] \in DOMAIN order[r].contents /\ ContentOf(d) \in Sent(r)
  <2>1. \A d \in DocumentsOf(r) : \E i \in DOMAIN order[r].contents : d = <<r, i>>
    BY DEF DocumentsOf
  <2>2. DOMAIN order[r].contents = 1..written[r]
    BY <1>1, OrderType DEF FilesComeFirst
  <2>3. DocumentsOf(r) \subseteq files
    BY <1>1, <2>1, <2>2 DEF FilesComeFirst
  <2>4. \A d \in DocumentsOf(r) :
          d[1] = r /\ d[2] \in DOMAIN order[r].contents /\ ContentOf(d) \in Sent(r)
    BY <2>1 DEF ContentOf, Sent
  <2> QED BY <1>1, <2>3, <2>4, OrderType
<1>2. CASE rows' = rows
  <2>1. PICK place \in {"done", "refused"} : pc' = [pc EXCEPT ![r] = place]
    BY DEF Commit
  <2>2. TypeOK'
    BY <1>1, <1>2, OrderAssumption DEF TypeOK, Commit, Release, LeaveLoop, Fault
  <2>3. pc'[r] = place /\ ~InLoop(r)'
    BY <2>1 DEF TypeOK, InLoop
  <2>4. UNCHANGED <<batches, rows, files, order, written, paths, up>>
    BY <1>2 DEF Commit
  <2>5. \A d \in paths'[r] : pc[d[1]] = "done"
    BY <2>4 DEF RowsAreCommitted
  <2>6. \A q \in Requests \ {r} : paths'[q] = paths[q] /\ (loop = q => loop' = q)
    BY <1>1, <2>4
  <2> HIDE DEF Inductive
  <2> QED BY <1>1, <2>1, <2>2, <2>3, <2>4, <2>5, <2>6, RequestMoves
<1>3. CASE rows' # rows
  <2>1. /\ rows' = rows \cup DocumentsOf(r) /\ pc' = [pc EXCEPT ![r] = "done"]
        /\ Release(r) /\ LeaveLoop(r)
        /\ UNCHANGED <<batches, files, order, written, paths, faults, up>>
    BY <1>3 DEF Commit
  <2>2. TypeOK'
    BY <1>0, <1>1, <2>1 DEF TypeOK, Release, LeaveLoop
  <2>3. pc'[r] = "done" /\ \A q \in Requests \ {r} : pc'[q] = pc[q]
    BY <2>1 DEF TypeOK
  <2>4. \A q \in Requests : ~InLoop(q)'
    BY <1>1, <2>1, <2>3 DEF InLoop, LoopIsKept
  <2>5. \A q \in Requests : \A d \in paths[q] : d[1] \in Requests \ {r}
    BY <1>1, OwnersAreRequests DEF RowsAreCommitted
  <2>6. RowsHaveFiles'
    BY <1>0, <2>1 DEF RowsHaveFiles
  <2>7. NoReuploadUnlessForced'
    <3>1. \A d \in rows : BatchOf(d[1]) = BatchOf(r) /\ ContentOf(d) \in Sent(r) => order[r].forced
      BY <1>1 DEF CheckIsCurrent, RowsOf
    <3>2. SUFFICES ASSUME NEW c \in rows', NEW d \in rows', c[1] # d[1],
                          BatchOf(c[1]) = BatchOf(d[1]), ContentOf(c) = ContentOf(d)
                   PROVE  order[c[1]].forced \/ order[d[1]].forced
      BY <2>1 DEF NoReuploadUnlessForced, BatchOf, ContentOf
    <3>3. CASE c \in rows /\ d \in rows
      BY <3>2, <3>3 DEF NoReuploadUnlessForced
    <3>4. CASE c \in DocumentsOf(r) /\ d \in rows
      BY <1>0, <3>1, <3>2, <3>4
    <3>5. CASE c \in rows /\ d \in DocumentsOf(r)
      BY <1>0, <3>1, <3>2, <3>5
    <3>6. ~(c \in DocumentsOf(r) /\ d \in DocumentsOf(r))
      BY <1>0, <3>2
    <3> QED BY <2>1, <3>3, <3>4, <3>5, <3>6
  <2>8. LoopIsKept' /\ CheckIsCurrent'
    BY <2>4 DEF LoopIsKept, CheckIsCurrent
  <2>9. FilesComeFirst' /\ RowsAreCommitted'
    BY <1>0, <2>1, <2>3, <2>5, OwnersAreRequests DEF FilesComeFirst, RowsAreCommitted
  <2>10. PathsAreDeleted'
    BY <1>0, <2>1, <2>3, <2>5 DEF PathsAreDeleted, BatchOf
  <2> QED BY <2>2, <2>6, <2>7, <2>8, <2>9, <2>10
<1> QED BY <1>2, <1>3

\* session.delete and its commit: what the deletion collected has no row any more.
LEMMA DeleteBatchInductive ==
  ASSUME Inductive, NEW r \in Requests, DeleteBatch(r)
  PROVE  Inductive'
<1> USE DEF Inductive, At, Goto
<1>1. up /\ pc[r] = "collected" /\ UNCHANGED <<files, loop, lock, shares, order, written, paths, up>>
  BY DEF DeleteBatch
<1>2. PICK place \in {"deleted", "refused"} :
        /\ pc' = [pc EXCEPT ![r] = place]
        /\ place = "deleted" => rows' = rows \ RowsOf(BatchOf(r))
  BY DEF DeleteBatch
<1>3. rows' \subseteq rows /\ batches' \subseteq batches
  BY DEF DeleteBatch
<1>4. TypeOK'
  BY <1>1, <1>2, <1>3, OrderAssumption DEF TypeOK, DeleteBatch, Fault
<1>5. pc'[r] = place /\ \A q \in Requests : (q # r => pc'[q] = pc[q]) /\ (InLoop(q)' <=> InLoop(q))
  BY <1>1, <1>2 DEF TypeOK, InLoop
<1>6. \A d \in Requests : pc[d] = "done" => pc'[d] = "done"
  BY <1>1, <1>5
<1>8. RowsHaveFiles' /\ NoReuploadUnlessForced'
  BY <1>1, <1>3 DEF RowsHaveFiles, NoReuploadUnlessForced, BatchOf, ContentOf
<1>9. LoopIsKept'
  BY <1>1, <1>5 DEF LoopIsKept
<1>10. CheckIsCurrent'
  <2>1. \A q \in Requests : RowsOf(BatchOf(q))' \subseteq RowsOf(BatchOf(q))
    BY <1>1, <1>3 DEF RowsOf, BatchOf
  <2>2. \A q \in Requests : InLoop(q)' /\ pc'[q] # "handling" => InLoop(q) /\ pc[q] # "handling"
    BY <1>1, <1>5 DEF InLoop
  <2>3. (\A d : ContentOf(d)' = ContentOf(d)) /\ (\A q \in Requests : Sent(q)' = Sent(q))
    BY <1>1 DEF ContentOf, Sent
  <2>4. up' = up /\ order' = order
    BY <1>1
  <2>5. CheckIsCurrent
    BY DEF Inductive
  <2> HIDE DEF Inductive, At, Goto
  <2> QED BY <2>1, <2>2, <2>3, <2>4, <2>5 DEF CheckIsCurrent
<1>11. FilesComeFirst'
  BY <1>1, <1>5 DEF FilesComeFirst
<1>12. RowsAreCommitted'
  BY <1>1, <1>3, <1>6, OwnersAreRequests DEF RowsAreCommitted
<1>13. PathsAreDeleted'
  <2>1. place = "deleted" => paths[r] \cap rows' = {}
    BY <1>1, <1>2 DEF PathsAreDeleted, RowsOf
  <2>2. ASSUME NEW q \in Requests \ {r}
        PROVE  /\ pc'[q] = "collected" => \A d \in paths'[q] : BatchOf(d[1])' = BatchOf(q)'
               /\ pc'[q] = "deleted" => paths'[q] \cap rows' = {}
    BY <1>1, <1>3, <1>5 DEF PathsAreDeleted, BatchOf
  <2> QED BY <1>1, <1>2, <1>5, <2>1, <2>2 DEF PathsAreDeleted
<1> HIDE DEF Inductive
<1> QED BY <1>4, <1>8, <1>9, <1>10, <1>11, <1>12, <1>13 DEF Inductive

\* unlink: the file of a document without a row, whose upload is over.
LEMMA UnlinkFilesInductive ==
  ASSUME Inductive, NEW r \in Requests, UnlinkFiles(r)
  PROVE  Inductive'
<1> USE DEF Inductive, At, Goto
<1>1. up /\ pc[r] = "deleted" /\ UNCHANGED <<batches, rows, loop, lock, shares, order, written, faults, up>>
  BY DEF UnlinkFiles
<1>2. CASE paths[r] = {}
  <2>1. PICK place \in {"done"} : pc' = [pc EXCEPT ![r] = place]
    BY <1>2 DEF UnlinkFiles
  <2>2. UNCHANGED <<files, paths>>
    BY <1>2 DEF UnlinkFiles
  <2>3. TypeOK'
    BY <1>1, <2>1, <2>2 DEF TypeOK
  <2>4. ~InLoop(r)'
    BY <2>1 DEF TypeOK, InLoop
  <2> HIDE DEF Inductive
  <2> QED BY <1>1, <1>2, <2>1, <2>2, <2>3, <2>4, RequestMoves
<1>3. CASE paths[r] # {}
  <2>1. PICK d \in paths[r] : files' = files \ {d} /\ paths' = [paths EXCEPT ![r] = @ \ {d}] /\ pc' = pc
    BY <1>3 DEF UnlinkFiles
  <2>2. TypeOK'
    <3>1. paths' \in [Requests -> SUBSET Document] /\ files' \subseteq Document
      BY <2>1 DEF TypeOK
    <3> QED BY <1>1, <2>1, <3>1 DEF TypeOK
  <2>3. d \notin rows /\ pc[d[1]] = "done"
    BY <1>1 DEF PathsAreDeleted, RowsAreCommitted
  <2>4. \A q \in Requests : paths'[q] \subseteq paths[q] /\ (InLoop(q)' <=> InLoop(q))
    BY <1>1, <2>1 DEF TypeOK, InLoop
  <2>5. RowsHaveFiles' /\ NoReuploadUnlessForced'
    BY <1>1, <2>1, <2>3 DEF RowsHaveFiles, NoReuploadUnlessForced, BatchOf, ContentOf
  <2>6. LoopIsKept'
    BY <1>1, <2>4 DEF LoopIsKept
  <2>7. CheckIsCurrent'
    BY <1>1, <2>1, <2>4 DEF CheckIsCurrent, RowsOf, BatchOf, ContentOf, Sent
  <2>8. FilesComeFirst' /\ RowsAreCommitted'
    BY <1>1, <2>1, <2>3, <2>4 DEF FilesComeFirst, RowsAreCommitted
  <2>9. PathsAreDeleted'
    BY <1>1, <2>1, <2>4 DEF PathsAreDeleted, BatchOf
  <2> QED BY <2>2, <2>5, <2>6, <2>7, <2>8, <2>9
<1> QED BY <1>2, <1>3

\* A request comes in: nothing the invariant speaks of is its own yet.
LEMMA ReceiveInductive ==
  ASSUME Inductive, NEW r \in Requests, Receive(r)
  PROVE  Inductive'
<1> USE DEF Inductive, At, Goto, disk
<1>1. PICK o \in Orders : order' = [q \in DOMAIN order \cup {r} |-> IF q = r THEN o ELSE order[q]]
  BY DEF Receive
<1>2. /\ pc[r] = "idle" /\ pc' = [pc EXCEPT ![r] = "received"]
      /\ UNCHANGED <<batches, rows, files, loop, lock, shares, written, paths, faults, up>>
  BY DEF Receive
<1>3. DOMAIN order' = DOMAIN order \cup {r} /\ order'[r] = o /\ \A q \in DOMAIN order \ {r} : order'[q] = order[q]
  BY <1>1
<1>4. pc'[r] = "received" /\ \A q \in Requests \ {r} : pc'[q] = pc[q]
  BY <1>2 DEF TypeOK
<1>5. TypeOK'
  <2>1. DOMAIN order' = {q \in Requests : pc'[q] # "idle"}
    BY <1>2, <1>3, <1>4 DEF TypeOK
  <2>2. \A q \in DOMAIN order' : order'[q] \in Order
    BY <1>3, OrderAssumption DEF TypeOK
  <2>3. pc' \in [Requests -> {"idle", "received", "handling", "checked", "locked", "inserted", "stored",
                              "found", "collected", "deleted", "refused", "done"}]
    BY <1>2 DEF TypeOK
  <2>4. shares' \subseteq {q \in Requests : pc'[q] \in {"checked", "locked", "inserted", "stored", "refused"}}
    BY <1>2, <1>4 DEF TypeOK
  <2> QED BY <1>2, <2>1, <2>2, <2>3, <2>4 DEF TypeOK
<1>6. \A q \in Requests : pc[q] # "idle" => q # r /\ order'[q] = order[q] /\ BatchOf(q)' = BatchOf(q) /\ Sent(q)' = Sent(q)
  BY <1>2, <1>3 DEF TypeOK, BatchOf, Sent
<1>7. \A q \in Requests : InLoop(q)' <=> InLoop(q)
  BY <1>2, <1>4, <1>6 DEF InLoop
<1>8. \A q \in Requests : InLoop(q) => pc[q] # "idle"
  BY DEF InLoop
<1>9. /\ \A d \in rows : d[1] \in Requests /\ pc[d[1]] # "idle"
      /\ \A q \in Requests : \A d \in paths[q] : d[1] \in Requests /\ pc[d[1]] # "idle"
  BY OwnersAreRequests DEF RowsAreCommitted
<1>10. RowsHaveFiles' /\ NoReuploadUnlessForced'
  BY <1>2, <1>6, <1>9 DEF RowsHaveFiles, NoReuploadUnlessForced, ContentOf
<1>11. LoopIsKept'
  BY <1>2, <1>7 DEF LoopIsKept
<1>12. CheckIsCurrent'
  <2>1. SUFFICES ASSUME up, NEW q \in Requests, InLoop(q), pc'[q] # "handling", ~order'[q].forced,
                        NEW d \in rows, BatchOf(d[1])' = BatchOf(q)'
                 PROVE  ContentOf(d)' \notin Sent(q)'
    BY <1>2, <1>7 DEF CheckIsCurrent, RowsOf, BatchOf, ContentOf, Sent
  <2> QED BY <1>4, <1>6, <1>8, <1>9, <2>1 DEF CheckIsCurrent, RowsOf, ContentOf
<1>13. FilesComeFirst' /\ RowsAreCommitted'
  BY <1>2, <1>4, <1>6, <1>9 DEF FilesComeFirst, RowsAreCommitted
<1>14. PathsAreDeleted'
  BY <1>2, <1>4, <1>6, <1>9 DEF PathsAreDeleted
<1> HIDE DEF Inductive
<1> QED BY <1>5, <1>10, <1>11, <1>12, <1>13, <1>14 DEF Inductive

\* The process dies: what only a running server keeps up is asked of it no more.
LEMMA CrashInductive == Inductive /\ Crash => Inductive'
<1> SUFFICES ASSUME Inductive, Crash PROVE Inductive'
  OBVIOUS
<1> USE DEF Inductive, Crash, disk
<1>1. TypeOK'
  BY DEF TypeOK
<1>2. (RowsHaveFiles /\ NoReuploadUnlessForced /\ LoopIsKept /\ CheckIsCurrent)'
  BY DEF RowsHaveFiles, NoReuploadUnlessForced, BatchOf, ContentOf, LoopIsKept, CheckIsCurrent
<1>3. (FilesComeFirst /\ RowsAreCommitted /\ PathsAreDeleted)'
  BY DEF FilesComeFirst, RowsAreCommitted, PathsAreDeleted, BatchOf
<1> QED BY <1>1, <1>2, <1>3

\* Every step keeps the invariant.
LEMMA NextInductive == Inductive /\ [Next]_vars => Inductive'
<1> SUFFICES ASSUME Inductive, [Next]_vars PROVE Inductive'
  OBVIOUS
<1>1. ASSUME NEW r \in Requests, Receive(r) PROVE Inductive'
  BY <1>1, ReceiveInductive
<1>2. ASSUME NEW r \in Requests, Serve(r) PROVE Inductive'
  <2>1. CASE EnterLoop(r) \/ RefuseDuplicate(r) \/ LockBatch(r)
    BY <2>1, EnterLoopInductive, RefuseDuplicateInductive, LockBatchInductive
  <2>2. CASE InsertRow(r) \/ WriteFile(r) \/ Commit(r)
    BY <2>2, InsertRowInductive, WriteFileInductive, CommitInductive
  <2>3. CASE Review(r) \/ Close(r) \/ FindDocument(r) \/ ReadFile(r)
    BY <2>3, BystanderInductive
  <2>4. CASE CollectFiles(r) \/ DeleteBatch(r) \/ UnlinkFiles(r)
    BY <2>4, CollectFilesInductive, DeleteBatchInductive, UnlinkFilesInductive
  <2> QED BY <1>2, <2>1, <2>2, <2>3, <2>4 DEF Serve
<1>3. CASE Crash
  BY <1>3, CrashInductive
<1>4. CASE UNCHANGED vars
  <2> USE <1>4 DEF vars, Inductive
  <2>1. (TypeOK /\ RowsHaveFiles /\ NoReuploadUnlessForced /\ FilesComeFirst /\ RowsAreCommitted)'
    BY DEF TypeOK, RowsHaveFiles, NoReuploadUnlessForced, BatchOf, ContentOf, FilesComeFirst, RowsAreCommitted
  <2>2. (LoopIsKept /\ CheckIsCurrent /\ PathsAreDeleted)'
    BY DEF LoopIsKept, CheckIsCurrent, InLoop, PathsAreDeleted, RowsOf, BatchOf, ContentOf, Sent
  <2> QED BY <2>1, <2>2
<1> QED BY <1>1, <1>2, <1>3, <1>4 DEF Next

\* The inductive invariant holds in every reachable state.
THEOREM AlwaysInductive == Spec => []Inductive
BY InitInductive, NextInductive, PTL DEF Spec

\* The requests, the rows, the files and the locks are always of their types; a share
\* of a batch is never held by a request that is over.
THEOREM TypeCorrect == Spec => []TypeOK
<1>1. Inductive => TypeOK
  BY DEF Inductive
<1> QED BY <1>1, AlwaysInductive, PTL

\* No row ever points at a file that is gone, whichever statements fail, and wherever
\* the process dies: store writes before the commit, delete_batch unlinks after it.
THEOREM StoredDocumentsCanBeOpened == Spec => []RowsHaveFiles
<1>1. Inductive => RowsHaveFiles
  BY DEF Inductive
<1> QED BY <1>1, AlwaysInductive, PTL

\* refuse_duplicate is never out of date when the document is committed, although it
\* locks nothing: equal documents of a batch that two requests sent mean that a person
\* forced one.  Of the equal files of one list it says nothing: both are stored.
THEOREM ReuploadsAreForced == Spec => []NoReuploadUnlessForced
<1>1. Inductive => NoReuploadUnlessForced
  BY DEF Inductive
<1> QED BY <1>1, AlwaysInductive, PTL

=============================================================================
