------------------------------- MODULE Records -------------------------------
(***************************************************************************)
(* The life of the records of one batch under concurrent requests.         *)
(*                                                                         *)
(* Every request runs in a database transaction of its own, READ COMMITTED *)
(* in PostgreSQL: each statement sees what is committed when it starts,    *)
(* and nothing a request writes is visible before its commit.  What keeps  *)
(* the requests apart is the row lock lock_batch takes on the batch        *)
(* (SELECT ... FOR UPDATE), held until the transaction ends.               *)
(*                                                                         *)
(* A worker is a thread serving one request after another.  A step is one  *)
(* statement that reads or writes shared state; what the request computes  *)
(* in memory belongs to the step whose result it uses.                     *)
(***************************************************************************)
EXTENDS Verdicts

CONSTANTS Workers,       \* the threads that serve requests
          Nobody,        \* the lock is free
          Uploads,       \* the contents an import may bring: sequences of lines
          Edits,         \* the corrections the client may send for one record
          MaxRecords     \* bound: imports stop when the batch would hold more

ASSUME WorkerAssumption == Nobody \notin Workers
ASSUME UploadAssumption == Uploads \subseteq Seq(Line)
ASSUME EditAssumption == Edits \subseteq Change
ASSUME BoundAssumption == MaxRecords \in Nat

VARIABLES batch,         \* TRUE while the import_batch row exists
          records,       \* financial_record: the committed rows, in commit order
          holder,        \* who holds the batch row FOR UPDATE
          pc,            \* how far the worker's request has got
          op,            \* which request it is
          targets,       \* the records it is about (row numbers of the table)
          session,       \* the rows its ORM session has loaded, by record
          draft,         \* the rows as it is about to write them
          base           \* the arrival position an import read from the table

vars == <<batch, records, holder, pc, op, targets, session, draft, base>>

SingleOps == {"correct", "revalidate", "approve"}
UpdateOps == SingleOps \cup {"bulk"}
Ops == UpdateOps \cup {"import", "delete"}

Nothing == <<>>
NoChange == [reference |-> Unset, detail |-> Unset]

TypeOK ==
  /\ batch \in BOOLEAN
  /\ records \in Seq(Row)
  /\ holder \in Workers \cup {Nobody}
  /\ pc \in [Workers -> {"idle", "open", "locked", "fresh", "ready", "failed"}]
  /\ op \in [Workers -> Ops \cup {"none"}]
  /\ targets \in [Workers -> SUBSET Nat]
  /\ DOMAIN session = Workers /\ DOMAIN draft = Workers
  /\ base \in [Workers -> Nat]

Init ==
  /\ batch = TRUE
  /\ records = <<>>
  /\ holder = Nobody
  /\ pc = [w \in Workers |-> "idle"]
  /\ op = [w \in Workers |-> "none"]
  /\ targets = [w \in Workers |-> {}]
  /\ session = [w \in Workers |-> Nothing]
  /\ draft = [w \in Workers |-> Nothing]
  /\ base = [w \in Workers |-> 0]

-----------------------------------------------------------------------------
(***************************************************************************)
(* A request opens.                                                        *)
(***************************************************************************)
Open(w, o, ids, loaded) ==
  /\ pc[w] = "idle"
  /\ batch
  /\ pc' = [pc EXCEPT ![w] = "open"]
  /\ op' = [op EXCEPT ![w] = o]
  /\ targets' = [targets EXCEPT ![w] = ids]
  /\ session' = [session EXCEPT ![w] = loaded]
  /\ UNCHANGED <<batch, records, holder, draft, base>>

\* Correct, revalidate, approve: the route loads the record before any lock.
OpenRecord(w) ==
  \E i \in DOMAIN records, o \in SingleOps : Open(w, o, {i}, [j \in {i} |-> records[i]])

\* The bulk route and an import only look the batch up.  The ids a client sends
\* may be unknown: the bulk route finds out once it holds the lock.
OpenBulk(w) == \E ids \in SUBSET (1..MaxRecords) \ {{}} : Open(w, "bulk", ids, Nothing)

OpenImport(w) == Open(w, "import", {}, Nothing)

OpenDelete(w) == Open(w, "delete", {}, Nothing)

(***************************************************************************)
(* lock_batch.  A batch deleted in the meantime returns no row: the        *)
(* statement succeeds and locks nothing.                                   *)
(***************************************************************************)
TakesLock(w, locking) ==
  /\ pc[w] = "open" /\ op[w] # "delete"
  /\ (batch /\ locking) => holder = Nobody
  /\ holder' = IF batch /\ locking THEN w ELSE holder
  /\ pc' = [pc EXCEPT ![w] = "locked"]
  /\ UNCHANGED <<batch, records, op, targets, session, draft, base>>

\* Mutants of LockBatch: a path that skips the lock.
LockBatchNotByApproval(w) == TakesLock(w, op[w] # "approve")
LockBatchNotByCorrection(w) == TakesLock(w, op[w] # "correct")
LockBatchNotByImport(w) == TakesLock(w, op[w] # "import")

LockBatch(w) == TakesLock(w, TRUE)

(***************************************************************************)
(* session.refresh under the lock; for the bulk route the SELECT that      *)
(* resolves every id.  A record that is gone ends the request (404, or an  *)
(* exception out of refresh): nothing is written.                          *)
(***************************************************************************)
\* Mutant of Refresh: the row stays as the route loaded it before the lock.
RefreshSkipped(w) ==
  /\ pc[w] = "locked" /\ op[w] \in UpdateOps
  /\ targets[w] \subseteq DOMAIN records
  /\ session' = [session EXCEPT ![w] = IF op[w] = "bulk" THEN [i \in targets[w] |-> records[i]] ELSE @]
  /\ pc' = [pc EXCEPT ![w] = "fresh"]
  /\ UNCHANGED <<batch, records, holder, op, targets, draft, base>>

Refresh(w) ==
  /\ pc[w] = "locked" /\ op[w] \in UpdateOps
  /\ IF targets[w] \subseteq DOMAIN records
     THEN /\ session' = [session EXCEPT ![w] = [i \in targets[w] |-> records[i]]]
          /\ pc' = [pc EXCEPT ![w] = "fresh"]
     ELSE /\ pc' = [pc EXCEPT ![w] = "failed"]
          /\ UNCHANGED session
  /\ UNCHANGED <<batch, records, holder, op, targets, draft, base>>

(***************************************************************************)
(* Correction and revalidation: references_before is read, the row is      *)
(* recomputed in the session.  autoflush is off, so the records of a bulk  *)
(* correction do not see one another's new values.                         *)
(***************************************************************************)
ChangesOf(o) ==
  CASE o = "correct" -> Edits \cup {NoChange}                          \* an empty PATCH is accepted
    [] o = "bulk" -> {c \in Edits : c.reference = Unset /\ c # NoChange} \* BulkRecordPatch refuses both
    [] OTHER -> {NoChange}

Rework(w) ==
  /\ pc[w] = "fresh" /\ op[w] \in UpdateOps \ {"approve"}
  /\ \E change \in ChangesOf(op[w]) :
       draft' = [draft EXCEPT ![w] =
         [i \in targets[w] |-> Correct(session[w][i], change, ReferencesBefore(records, session[w][i].sequence))]]
  /\ pc' = [pc EXCEPT ![w] = "ready"]
  /\ UNCHANGED <<batch, records, holder, op, targets, session, base>>

\* Approval: only from VALID, checked on the refreshed row.  Refused with 409
\* otherwise, and the lock stays held until the session is closed.
Approve(w) ==
  /\ pc[w] = "fresh" /\ op[w] = "approve"
  /\ IF \A i \in targets[w] : session[w][i].status = "VALID"
     THEN /\ draft' = [draft EXCEPT ![w] = [i \in targets[w] |-> [session[w][i] EXCEPT !.status = "VALIDATED"]]]
          /\ pc' = [pc EXCEPT ![w] = "ready"]
     ELSE /\ pc' = [pc EXCEPT ![w] = "failed"]
          /\ UNCHANGED draft
  /\ UNCHANGED <<batch, records, holder, op, targets, session, base>>

(***************************************************************************)
(* Import (persist_records): two statements, MAX(import_sequence), then    *)
(* the references in use, and the rows are built in memory.                *)
(***************************************************************************)
ReadSequence(w) ==
  /\ pc[w] = "locked" /\ op[w] = "import"
  /\ base' = [base EXCEPT ![w] = NextSequence(records)]
  /\ pc' = [pc EXCEPT ![w] = "fresh"]
  /\ UNCHANGED <<batch, records, holder, op, targets, session, draft>>

BuildRows(w) ==
  /\ pc[w] = "fresh" /\ op[w] = "import"
  /\ \E lines \in Uploads :
       /\ Len(records) + Len(lines) <= MaxRecords
       /\ draft' = [draft EXCEPT ![w] = NewRows(lines, base[w], ReferencesBefore(records, base[w]))]
  /\ pc' = [pc EXCEPT ![w] = "ready"]
  /\ UNCHANGED <<batch, records, holder, op, targets, session, base>>

-----------------------------------------------------------------------------
(***************************************************************************)
(* The end of a request.                                                   *)
(***************************************************************************)
Finish(w) ==
  /\ pc' = [pc EXCEPT ![w] = "idle"]
  /\ op' = [op EXCEPT ![w] = "none"]
  /\ targets' = [targets EXCEPT ![w] = {}]
  /\ session' = [session EXCEPT ![w] = Nothing]
  /\ draft' = [draft EXCEPT ![w] = Nothing]
  /\ base' = [base EXCEPT ![w] = 0]
  /\ holder' = IF holder = w THEN Nobody ELSE holder

\* An UPDATE names only the columns whose value differs from the loaded one.
WriteDirty(stored, loaded, new) ==
  [f \in DOMAIN stored |-> IF new[f] # loaded[f] THEN new[f] ELSE stored[f]]

\* Rows a deletion under way has already deleted: an UPDATE of one waits for it.
RowLocked(i) == \E d \in Workers : op[d] = "delete" /\ pc[d] = "locked" /\ i \in targets[d]

\* The records whose row has a column to write: the others get no UPDATE at all.
Dirty(w) == {i \in targets[w] : draft[w][i] # session[w][i]}

\* Mutant of CommitUpdate: one commit per record.
CommitOneByOne(w) ==
  /\ pc[w] = "ready" /\ op[w] \in UpdateOps
  /\ \E i \in targets[w] \cap DOMAIN records :
       /\ records' = [records EXCEPT ![i] = draft[w][i]]
       /\ IF targets[w] = {i} THEN Finish(w)
          ELSE /\ targets' = [targets EXCEPT ![w] = @ \ {i}]
               /\ UNCHANGED <<holder, pc, op, session, draft, base>>
  /\ UNCHANGED batch

\* Flush and commit of an update.  A row that is gone makes it fail as a whole.
CommitUpdate(w) ==
  /\ pc[w] = "ready" /\ op[w] \in UpdateOps
  /\ Dirty(w) \subseteq DOMAIN records
  /\ \A i \in Dirty(w) : ~RowLocked(i)
  /\ records' = [i \in DOMAIN records |->
                   IF i \in Dirty(w) THEN WriteDirty(records[i], session[w][i], draft[w][i]) ELSE records[i]]
  /\ Finish(w)
  /\ UNCHANGED batch

\* Flush and commit of an import.  Without its batch the foreign key refuses it.
CommitImport(w) ==
  /\ pc[w] = "ready" /\ op[w] = "import"
  /\ batch
  /\ records' = records \o draft[w]
  /\ Finish(w)
  /\ UNCHANGED batch

\* session.close(): whatever was not committed is rolled back and the lock goes.
\* Reached by every refusal and by every failure: a lost connection, a deadlock
\* PostgreSQL resolves, a row or a batch that is gone, a killed process.
Close(w) ==
  /\ pc[w] # "idle"
  /\ Finish(w)
  /\ UNCHANGED <<batch, records>>

(***************************************************************************)
(* delete_batch takes no lock_batch.  The ORM deletes the records it       *)
(* loaded, one row lock each, then the batch row, for which it must wait   *)
(* for whoever holds it; the database cascades to any record left.         *)
(***************************************************************************)
DeleteRecords(w) ==
  /\ pc[w] = "open" /\ op[w] = "delete"
  /\ \A i \in DOMAIN records : ~RowLocked(i)
  /\ targets' = [targets EXCEPT ![w] = DOMAIN records]
  /\ pc' = [pc EXCEPT ![w] = "locked"]
  /\ UNCHANGED <<batch, records, holder, op, session, draft, base>>

DeleteBatch(w) ==
  /\ pc[w] = "locked" /\ op[w] = "delete"
  /\ batch => holder = Nobody
  /\ batch' = FALSE
  /\ records' = <<>>
  /\ Finish(w)

Next ==
  \E w \in Workers :
    \/ OpenRecord(w) \/ OpenBulk(w) \/ OpenImport(w) \/ OpenDelete(w)
    \/ LockBatch(w) \/ Refresh(w) \/ Rework(w) \/ Approve(w)
    \/ ReadSequence(w) \/ BuildRows(w)
    \/ CommitUpdate(w) \/ CommitImport(w) \/ Close(w)
    \/ DeleteRecords(w) \/ DeleteBatch(w)

Spec == Init /\ [][Next]_vars

-----------------------------------------------------------------------------
(***************************************************************************)
(* Properties.                                                             *)
(***************************************************************************)

\* A record carries errors exactly when it needs review, so a VALIDATED record
\* never does: "the one thing the assignment forbids" (approve_record), which a
\* correction committed between the approval's read and its write would cause.
Clean(row) == row.errors # {} <=> row.status = "NEEDS_REVIEW"
ApprovedIsClean == \A i \in DOMAIN records : Clean(records[i])

\* Arrival positions continue without a gap or a collision across overlapping
\* imports (next_import_sequence reads MAX and adds one).
ArrivalOrder == \A i \in DOMAIN records : records[i].sequence = i - 1

\* From its refresh to its commit, what a session holds of a record is what the
\* table holds: no other request writes it meanwhile (lock_batch).
Loaded(w) == pc[w] \in {"fresh", "ready"} /\ op[w] \in UpdateOps
SessionIsCurrent == \A w \in Workers : Loaded(w) /\ batch => \A i \in targets[w] : session[w][i] = records[i]

\* Whoever is past lock_batch holds the row, as long as there is a row to hold.
LockDiscipline ==
  \A w \in Workers :
    batch /\ op[w] # "delete" /\ pc[w] \in {"locked", "fresh", "ready", "failed"} => holder = w

\* What a session is about to write is well formed, and an import is about to
\* continue the numbering where the table ends.
SoundDraft(w) ==
  /\ Loaded(w) => session[w] \in [targets[w] -> Row]
  /\ op[w] = "import" /\ pc[w] \in {"fresh", "ready"} /\ batch => base[w] = Len(records)
  /\ op[w] = "import" /\ pc[w] = "ready" =>
       /\ draft[w] \in Seq(Row)
       /\ \A i \in 1..Len(draft[w]) : /\ draft[w][i].sequence = base[w] + i - 1
                                     /\ Clean(draft[w][i])
  /\ op[w] \in UpdateOps /\ pc[w] = "ready" =>
       /\ draft[w] \in [targets[w] -> Row]
       /\ batch => \A i \in targets[w] : /\ draft[w][i].sequence = session[w][i].sequence
                                        /\ Clean(draft[w][i])

DraftIsSound == \A w \in Workers : SoundDraft(w)

\* Deleting a batch leaves no record, and a record under correction is there.
GoneIsEmpty == ~batch => records = <<>>
TargetsExist == \A w \in Workers : Loaded(w) /\ batch => targets[w] \subseteq DOMAIN records

\* The inductive invariant of the proofs: it implies the safety invariants.
Inductive ==
  /\ TypeOK
  /\ GoneIsEmpty
  /\ LockDiscipline
  /\ TargetsExist
  /\ SessionIsCurrent
  /\ DraftIsSound
  /\ ApprovedIsClean
  /\ ArrivalOrder

\* The errors of a record are the verdict of its payload and of the references
\* that precede it in a table.
Exact(table, i) ==
  table[i].errors = Validate(table[i].source, table[i].payload, ReferencesBefore(table, table[i].sequence))

\* A verdict is exact at the step that commits it: an import or a correction
\* never misses a reference another request committed while it was running.
Rejudged(i) ==
  \/ i \notin DOMAIN records
  \/ records'[i].payload # records[i].payload
  \/ records'[i].errors # records[i].errors
VerdictExactWhenWritten == [][\A i \in DOMAIN records' : Rejudged(i) => Exact(records', i)]_vars

\* Every stored verdict is exact at every moment: true of a batch in which no
\* correction names a reference (Edits), whatever runs at once.
VerdictsCurrent == \A i \in DOMAIN records : Exact(records, i)

\* Of the records using a reference only the first may be free of errors.
FirstOccurrenceWins ==
  \A i, j \in DOMAIN records :
     i # j /\ records[i].errors = {} /\ records[j].errors = {} => records[i].reference # records[j].reference

\* A field the model was unsure about and nobody touched still blocks approval, and a
\* doubt is never about the fields a person typed (_account_for_human_review).  Of a
\* score on the tie, the import has no doubt, a review of another field has: so does
\* the record, from its first review until that field's own.
DoubtStandsUntilReviewed ==
  \A i \in DOMAIN records :
     LET row == records[i]
         Scored(certainty) == \E f \in DOMAIN row.scores : row.scores[f] = certainty
     IN  "LOW_CONFIDENCE" \in row.errors <=>
           row.source = "PDF" /\ (Scored("low") \/ (Scored("tie") /\ row.payload.confidence # "tie"))

\* A bulk correction lands whole or not at all, whatever fails meanwhile
\* (apply_corrections commits once).
BulkIsAtomic ==
  [][\A w \in Workers : op[w] = "bulk" /\ pc[w] = "ready" /\ batch' =>
       \/ \A i \in Dirty(w) : records'[i] = draft[w][i]
       \/ \A i \in Dirty(w) : records'[i] = records[i]]_vars

\* What a request is about to commit is what Review would make of the table as it
\* stands: nobody writes between its read and its commit.
DraftIsOutcome(w) ==
  /\ op[w] \in SingleOps /\ pc[w] # "idle" => \E i \in targets[w] : targets[w] = {i}
  /\ batch /\ pc[w] = "ready" =>
       /\ op[w] \in UpdateOps \ {"approve"} =>
            \E change \in ChangesOf(op[w]) : \A i \in targets[w] :
              draft[w][i] = Correct(records[i], change, ReferencesBefore(records, records[i].sequence))
       /\ op[w] = "approve" =>
            \A i \in targets[w] : records[i].status = "VALID" /\ draft[w][i] = [records[i] EXCEPT !.status = "VALIDATED"]
       /\ op[w] = "import" =>
            \E lines \in Uploads :
              /\ Len(records) + Len(lines) <= MaxRecords
              /\ draft[w] = NewRows(lines, Len(records), ReferencesBefore(records, Len(records)))

\* The normalized column repeats the payload, and an extraction's confidence its scores,
\* with all digits or with two.
Normal(row) ==
  LET certainty == RecordConfidence(row.scores)
  IN  /\ row.reference = row.payload.reference
      /\ row.source = "PDF" => row.payload.confidence \in {certainty, Formatted(certainty)}
      /\ "LOW_CONFIDENCE" \in row.errors <=> row.source = "PDF" /\ Quantized(row.payload.confidence) = "low"

Outcomes ==
  /\ \A w \in Workers : DraftIsOutcome(w)
  /\ \A i \in DOMAIN records : Normal(records[i])

Abstract == INSTANCE Review

\* Under all these interleavings the table changes only as the atomic requests of
\* Review change it: the batch lock makes every request appear to run alone.
ReviewSpec == Abstract!Spec
=============================================================================
