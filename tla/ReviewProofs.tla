---------------------------- MODULE ReviewProofs ----------------------------
(***************************************************************************)
(* Records implements Review, proved for any number of threads,            *)
(* references, uploads, corrections and records, and what follows for the  *)
(* verdicts in the table.                                                  *)
(*                                                                         *)
(* The argument: between a request's read of the table and its commit      *)
(* nobody else commits (the batch lock, RecordsProofs), so what it is      *)
(* about to write is what the request would make of the table in one step  *)
(* (DraftIsOutcome), and its commit is that step of Review.                *)
(***************************************************************************)
EXTENDS RecordsProofs

(***************************************************************************)
(* What a correction and an import do to a row.                            *)
(***************************************************************************)
DoubtIsCounted(row) ==
  row.source = "PDF" =>
    row.payload.confidence \in {RecordConfidence(row.scores), Formatted(RecordConfidence(row.scores))}


\* Merge touches the fields of the change and no other.
LEMMA MergeFields ==
  ASSUME NEW payload \in Payload, NEW change \in Change
  PROVE  /\ Merge(payload, change) \in Payload
         /\ Merge(payload, change).confidence = payload.confidence
         /\ change.reference = Unset => Merge(payload, change).reference = payload.reference
BY DEF Merge, Payload, Change

\* _account_for_human_review keeps the confidence in step with the scores.
LEMMA ReviewFields ==
  ASSUME NEW row \in Row, NEW change \in Change, DoubtIsCounted(row)
  PROVE  LET new == AccountForHumanReview(row, change)
         IN  /\ new \in Row /\ new.sequence = row.sequence /\ new.source = row.source
             /\ new.payload.reference = row.payload.reference
             /\ DoubtIsCounted(new)
<1> DEFINE scores == [f \in DOMAIN row.scores |-> IF f \in Touched(change) THEN "high" ELSE row.scores[f]]
<1>1. CASE row.source # "PDF" \/ Touched(change) = {} \/ row.scores = NoScores
  BY <1>1 DEF AccountForHumanReview
<1>2. CASE ~(row.source # "PDF" \/ Touched(change) = {} \/ row.scores = NoScores)
  <2>1. scores \in Scores
    BY <1>2 DEF Row, Scores, Certainties
  <2>2. PICK certain : certain = Formatted(RecordConfidence(scores))
    OBVIOUS
  <2>3. certain \in Certainties
    BY <2>2, ScoresType
  <2>4. PICK kept : kept = scores
    OBVIOUS
  <2> HIDE DEF scores
  <2>5. AccountForHumanReview(row, change) = [row EXCEPT !.scores = kept, !.payload.confidence = certain]
    BY <1>2, <2>2, <2>4 DEF AccountForHumanReview, scores
  <2>6. kept \in Scores /\ certain = Formatted(RecordConfidence(kept))
    BY <2>1, <2>2, <2>4
  <2>7. PICK new : new = [row EXCEPT !.scores = kept, !.payload.confidence = certain]
    OBVIOUS
  <2>8. /\ new \in Row /\ new.sequence = row.sequence /\ new.source = row.source
        /\ new.payload.reference = row.payload.reference
        /\ new.payload.confidence = certain /\ new.scores = kept
    BY <2>3, <2>6, <2>7 DEF Row, Payload
  <2> QED BY <2>5, <2>6, <2>7, <2>8 DEF DoubtIsCounted
<1> QED BY <1>1, <1>2

\* revalidate repeats the payload's reference and computes the errors again.
LEMMA RevalidateFields ==
  ASSUME NEW row \in Row, NEW existing
  PROVE  LET new == Revalidate(row, existing)
         IN  /\ new \in Row /\ new.sequence = row.sequence /\ new.source = row.source
             /\ new.payload = row.payload /\ new.scores = row.scores
             /\ new.reference = row.payload.reference
             /\ new.errors = Validate(row.source, row.payload, existing)
<1>1. PICK errors \in SUBSET ErrorCodes : errors = Validate(row.source, row.payload, existing)
  BY ValidateType
<1>2. PICK status \in {"VALID", "NEEDS_REVIEW"} : status = DeriveStatus(errors)
  BY DeriveStatusType
<1>3. Revalidate(row, existing) = [row EXCEPT !.reference = row.payload.reference, !.errors = errors, !.status = status]
  BY <1>1, <1>2 DEF Revalidate
<1>4. PICK new : new = [row EXCEPT !.reference = row.payload.reference, !.errors = errors, !.status = status]
  OBVIOUS
<1>5. /\ new \in Row /\ new.sequence = row.sequence /\ new.source = row.source
      /\ new.payload = row.payload /\ new.scores = row.scores
      /\ new.reference = row.payload.reference /\ new.errors = errors
  BY <1>4 DEF Row, Payload, Statuses
<1> QED BY <1>1, <1>3, <1>4, <1>5

\* LOW_CONFIDENCE is said of an extraction with a low confidence, and of nothing else.
LEMMA LowConfidence ==
  ASSUME NEW source, NEW payload, NEW existing
  PROVE  "LOW_CONFIDENCE" \in Validate(source, payload, existing) <=>
           source = "PDF" /\ Quantized(payload.confidence) = "low"
BY DEF Validate, ErrorCodes

\* A correction: the row keeps its place, its verdict is that of its new payload, and
\* without a new reference it keeps its reference.
LEMMA CorrectFields ==
  ASSUME NEW row \in Row, NEW change \in Change, NEW existing, Normal(row)
  PROVE  LET new == Correct(row, change, existing)
         IN  /\ new \in Row /\ new.sequence = row.sequence /\ new.source = row.source
             /\ new.errors = Validate(new.source, new.payload, existing)
             /\ Normal(new)
             /\ change.reference = Unset => new.reference = row.reference
<1>1. PICK payload \in Payload :
        /\ payload = Merge(row.payload, change)
        /\ payload.confidence = row.payload.confidence
        /\ change.reference = Unset => payload.reference = row.payload.reference
  BY MergeFields DEF Row
<1>2. PICK merged \in Row :
        /\ Correct(row, change, existing) = Revalidate(AccountForHumanReview(merged, change), existing)
        /\ merged.sequence = row.sequence /\ merged.source = row.source
        /\ merged.payload = payload /\ merged.scores = row.scores
  <2>1. PICK merged : merged = [row EXCEPT !.payload = payload]
    OBVIOUS
  <2>2. /\ merged \in Row /\ merged.sequence = row.sequence /\ merged.source = row.source
        /\ merged.payload = payload /\ merged.scores = row.scores
    BY <2>1 DEF Row
  <2>3. Correct(row, change, existing) = Revalidate(AccountForHumanReview(merged, change), existing)
    BY <1>1, <2>1 DEF Correct
  <2> QED BY <2>2, <2>3
<1>3. DoubtIsCounted(merged)
  BY <1>1, <1>2 DEF Normal, DoubtIsCounted
<1>4. PICK reviewed \in Row :
        /\ reviewed = AccountForHumanReview(merged, change)
        /\ reviewed.sequence = row.sequence /\ reviewed.source = row.source
        /\ reviewed.payload.reference = payload.reference
        /\ DoubtIsCounted(reviewed)
  BY <1>2, <1>3, ReviewFields
<1>5. PICK new \in Row :
        /\ new = Correct(row, change, existing)
        /\ new.sequence = row.sequence /\ new.source = reviewed.source
        /\ new.payload = reviewed.payload /\ new.scores = reviewed.scores
        /\ new.reference = reviewed.payload.reference
        /\ new.errors = Validate(reviewed.source, reviewed.payload, existing)
  BY <1>2, <1>4, RevalidateFields
<1>6. new.errors = Validate(new.source, new.payload, existing)
  BY <1>5
<1>7. Normal(new)
  BY <1>4, <1>5, <1>6, LowConfidence DEF Normal, DoubtIsCounted
<1>8. change.reference = Unset => new.reference = row.reference
  BY <1>1, <1>4, <1>5 DEF Normal
<1> QED BY <1>4, <1>5, <1>6, <1>7, <1>8

\* A line of a file becomes a normal row with the verdict of its payload.
LEMMA NewRowFields ==
  ASSUME NEW line \in Line, NEW position \in Nat, NEW seen
  PROVE  LET new == NewRow(line, position, seen)
         IN  /\ new.sequence = position
             /\ new.errors = Validate(new.source, new.payload, seen)
             /\ new.payload.reference = line.payload.reference
             /\ Normal(new)
<1>1. PICK payload \in Payload :
        /\ payload = ImportedPayload(line)
        /\ payload.reference = line.payload.reference
        /\ line.source = "PDF" => payload.confidence = RecordConfidence(line.scores)
  <2>1. RecordConfidence(line.scores) \in Certainties
    BY ScoresType
  <2>2. PICK certain \in Certainties : certain = RecordConfidence(line.scores)
    BY <2>1
  <2>3. CASE line.source = "PDF"
    <3>1. ImportedPayload(line) = [line.payload EXCEPT !.confidence = certain]
      BY <2>2, <2>3 DEF ImportedPayload
    <3>2. PICK payload : payload = [line.payload EXCEPT !.confidence = certain]
      OBVIOUS
    <3>3. payload \in Payload /\ payload.reference = line.payload.reference /\ payload.confidence = certain
      BY <3>2 DEF Line, Payload
    <3> QED BY <2>2, <3>1, <3>2, <3>3
  <2>4. CASE line.source # "PDF"
    BY <2>4 DEF ImportedPayload, Line
  <2> QED BY <2>3, <2>4
<1>2. PICK errors : errors = Validate(line.source, payload, seen)
  OBVIOUS
<1>3. NewRow(line, position, seen) =
        [sequence |-> position, source |-> line.source, payload |-> payload, scores |-> line.scores,
         reference |-> payload.reference, errors |-> errors, status |-> DeriveStatus(errors)]
  BY <1>1, <1>2 DEF NewRow
<1>4. PICK new :
        /\ new = NewRow(line, position, seen)
        /\ new.sequence = position /\ new.source = line.source /\ new.payload = payload
        /\ new.scores = line.scores /\ new.reference = payload.reference /\ new.errors = errors
  BY <1>3
<1>5. Normal(new)
  BY <1>1, <1>2, <1>4, LowConfidence DEF Normal
<1> QED BY <1>1, <1>2, <1>4, <1>5

\* The references of the rows before the i-th.
EarlierReferences(rows, i) == {rows[j].reference : j \in {k \in 1..Len(rows) : k < i}} \ {NoReference}

\* Rows numbered in order from a position on.
Numbered(rows, from) == \A i \in 1..Len(rows) : rows[i].sequence = from + i - 1

\* Rows judged against the references in use and those of the rows before them.
Judged(rows, existing) ==
  \A i \in 1..Len(rows) :
    rows[i].errors = Validate(rows[i].source, rows[i].payload, existing \cup EarlierReferences(rows, i))

\* A table that grew by some rows at its end.
Grown(table, rows, grown) ==
  /\ Len(grown) = Len(table) + Len(rows)
  /\ \A i \in 1..Len(grown) : grown[i] = IF i <= Len(table) THEN table[i] ELSE rows[i - Len(table)]

\* The rows of an import: the i-th is judged against the references in use and those
\* of the rows before it.
LEMMA NewRowsFields ==
  ASSUME NEW lines \in Seq(Line), NEW from \in Nat, NEW existing
  PROVE  LET rows == NewRows(lines, from, existing)
         IN  Numbered(rows, from) /\ Judged(rows, existing) /\ \A i \in 1..Len(rows) : Normal(rows[i])
<1> DEFINE taken(i) == {lines[j].payload.reference : j \in {k \in DOMAIN lines : k < i}} \ {NoReference}
           seen(i) == existing \cup taken(i)
           rows == NewRows(lines, from, existing)
<1>1. rows = [i \in 1..Len(lines) |-> NewRow(lines[i], from + i - 1, seen(i))]
  BY DEF NewRows
<1>2. rows \in Seq(Row) /\ Len(rows) = Len(lines)
  BY NewRowsType
<1>3. ASSUME NEW i \in 1..Len(lines)
      PROVE  /\ rows[i].sequence = from + i - 1
             /\ rows[i].errors = Validate(rows[i].source, rows[i].payload, seen(i))
             /\ rows[i].payload.reference = lines[i].payload.reference
             /\ Normal(rows[i])
  <2>1. lines[i] \in Line /\ from + i - 1 \in Nat
    OBVIOUS
  <2>2. rows[i] = NewRow(lines[i], from + i - 1, seen(i))
    BY <1>1
  <2> HIDE DEF rows, seen
  <2> QED BY <2>1, <2>2, NewRowFields
<1>4. ASSUME NEW i \in 1..Len(lines) PROVE taken(i) = EarlierReferences(rows, i)
  <2>1. \A j \in 1..Len(lines) : rows[j].reference = lines[j].payload.reference
    BY <1>3 DEF Normal
  <2> HIDE DEF rows
  <2>2. DOMAIN lines = 1..Len(rows)
    BY <1>2
  <2> QED BY <1>2, <2>1, <2>2 DEF EarlierReferences
<1> HIDE DEF rows, taken
<1> QED BY <1>2, <1>3, <1>4 DEF rows, Numbered, Judged

(***************************************************************************)
(* Every request is about to write what it would make of the table in one  *)
(* step.                                                                   *)
(***************************************************************************)

\* A worker whose request and whose table stand still keeps its outcome.
LEMMA OutcomeFrame ==
  ASSUME NEW v \in Workers, DraftIsOutcome(v), UNCHANGED <<batch, records>>,
         pc'[v] = pc[v], op'[v] = op[v], targets'[v] = targets[v], draft'[v] = draft[v]
  PROVE  DraftIsOutcome(v)'
BY DEF DraftIsOutcome

\* So does one whose request has nothing to write yet.
LEMMA OutcomeNotReady ==
  ASSUME NEW v \in Workers, DraftIsOutcome(v), pc'[v] # "ready" \/ batch' = FALSE,
         pc'[v] = "idle" \/ op'[v] \notin SingleOps
           \/ (pc[v] # "idle" /\ op'[v] = op[v] /\ targets'[v] = targets[v])
  PROVE  DraftIsOutcome(v)'
BY DEF DraftIsOutcome

\* Commits by others: none of them happens while this request is about to write.
LEMMA OutcomeUnderCommits ==
  ASSUME Inductive, NEW w \in Workers, NEW v \in Workers, v # w, DraftIsOutcome(v),
         CommitUpdate(w) \/ CommitImport(w) \/ DeleteBatch(w)
  PROVE  DraftIsOutcome(v)'
<1>1. pc'[v] = pc[v] /\ op'[v] = op[v] /\ targets'[v] = targets[v] /\ draft'[v] = draft[v]
  BY DEF Inductive, TypeOK, CommitUpdate, CommitImport, DeleteBatch, Finish
<1>2. CASE DeleteBatch(w)
  <2>1. batch' = FALSE
    BY <1>2 DEF DeleteBatch
  <2> QED BY <1>1, <2>1 DEF DraftIsOutcome
<1>3. CASE CommitUpdate(w) \/ CommitImport(w)
  <2>1. batch' = batch /\ pc[w] = "ready" /\ op[w] # "delete"
    BY <1>3 DEF CommitUpdate, CommitImport, UpdateOps, SingleOps
  <2>2. ~(batch /\ pc[v] = "ready" /\ op[v] # "delete")
    BY <2>1 DEF Inductive, LockDiscipline
  <2> QED BY <1>1, <2>1, <2>2 DEF DraftIsOutcome, UpdateOps, SingleOps
<1> QED BY <1>2, <1>3

\* A correction or a revalidation computed from the refreshed rows.
LEMMA ReworkOutcome ==
  ASSUME Inductive, NEW w \in Workers, DraftIsOutcome(w), Rework(w)
  PROVE  DraftIsOutcome(w)'
<1>1. /\ pc[w] = "fresh" /\ op[w] \in UpdateOps \ {"approve"} /\ UNCHANGED <<batch, records, op, targets>>
      /\ \A i \in targets[w] : batch => session[w][i] = records[i]
  BY DEF Rework, Inductive, SessionIsCurrent, Loaded
<1>2. PICK change \in ChangesOf(op[w]) :
        draft'[w] = [i \in targets[w] |->
          Correct(session[w][i], change, ReferencesBefore(records, session[w][i].sequence))]
  BY DEF Rework, Inductive, TypeOK
<1>3. \A i \in targets[w] : batch =>
        draft'[w][i] = Correct(records[i], change, ReferencesBefore(records, records[i].sequence))
  BY <1>1, <1>2
<1> QED BY <1>1, <1>2, <1>3 DEF DraftIsOutcome, UpdateOps, SingleOps

\* An approval of a row that is VALID under the lock.
LEMMA ApproveOutcome ==
  ASSUME Inductive, NEW w \in Workers, DraftIsOutcome(w), Approve(w)
  PROVE  DraftIsOutcome(w)'
<1>1. /\ pc[w] = "fresh" /\ op[w] = "approve" /\ UNCHANGED <<batch, records, op, targets>>
      /\ \A i \in targets[w] : batch => session[w][i] = records[i]
  BY DEF Approve, Inductive, SessionIsCurrent, Loaded, UpdateOps, SingleOps
<1>2. pc'[w] = "ready" =>
        /\ \A i \in targets[w] : session[w][i].status = "VALID"
        /\ draft'[w] = [i \in targets[w] |-> [session[w][i] EXCEPT !.status = "VALIDATED"]]
  BY DEF Approve, Inductive, TypeOK
<1>3. \A i \in targets[w] : batch /\ pc'[w] = "ready" =>
        records[i].status = "VALID" /\ draft'[w][i] = [records[i] EXCEPT !.status = "VALIDATED"]
  BY <1>1, <1>2
<1> QED BY <1>1, <1>3 DEF DraftIsOutcome

\* The rows of an import, numbered from the end of the table.
LEMMA BuildRowsOutcome ==
  ASSUME Inductive, NEW w \in Workers, DraftIsOutcome(w), BuildRows(w)
  PROVE  DraftIsOutcome(w)'
<1>1. pc[w] = "fresh" /\ op[w] = "import" /\ UNCHANGED <<batch, records, op, targets>>
  BY DEF BuildRows
<1>2. PICK lines \in Uploads :
        /\ Len(records) + Len(lines) <= MaxRecords
        /\ draft'[w] = NewRows(lines, base[w], ReferencesBefore(records, base[w]))
  BY DEF BuildRows, Inductive, TypeOK
<1>3. batch => base[w] = Len(records)
  BY <1>1 DEF Inductive, DraftIsSound, SoundDraft
<1> QED BY <1>1, <1>2, <1>3 DEF DraftIsOutcome, UpdateOps, SingleOps

\* Every request keeps its outcome at every step, whoever takes the step.
LEMMA OutcomeKept ==
  ASSUME Inductive, NEW w \in Workers, NEW v \in Workers, DraftIsOutcome(v),
         \/ OpenRecord(w) \/ OpenBulk(w) \/ OpenImport(w) \/ OpenDelete(w)
         \/ LockBatch(w) \/ Refresh(w) \/ Rework(w) \/ Approve(w)
         \/ ReadSequence(w) \/ BuildRows(w)
         \/ CommitUpdate(w) \/ CommitImport(w) \/ Close(w)
         \/ DeleteRecords(w) \/ DeleteBatch(w)
  PROVE  DraftIsOutcome(v)'
<1>1. CASE v # w
  <2>1. CASE CommitUpdate(w) \/ CommitImport(w) \/ DeleteBatch(w)
    BY <1>1, <2>1, OutcomeUnderCommits
  <2>2. CASE ~(CommitUpdate(w) \/ CommitImport(w) \/ DeleteBatch(w))
    <3>1. /\ UNCHANGED <<batch, records>>
          /\ pc'[v] = pc[v] /\ op'[v] = op[v] /\ targets'[v] = targets[v] /\ draft'[v] = draft[v]
      BY <1>1, <2>2 DEF Inductive, TypeOK, OpenRecord, OpenBulk, OpenImport, OpenDelete, Open, LockBatch, TakesLock,
         Refresh, Rework, Approve, ReadSequence, BuildRows, Close, Finish, DeleteRecords
    <3> QED BY <3>1, OutcomeFrame
  <2> QED BY <2>1, <2>2
<1>2. CASE v = w
  <2>1. CASE Rework(w)
    BY <1>2, <2>1, ReworkOutcome
  <2>2. CASE Approve(w)
    BY <1>2, <2>2, ApproveOutcome
  <2>3. CASE BuildRows(w)
    BY <1>2, <2>3, BuildRowsOutcome
  <2>4. CASE OpenRecord(w)
    <3>1. pc'[w] = "open" /\ \E i \in targets'[w] : targets'[w] = {i}
      BY <2>4 DEF OpenRecord, Open, Inductive, TypeOK
    <3> QED BY <1>2, <3>1 DEF DraftIsOutcome
  <2>5. CASE \/ OpenBulk(w) \/ OpenImport(w) \/ OpenDelete(w)
    <3>1. pc'[w] = "open" /\ op'[w] \notin SingleOps
      BY <2>5 DEF OpenBulk, OpenImport, OpenDelete, Open, Inductive, TypeOK, SingleOps
    <3> QED BY <1>2, <3>1, OutcomeNotReady
  <2>6. CASE LockBatch(w) \/ Refresh(w) \/ ReadSequence(w)
    <3>1. pc'[w] # "ready" /\ pc[w] # "idle" /\ op'[w] = op[w] /\ targets'[w] = targets[w]
      BY <2>6 DEF LockBatch, TakesLock, Refresh, ReadSequence, Inductive, TypeOK
    <3> QED BY <1>2, <3>1, OutcomeNotReady
  <2>7. CASE CommitUpdate(w) \/ CommitImport(w) \/ Close(w) \/ DeleteBatch(w)
    <3>1. pc'[w] = "idle"
      BY <2>7 DEF CommitUpdate, CommitImport, Close, DeleteBatch, Finish, Inductive, TypeOK
    <3> QED BY <1>2, <3>1, OutcomeNotReady
  <2>8. CASE DeleteRecords(w)
    <3>1. pc'[w] = "locked" /\ op'[w] \notin SingleOps
      BY <2>8 DEF DeleteRecords, Inductive, TypeOK, SingleOps
    <3> QED BY <1>2, <3>1, OutcomeNotReady
  <2> QED BY <2>1, <2>2, <2>3, <2>4, <2>5, <2>6, <2>7, <2>8
<1> QED BY <1>1, <1>2

(***************************************************************************)
(* What a commit writes.                                                   *)
(***************************************************************************)

\* A correction the client may send, or none, is a change.
LEMMA ChangesAreChanges ==
  ASSUME NEW o
  PROVE  /\ ChangesOf(o) \subseteq Change \cap (Edits \cup {NoChange})
         /\ o # "correct" => \A change \in ChangesOf(o) : change.reference = Unset
<1>1. NoChange \in Change /\ NoChange.reference = Unset
  BY DEF NoChange, Change
<1> QED BY <1>1, EditAssumption DEF ChangesOf

\* A commit writes the draft over the records that have a column to write, and those
\* are there as the session read them.
LEMMA CommitWritesDraft ==
  ASSUME Inductive, NEW w \in Workers, CommitUpdate(w)
  PROVE  /\ DOMAIN records' = DOMAIN records
         /\ \A i \in DOMAIN records : records'[i] = IF i \in Dirty(w) THEN draft[w][i] ELSE records[i]
         /\ \A i \in Dirty(w) : i \in targets[w] /\ batch /\ i \in DOMAIN records /\ session[w][i] = records[i]
         /\ batch => \A i \in targets[w] \ Dirty(w) : i \in DOMAIN records /\ draft[w][i] = records[i]
<1>1. ASSUME NEW i \in Dirty(w)
      PROVE  /\ i \in targets[w] /\ batch /\ i \in DOMAIN records
             /\ session[w][i] = records[i] /\ draft[w][i] \in Row /\ records[i] \in Row
  <2>1. i \in targets[w] /\ i \in DOMAIN records
    BY DEF CommitUpdate, Dirty
  <2>2. batch
    BY <2>1 DEF GoneIsEmpty, Inductive
  <2>3. Loaded(w) /\ draft[w] \in [targets[w] -> Row]
    BY DEF CommitUpdate, Loaded, DraftIsSound, SoundDraft, Inductive
  <2>4. session[w][i] = records[i]
    BY <2>1, <2>2, <2>3 DEF SessionIsCurrent, Inductive
  <2>5. records[i] \in Row
    BY <2>1 DEF TypeOK, Inductive
  <2> QED BY <2>1, <2>2, <2>3, <2>4, <2>5
<1>2. \A i \in Dirty(w) : WriteDirty(records[i], session[w][i], draft[w][i]) = draft[w][i]
  BY <1>1, WriteDirtyCurrent
<1>3. batch => \A i \in targets[w] \ Dirty(w) : i \in DOMAIN records /\ draft[w][i] = records[i]
  BY DEF Dirty, CommitUpdate, Loaded, TargetsExist, SessionIsCurrent, Inductive
<1> QED BY <1>1, <1>2, <1>3 DEF CommitUpdate

\* What a commit makes of a record it writes: a correction, the same for all, judged
\* against the table as it is; or a signature under a record that is VALID.
Signed(row) == [row EXCEPT !.status = "VALIDATED"]
Corrected(row, change) == Correct(row, change, ReferencesBefore(records, row.sequence))

\* A commit writes the outcome of its request.
LEMMA CommitWritesOutcome ==
  ASSUME Outcomes, NEW w \in Workers, CommitUpdate(w), batch
  PROVE  \/ /\ op[w] # "approve"
            /\ \E change \in ChangesOf(op[w]) : \A i \in targets[w] : draft[w][i] = Corrected(records[i], change)
         \/ /\ op[w] = "approve"
            /\ \A i \in targets[w] : records[i].status = "VALID" /\ draft[w][i] = Signed(records[i])
<1>1. DraftIsOutcome(w) /\ pc[w] = "ready" /\ op[w] \in UpdateOps
  BY DEF Outcomes, CommitUpdate
<1> QED BY <1>1 DEF DraftIsOutcome, Corrected, Signed

\* A signature leaves a row normal.
LEMMA SignedFields ==
  ASSUME NEW row \in Row, Normal(row)
  PROVE  /\ Signed(row) \in Row /\ Normal(Signed(row))
         /\ Signed(row).sequence = row.sequence /\ Signed(row).reference = row.reference
         /\ Signed(row).payload = row.payload /\ Signed(row).errors = row.errors /\ Signed(row).source = row.source
<1>1. PICK new : new = Signed(row)
  OBVIOUS
<1>2. /\ new \in Row
      /\ new.sequence = row.sequence /\ new.reference = row.reference /\ new.source = row.source
      /\ new.payload = row.payload /\ new.errors = row.errors /\ new.scores = row.scores
  BY <1>1 DEF Signed, Row, Statuses
<1>3. Normal(new)
  BY <1>2 DEF Normal
<1> QED BY <1>1, <1>2, <1>3

\* The table stays normal whatever commits.
LEMMA CommitUpdateNormal ==
  ASSUME Inductive, Outcomes, NEW w \in Workers, CommitUpdate(w), NEW i \in DOMAIN records'
  PROVE  Normal(records'[i])
<1>1. i \in DOMAIN records /\ records[i] \in Row /\ Normal(records[i])
  BY CommitWritesDraft DEF Outcomes, Inductive, TypeOK
<1>2. CASE i \notin Dirty(w)
  BY <1>1, <1>2, CommitWritesDraft
<1>3. CASE i \in Dirty(w)
  <2>1. i \in targets[w] /\ batch /\ records'[i] = draft[w][i]
    BY <1>1, <1>3, CommitWritesDraft
  <2>2. \/ \E change \in Change : records'[i] = Corrected(records[i], change)
        \/ records'[i] = Signed(records[i])
    BY <2>1, CommitWritesOutcome, ChangesAreChanges
  <2>3. ASSUME NEW change \in Change PROVE Normal(Corrected(records[i], change))
    BY <1>1, CorrectFields DEF Corrected
  <2> QED BY <1>1, <2>2, <2>3, SignedFields
<1> QED BY <1>2, <1>3

\* An import appends rows that are normal and judged against the references in use.
LEMMA CommitImportWrites ==
  ASSUME Inductive, Outcomes, NEW w \in Workers, CommitImport(w)
  PROVE  \E lines \in Uploads, rows \in Seq(Row) :
           /\ Len(records) + Len(lines) <= MaxRecords
           /\ rows = NewRows(lines, Len(records), ReferencesBefore(records, Len(records)))
           /\ records' = records \o rows /\ Grown(records, rows, records')
           /\ Numbered(rows, Len(records)) /\ Judged(rows, ReferencesBefore(records, Len(records)))
           /\ \A i \in 1..Len(rows) : Normal(rows[i])
<1>1. PICK lines \in Uploads :
        /\ Len(records) + Len(lines) <= MaxRecords
        /\ draft[w] = NewRows(lines, Len(records), ReferencesBefore(records, Len(records)))
  BY DEF Outcomes, DraftIsOutcome, CommitImport
<1>2. lines \in Seq(Line) /\ Len(records) \in Nat /\ records \in Seq(Row)
  BY UploadAssumption DEF Inductive, TypeOK
<1>3. PICK rows : rows = NewRows(lines, Len(records), ReferencesBefore(records, Len(records)))
  OBVIOUS
<1>4. /\ rows \in Seq(Row)
      /\ Numbered(rows, Len(records)) /\ Judged(rows, ReferencesBefore(records, Len(records)))
      /\ \A i \in 1..Len(rows) : Normal(rows[i])
  BY <1>2, <1>3, NewRowsType, NewRowsFields
<1>5. records' = records \o rows
  BY <1>1, <1>3 DEF CommitImport
<1>6. Grown(records, rows, records')
  <2>1. PICK before \in Seq(Row) : before = records
    BY <1>2
  <2>2. Grown(before, rows, before \o rows)
    BY <1>4 DEF Grown
  <2> QED BY <1>5, <2>1, <2>2
<1> QED BY <1>1, <1>3, <1>4, <1>5, <1>6

\* Every step preserves the outcomes.
LEMMA OutcomesInductive == Inductive /\ Outcomes /\ [Next]_vars => Outcomes'
<1> SUFFICES ASSUME Inductive, Outcomes, [Next]_vars PROVE Outcomes'
  OBVIOUS
<1>0. CASE UNCHANGED vars
  BY <1>0 DEF vars, Outcomes, DraftIsOutcome
<1>1. ASSUME NEW w \in Workers,
             \/ OpenRecord(w) \/ OpenBulk(w) \/ OpenImport(w) \/ OpenDelete(w)
             \/ LockBatch(w) \/ Refresh(w) \/ Rework(w) \/ Approve(w)
             \/ ReadSequence(w) \/ BuildRows(w)
             \/ CommitUpdate(w) \/ CommitImport(w) \/ Close(w)
             \/ DeleteRecords(w) \/ DeleteBatch(w)
      PROVE  Outcomes'
  <2>1. \A v \in Workers : DraftIsOutcome(v)'
    BY <1>1, OutcomeKept DEF Outcomes
  <2>2. ASSUME NEW i \in DOMAIN records' PROVE Normal(records'[i])
    <3>1. CASE CommitUpdate(w)
      BY <3>1, CommitUpdateNormal
    <3>2. CASE CommitImport(w)
      <4>1. PICK rows \in Seq(Row) :
              /\ records' = records \o rows
              /\ Len(records') = Len(records) + Len(rows)
              /\ \A j \in 1..Len(records') :
                   records'[j] = IF j <= Len(records) THEN records[j] ELSE rows[j - Len(records)]
              /\ \A j \in 1..Len(rows) : Normal(rows[j])
        BY <3>2, CommitImportWrites DEF Grown
      <4>2. Len(records) \in Nat /\ Len(rows) \in Nat /\ records \in Seq(Row) /\ records' \in Seq(Row)
        BY <4>1 DEF Inductive, TypeOK
      <4>3. i \in 1..Len(records')
        BY <4>2
      <4>4. CASE i <= Len(records)
        BY <4>1, <4>2, <4>3, <4>4 DEF Outcomes
      <4>5. CASE ~(i <= Len(records))
        <5>1. i - Len(records) \in 1..Len(rows) /\ records'[i] = rows[i - Len(records)]
          BY <4>1, <4>2, <4>3, <4>5
        <5> QED BY <4>1, <5>1
      <4> QED BY <4>4, <4>5
    <3>3. CASE DeleteBatch(w)
      BY <3>3 DEF DeleteBatch
    <3>4. CASE ~(CommitUpdate(w) \/ CommitImport(w) \/ DeleteBatch(w))
      <4>1. records' = records
        BY <1>1, <3>4 DEF OpenRecord, OpenBulk, OpenImport, OpenDelete, Open, LockBatch, TakesLock,
           Refresh, Rework, Approve, ReadSequence, BuildRows, Close, Finish, DeleteRecords
      <4> QED BY <4>1 DEF Outcomes
    <3> QED BY <3>1, <3>2, <3>3, <3>4
  <2> QED BY <2>1, <2>2 DEF Outcomes
<1> QED BY <1>0, <1>1 DEF Next

\* At every moment each request is about to write what it would write if it ran alone.
THEOREM AlwaysOutcomes == Spec => [](Inductive /\ Outcomes)
<1>1. Init => Inductive /\ Outcomes
  BY InitInductive DEF Init, Outcomes, DraftIsOutcome
<1>2. (Inductive /\ Outcomes) /\ [Next]_vars => (Inductive /\ Outcomes)'
  BY NextInductive, OutcomesInductive
<1> QED BY <1>1, <1>2, PTL DEF Spec

\* A field an extraction was unsure of blocks its record until a person corrects that
\* field, and no doubt is about anything else; a score on the tie blocks from the first
\* review of another field until its own (_account_for_human_review).
THEOREM DoubtStands == Spec => []DoubtStandsUntilReviewed
<1>1. Outcomes => DoubtStandsUntilReviewed
  <2> SUFFICES ASSUME Outcomes, NEW i \in DOMAIN records
               PROVE  LET row == records[i]
                          Scored(certainty) == \E f \in DOMAIN row.scores : row.scores[f] = certainty
                      IN  "LOW_CONFIDENCE" \in row.errors <=>
                            row.source = "PDF" /\ (Scored("low") \/ (Scored("tie") /\ row.payload.confidence # "tie"))
    BY DEF DoubtStandsUntilReviewed
  <2> QED BY DEF Outcomes, Normal, RecordConfidence, Formatted, Quantized
<1> QED BY <1>1, AlwaysOutcomes, PTL

(***************************************************************************)
(* Records implements Review.                                              *)
(***************************************************************************)

\* The operators of Verdicts are the same seen through Review.
LEMMA SameReferencesBefore ==
  ASSUME NEW table, NEW sequence
  PROVE  Abstract!ReferencesBefore(table, sequence) = ReferencesBefore(table, sequence)
BY Zenon DEF ReferencesBefore, Abstract!ReferencesBefore, NoReference, Abstract!NoReference

\* A correction is the same seen through Review.
LEMMA SameCorrect ==
  ASSUME NEW row, NEW change, NEW existing
  PROVE  Abstract!Correct(row, change, existing) = Correct(row, change, existing)
BY Zenon DEF Correct, Abstract!Correct, Revalidate, Abstract!Revalidate, AccountForHumanReview,
   Abstract!AccountForHumanReview, Merge, Abstract!Merge, Touched, Abstract!Touched, Validate, Abstract!Validate,
   DeriveStatus, Abstract!DeriveStatus, RecordConfidence, Abstract!RecordConfidence, NoScores, Abstract!NoScores,
   Quantized, Abstract!Quantized, Formatted, Abstract!Formatted,
   Fields, Abstract!Fields, Unset, Abstract!Unset, ErrorCodes, Abstract!ErrorCodes, NoReference, Abstract!NoReference

\* So are the rows of an import.
LEMMA SameNewRows ==
  ASSUME NEW lines, NEW from, NEW existing
  PROVE  Abstract!NewRows(lines, from, existing) = NewRows(lines, from, existing)
BY Zenon DEF NewRows, Abstract!NewRows, NewRow, Abstract!NewRow, ImportedPayload, Abstract!ImportedPayload,
   Validate, Abstract!Validate, DeriveStatus, Abstract!DeriveStatus, RecordConfidence, Abstract!RecordConfidence,
   Quantized, Abstract!Quantized, ErrorCodes, Abstract!ErrorCodes, NoReference, Abstract!NoReference

\* The commit of a correction is the correction of Review, of the records it names.
LEMMA CommitIsCorrectAll ==
  ASSUME Inductive, Outcomes, NEW w \in Workers, CommitUpdate(w), batch, op[w] # "approve"
  PROVE  Abstract!CorrectAll
<1>1. PICK change \in ChangesOf(op[w]) : \A i \in targets[w] : draft[w][i] = Corrected(records[i], change)
  BY CommitWritesOutcome
<1>2. change \in Edits \cup {NoChange} /\ (op[w] # "correct" => change.reference = Unset)
  BY <1>1, ChangesAreChanges
<1>3. targets[w] \in SUBSET DOMAIN records
  BY CommitWritesDraft
<1>4. change.reference # Unset => \E i \in targets[w] : targets[w] = {i}
  <2>1. op[w] = "correct" /\ pc[w] = "ready" => \E i \in targets[w] : targets[w] = {i}
    BY DEF Outcomes, DraftIsOutcome, SingleOps, CommitUpdate
  <2> QED BY <1>2, <2>1 DEF CommitUpdate
<1>5. records' = [i \in DOMAIN records |->
                    IF i \in targets[w]
                    THEN Correct(records[i], change, ReferencesBefore(records, records[i].sequence))
                    ELSE records[i]]
  <2>1. \A i \in DOMAIN records : records'[i] = IF i \in targets[w] THEN Corrected(records[i], change) ELSE records[i]
    BY <1>1, CommitWritesDraft
  <2>2. records' = [i \in DOMAIN records |-> records'[i]]
    BY DEF CommitUpdate
  <2> QED BY <2>1, <2>2 DEF Corrected
<1>6. batch' = batch
  BY DEF CommitUpdate
<1>7. [reference |-> Abstract!Unset, detail |-> Abstract!Unset] = NoChange /\ Abstract!Unset = Unset
  BY DEF NoChange, Unset, Abstract!Unset
<1>8. records' = [i \in DOMAIN records |->
                    IF i \in targets[w]
                    THEN Abstract!Correct(records[i], change, Abstract!ReferencesBefore(records, records[i].sequence))
                    ELSE records[i]]
  BY <1>5, SameCorrect, SameReferencesBefore
<1> QED BY <1>2, <1>3, <1>4, <1>6, <1>7, <1>8 DEF Abstract!CorrectAll

\* The commit of an approval signs one record that is VALID at this very step.
LEMMA CommitIsApproveOne ==
  ASSUME Inductive, Outcomes, NEW w \in Workers, CommitUpdate(w), batch, op[w] = "approve"
  PROVE  Abstract!ApproveOne
<1>1. \A i \in targets[w] : records[i].status = "VALID" /\ draft[w][i] = Signed(records[i])
  BY CommitWritesOutcome
<1>2. PICK i \in targets[w] : targets[w] = {i}
  BY DEF Outcomes, DraftIsOutcome, SingleOps, CommitUpdate
<1>3. i \in DOMAIN records
  BY CommitWritesDraft
<1>4. \A j \in DOMAIN records : records'[j] = IF j = i THEN Signed(records[i]) ELSE records[j]
  BY <1>1, <1>2, CommitWritesDraft
<1>5. records' = [j \in DOMAIN records |-> records'[j]]
  BY DEF CommitUpdate
<1>6. records' = [records EXCEPT ![i].status = "VALIDATED"]
  BY <1>3, <1>4, <1>5 DEF Signed, Inductive, TypeOK
<1> QED BY <1>1, <1>3, <1>6 DEF Abstract!ApproveOne, CommitUpdate

\* Every step of the requests is a step of Review, or changes nothing.
LEMMA StepImplements ==
  ASSUME Inductive, Outcomes, [Next]_vars
  PROVE  [Abstract!ReviewNext]_(Abstract!reviewVars)
<1>0. CASE UNCHANGED vars
  BY <1>0 DEF vars, Abstract!reviewVars
<1>1. ASSUME NEW w \in Workers,
             \/ OpenRecord(w) \/ OpenBulk(w) \/ OpenImport(w) \/ OpenDelete(w)
             \/ LockBatch(w) \/ Refresh(w) \/ Rework(w) \/ Approve(w)
             \/ ReadSequence(w) \/ BuildRows(w)
             \/ CommitUpdate(w) \/ CommitImport(w) \/ Close(w)
             \/ DeleteRecords(w) \/ DeleteBatch(w)
      PROVE  [Abstract!ReviewNext]_(Abstract!reviewVars)
  <2>1. CASE CommitUpdate(w)
    <3>1. CASE batch
      BY <2>1, <3>1, CommitIsCorrectAll, CommitIsApproveOne DEF Abstract!ReviewNext
    <3>2. CASE ~batch
      <4>1. DOMAIN records = {} /\ DOMAIN records' = {} /\ batch' = batch
        BY <2>1, <3>2 DEF Inductive, GoneIsEmpty, CommitUpdate
      <4>2. records' = records
        BY <2>1, <4>1 DEF CommitUpdate, Inductive, TypeOK
      <4> QED BY <4>1, <4>2 DEF Abstract!reviewVars
    <3> QED BY <3>1, <3>2
  <2>2. CASE CommitImport(w)
    <3>1. PICK lines \in Uploads :
            /\ Len(records) + Len(lines) <= MaxRecords
            /\ records' = records \o NewRows(lines, Len(records), ReferencesBefore(records, Len(records)))
      BY <2>2, CommitImportWrites
    <3>2. records' = records \o
            Abstract!NewRows(lines, Len(records), Abstract!ReferencesBefore(records, Len(records)))
      BY <3>1, SameNewRows, SameReferencesBefore
    <3>3. batch /\ batch' = batch
      BY <2>2 DEF CommitImport
    <3> QED BY <3>1, <3>2, <3>3 DEF Abstract!ReviewNext, Abstract!Import
  <2>3. CASE DeleteBatch(w)
    BY <2>3 DEF DeleteBatch, Abstract!ReviewNext, Abstract!DeleteAll
  <2>4. CASE ~(CommitUpdate(w) \/ CommitImport(w) \/ DeleteBatch(w))
    <3>1. UNCHANGED <<batch, records>>
      BY <1>1, <2>4 DEF OpenRecord, OpenBulk, OpenImport, OpenDelete, Open, LockBatch, TakesLock,
         Refresh, Rework, Approve, ReadSequence, BuildRows, Close, Finish, DeleteRecords
    <3> QED BY <3>1 DEF Abstract!reviewVars
  <2> QED BY <2>1, <2>2, <2>3, <2>4
<1> QED BY <1>0, <1>1 DEF Next

\* The batch lock makes every request appear to run alone: under all interleavings
\* the table changes only as the atomic requests of Review change it.
THEOREM RecordsImplementReview == Spec => ReviewSpec
<1>1. Init => Abstract!Init
  BY DEF Init, Abstract!Init
<1>2. Inductive /\ Outcomes /\ [Next]_vars => [Abstract!ReviewNext]_(Abstract!reviewVars)
  BY StepImplements
<1> QED BY <1>1, <1>2, AlwaysOutcomes, PTL DEF Spec, ReviewSpec, Abstract!Spec

(***************************************************************************)
(* What a commit does to the verdicts.                                     *)
(***************************************************************************)

\* Two tables whose rows before a position hold the same references.
LEMMA SameReferences ==
  ASSUME NEW table, NEW other, NEW n, DOMAIN other = DOMAIN table,
         \A i \in DOMAIN table :
            /\ other[i].sequence = table[i].sequence
            /\ table[i].sequence < n => other[i].reference = table[i].reference
  PROVE  ReferencesBefore(other, n) = ReferencesBefore(table, n)
BY DEF ReferencesBefore

\* What the commit of an update makes of each record it writes: the verdict of its new
\* payload, or a signature; the reference only changes when the one record a correction
\* is about is given another.
LEMMA CommitJudges ==
  ASSUME Inductive, Outcomes, NEW w \in Workers, CommitUpdate(w), NEW i \in Dirty(w)
  PROVE  /\ i \in DOMAIN records
         /\ records'[i].sequence = records[i].sequence /\ records'[i].source = records[i].source
         /\ \/ records'[i].errors =
                 Validate(records'[i].source, records'[i].payload, ReferencesBefore(records, records[i].sequence))
            \/ records'[i].payload = records[i].payload /\ records'[i].errors = records[i].errors
         /\ \/ records'[i].reference = records[i].reference
            \/ Dirty(w) = {i} /\ \E change \in Edits : change.reference # Unset
<1>1. /\ batch /\ i \in targets[w] /\ i \in DOMAIN records /\ records'[i] = draft[w][i]
      /\ records[i] \in Row /\ Normal(records[i])
  BY CommitWritesDraft DEF Outcomes, Inductive, TypeOK
<1>2. CASE op[w] = "approve"
  <2>1. records'[i] = Signed(records[i])
    BY <1>1, <1>2, CommitWritesOutcome
  <2> QED BY <1>1, <2>1, SignedFields
<1>3. CASE op[w] # "approve"
  <2>1. PICK change \in ChangesOf(op[w]) : records'[i] = Corrected(records[i], change)
    BY <1>1, <1>3, CommitWritesOutcome
  <2>2. /\ change \in Change /\ change \in Edits \cup {NoChange}
        /\ op[w] # "correct" => change.reference = Unset
    BY <2>1, ChangesAreChanges
  <2>3. PICK existing : existing = ReferencesBefore(records, records[i].sequence)
    OBVIOUS
  <2>4. PICK new : new = Correct(records[i], change, existing)
    OBVIOUS
  <2>5. /\ new.sequence = records[i].sequence /\ new.source = records[i].source
        /\ new.errors = Validate(new.source, new.payload, existing)
        /\ change.reference = Unset => new.reference = records[i].reference
    BY <1>1, <2>2, <2>4, CorrectFields
  <2>6. records'[i] = new
    BY <2>1, <2>3, <2>4 DEF Corrected
  <2>7. op[w] = "correct" => Dirty(w) = {i}
    <3>1. op[w] = "correct" /\ pc[w] = "ready" => \E j \in targets[w] : targets[w] = {j}
      BY DEF Outcomes, DraftIsOutcome, SingleOps
    <3> QED BY <3>1 DEF CommitUpdate, Dirty
  <2>8. change.reference # Unset => change \in Edits
    BY <2>2 DEF NoChange
  <2> QED BY <1>1, <2>2, <2>3, <2>5, <2>6, <2>7, <2>8
<1> QED BY <1>2, <1>3

\* A verdict an update writes is exact for the table it writes.
LEMMA CommitUpdateExact ==
  ASSUME Inductive, Outcomes, NEW w \in Workers, CommitUpdate(w), NEW i \in DOMAIN records', Rejudged(i)
  PROVE  Exact(records, i)'
<1>1. /\ i \in DOMAIN records /\ DOMAIN records' = DOMAIN records
      /\ \A j \in DOMAIN records \ Dirty(w) : records'[j] = records[j]
  BY CommitWritesDraft
<1>2. i \in Dirty(w)
  BY <1>1 DEF Rejudged
<1>3. /\ records'[i].sequence = records[i].sequence
      /\ records'[i].errors =
           Validate(records'[i].source, records'[i].payload, ReferencesBefore(records, records[i].sequence))
  BY <1>2, CommitJudges DEF Rejudged
<1>4. ASSUME NEW j \in DOMAIN records
      PROVE  /\ records'[j].sequence = records[j].sequence
             /\ records[j].sequence < records[i].sequence => records'[j].reference = records[j].reference
  <2>1. CASE j \notin Dirty(w)
    BY <1>1, <2>1
  <2>2. CASE j \in Dirty(w)
    <3>1. records'[j].sequence = records[j].sequence
      BY <2>2, CommitJudges
    <3>2. records'[j].reference = records[j].reference \/ Dirty(w) = {j}
      BY <2>2, CommitJudges
    <3>3. records[j].sequence < records[i].sequence => j # i
      <4>1. records[i] \in Row
        BY <1>1 DEF Inductive, TypeOK
      <4> QED BY <4>1 DEF Row
    <3> QED BY <1>2, <3>1, <3>2, <3>3
  <2> QED BY <2>1, <2>2
<1>5. ReferencesBefore(records', records[i].sequence) = ReferencesBefore(records, records[i].sequence)
  BY <1>1, <1>4, SameReferences
<1> QED BY <1>3, <1>5 DEF Exact

\* The references before a position of a table that grows at its end: the old ones, and
\* of the new rows those that come first.
LEMMA ReferencesAfterImport ==
  ASSUME NEW table \in Seq(Row), NEW rows \in Seq(Row), NEW grown \in Seq(Row),
         Numbered(table, 0), Numbered(rows, Len(table)), Grown(table, rows, grown)
  PROVE  /\ \A n \in 0..Len(table) : ReferencesBefore(grown, n) = ReferencesBefore(table, n)
         /\ \A k \in 1..Len(rows) :
              ReferencesBefore(grown, Len(table) + k - 1)
                = ReferencesBefore(table, Len(table)) \cup EarlierReferences(rows, k)
<1>0. /\ Len(table) \in Nat /\ Len(rows) \in Nat /\ DOMAIN table = 1..Len(table) /\ DOMAIN grown = 1..Len(grown)
      /\ Len(grown) = Len(table) + Len(rows)
      /\ \A j \in 1..Len(table) : table[j].sequence = j - 1
      /\ \A j \in 1..Len(rows) : rows[j].sequence = Len(table) + j - 1
      /\ \A j \in 1..Len(grown) : grown[j] = IF j <= Len(table) THEN table[j] ELSE rows[j - Len(table)]
  BY DEF Numbered, Grown
<1>1. \A j \in 1..Len(grown) : grown[j].sequence = j - 1
  <2> TAKE j \in 1..Len(grown)
  <2>1. CASE j <= Len(table)
    BY <1>0, <2>1
  <2>2. CASE ~(j <= Len(table))
    <3>1. j - Len(table) \in 1..Len(rows) /\ grown[j] = rows[j - Len(table)]
      BY <1>0, <2>2
    <3>2. grown[j].sequence = Len(table) + (j - Len(table)) - 1
      BY <1>0, <3>1
    <3> QED BY <1>0, <3>2
  <2> QED BY <2>1, <2>2
<1>2. ASSUME NEW n \in 0..Len(table) PROVE ReferencesBefore(grown, n) = ReferencesBefore(table, n)
  <2>1. {j \in DOMAIN grown : grown[j].sequence < n} = {j \in DOMAIN table : table[j].sequence < n}
    <3>1. {j \in DOMAIN grown : grown[j].sequence < n} = 1..n
      BY <1>0, <1>1
    <3>2. {j \in DOMAIN table : table[j].sequence < n} = 1..n
      BY <1>0
    <3> QED BY <3>1, <3>2
  <2>2. \A j \in {k \in DOMAIN table : table[k].sequence < n} : grown[j].reference = table[j].reference
    BY <1>0
  <2> QED BY <2>1, <2>2 DEF ReferencesBefore
<1>3. ASSUME NEW k \in 1..Len(rows)
      PROVE  ReferencesBefore(grown, Len(table) + k - 1)
               = ReferencesBefore(table, Len(table)) \cup EarlierReferences(rows, k)
  <2>1. {j \in DOMAIN grown : grown[j].sequence < Len(table) + k - 1} = 1..(Len(table) + k - 1)
    BY <1>0, <1>1
  <2>2. {j \in DOMAIN table : table[j].sequence < Len(table)} = 1..Len(table)
    BY <1>0
  <2>3. {j \in 1..Len(rows) : j < k} = 1..(k - 1)
    OBVIOUS
  <2>4. {grown[j].reference : j \in 1..(Len(table) + k - 1)}
          = {table[j].reference : j \in 1..Len(table)} \cup {rows[j].reference : j \in 1..(k - 1)}
    <3>1. ASSUME NEW j \in 1..Len(table)
          PROVE  j \in 1..(Len(table) + k - 1) /\ grown[j].reference = table[j].reference
      BY <1>0
    <3>2. ASSUME NEW j \in 1..(k - 1)
          PROVE  /\ Len(table) + j \in 1..(Len(table) + k - 1)
                 /\ grown[Len(table) + j].reference = rows[j].reference
      <4>1. PICK m \in 1..Len(grown) : m = Len(table) + j
        BY <1>0, SMTT(20)
      <4>2. m - Len(table) = j /\ ~(m <= Len(table))
        BY <1>0, <4>1
      <4>3. grown[m] = rows[m - Len(table)]
        BY <1>0, <4>2
      <4> QED BY <1>0, <4>1, <4>2, <4>3
    <3>3. ASSUME NEW j \in 1..(Len(table) + k - 1), j \notin 1..Len(table)
          PROVE  j - Len(table) \in 1..(k - 1) /\ grown[j].reference = rows[j - Len(table)].reference
      BY <1>0, <3>3
    <3> DEFINE before == {table[j].reference : j \in 1..Len(table)}
               new == {rows[j].reference : j \in 1..(k - 1)}
               all == {grown[j].reference : j \in 1..(Len(table) + k - 1)}
    <3>0. DOMAIN table = 1..Len(table)
      BY <1>0
    <3>4. before \subseteq all
      BY <3>1
    <3>5. new \subseteq all
      BY <3>2
    <3>6. ASSUME NEW j \in 1..(Len(table) + k - 1) PROVE grown[j].reference \in before \cup new
      <4>1. CASE j \in 1..Len(table)
        BY <3>1, <4>1
      <4>2. CASE j \notin 1..Len(table)
        BY <3>3, <4>2
      <4> QED BY <4>1, <4>2
    <3> QED BY <3>4, <3>5, <3>6
  <2> QED BY <2>1, <2>2, <2>3, <2>4 DEF ReferencesBefore, EarlierReferences
<1> QED BY <1>2, <1>3

\* A verdict an import writes is exact for the table it writes, and those of the rows
\* before it stay what they were.
LEMMA CommitImportExact ==
  ASSUME Inductive, Outcomes, NEW w \in Workers, CommitImport(w), NEW i \in DOMAIN records'
  PROVE  \/ i \in DOMAIN records /\ records'[i] = records[i] /\ (Exact(records, i) => Exact(records, i)')
         \/ i \notin DOMAIN records /\ Exact(records, i)'
<1>1. PICK rows \in Seq(Row) :
        /\ Grown(records, rows, records') /\ Numbered(rows, Len(records))
        /\ Judged(rows, ReferencesBefore(records, Len(records)))
  BY CommitImportWrites
<1>2. records \in Seq(Row) /\ records' \in Seq(Row) /\ Numbered(records, 0)
  BY NextInductive DEF Inductive, TypeOK, ArrivalOrder, Next, Numbered
<1>3. /\ Len(records') = Len(records) + Len(rows)
      /\ \A j \in 1..Len(records') :
           records'[j] = IF j <= Len(records) THEN records[j] ELSE rows[j - Len(records)]
      /\ \A k \in 1..Len(rows) :
           /\ rows[k].sequence = Len(records) + k - 1
           /\ rows[k].errors = Validate(rows[k].source, rows[k].payload,
                                 ReferencesBefore(records, Len(records)) \cup EarlierReferences(rows, k))
  BY <1>1 DEF Grown, Numbered, Judged
<1>4. /\ \A n \in 0..Len(records) : ReferencesBefore(records', n) = ReferencesBefore(records, n)
      /\ \A k \in 1..Len(rows) :
           ReferencesBefore(records', Len(records) + k - 1)
             = ReferencesBefore(records, Len(records)) \cup EarlierReferences(rows, k)
  <2>1. PICK table \in Seq(Row) : table = records
    BY <1>2
  <2>2. PICK grown \in Seq(Row) : grown = records'
    BY <1>2
  <2>3. /\ \A n \in 0..Len(table) : ReferencesBefore(grown, n) = ReferencesBefore(table, n)
        /\ \A k \in 1..Len(rows) :
             ReferencesBefore(grown, Len(table) + k - 1)
               = ReferencesBefore(table, Len(table)) \cup EarlierReferences(rows, k)
    BY <1>1, <1>2, <2>1, <2>2, ReferencesAfterImport
  <2> QED BY <2>1, <2>2, <2>3
<1>5. i \in 1..Len(records') /\ Len(records) \in Nat /\ DOMAIN records = 1..Len(records)
  BY <1>2
<1>6. CASE i <= Len(records)
  <2>1. i \in DOMAIN records /\ records'[i] = records[i]
    BY <1>3, <1>5, <1>6
  <2>2. records[i].sequence \in 0..Len(records)
    BY <1>2, <1>5, <2>1 DEF Numbered
  <2> QED BY <1>4, <2>1, <2>2 DEF Exact
<1>7. CASE ~(i <= Len(records))
  <2>1. PICK k \in 1..Len(rows) : i = Len(records) + k
    <3>1. i - Len(records) \in 1..Len(rows) /\ i = Len(records) + (i - Len(records))
      BY <1>3, <1>5, <1>7
    <3> QED BY <3>1
  <2>2. records'[i] = rows[k] /\ i \notin DOMAIN records
    BY <1>3, <1>5, <1>7, <2>1
  <2> QED BY <1>3, <1>4, <2>2, Zenon DEF Exact
<1> QED BY <1>6, <1>7

\* Only a commit writes the table.
LEMMA OnlyCommitsWrite ==
  ASSUME [Next]_vars
  PROVE  \/ UNCHANGED <<batch, records>>
         \/ \E w \in Workers : CommitUpdate(w) \/ CommitImport(w) \/ DeleteBatch(w)
<1>1. ASSUME NEW w \in Workers, \/ OpenRecord(w) \/ OpenBulk(w) \/ OpenImport(w) \/ OpenDelete(w)
                                \/ LockBatch(w) \/ DeleteRecords(w)
      PROVE  UNCHANGED <<batch, records>>
  BY <1>1 DEF OpenRecord, OpenBulk, OpenImport, OpenDelete, Open, LockBatch, TakesLock, DeleteRecords
<1>2. ASSUME NEW w \in Workers, Close(w) PROVE UNCHANGED <<batch, records>>
  BY <1>2 DEF Close
<1>3. ASSUME NEW w \in Workers, Rework(w) PROVE UNCHANGED <<batch, records>>
  BY <1>3 DEF Rework
<1>4. ASSUME NEW w \in Workers, Approve(w) PROVE UNCHANGED <<batch, records>>
  BY <1>4 DEF Approve
<1>5. ASSUME NEW w \in Workers, ReadSequence(w) \/ BuildRows(w) PROVE UNCHANGED <<batch, records>>
  BY <1>5 DEF ReadSequence, BuildRows
<1>6. ASSUME NEW w \in Workers, Refresh(w) PROVE UNCHANGED <<batch, records>>
  BY <1>6 DEF Refresh
<1> QED BY <1>1, <1>2, <1>3, <1>4, <1>5, <1>6 DEF Next, vars

\* An import or a correction never misses a reference another request committed while
\* it was running: a verdict is exact at the step that commits it.
THEOREM VerdictsAreExactWhenWritten == Spec => VerdictExactWhenWritten
<1>1. ASSUME Inductive, Outcomes, [Next]_vars
      PROVE  \A i \in DOMAIN records' : Rejudged(i) => Exact(records, i)'
  <2> SUFFICES ASSUME NEW i \in DOMAIN records', Rejudged(i) PROVE Exact(records, i)'
    OBVIOUS
  <2>1. CASE UNCHANGED <<batch, records>>
    BY <2>1 DEF Rejudged
  <2>2. ASSUME NEW w \in Workers, CommitUpdate(w) PROVE Exact(records, i)'
    BY <1>1, <2>2, CommitUpdateExact
  <2>3. ASSUME NEW w \in Workers, CommitImport(w) PROVE Exact(records, i)'
    BY <1>1, <2>3, CommitImportExact DEF Rejudged
  <2>4. ASSUME NEW w \in Workers, DeleteBatch(w) PROVE Exact(records, i)'
    BY <2>4 DEF DeleteBatch
  <2> QED BY <1>1, <2>1, <2>2, <2>3, <2>4, OnlyCommitsWrite
<1>2. Inductive /\ Outcomes /\ [Next]_vars => [\A i \in DOMAIN records' : Rejudged(i) => Exact(records', i)]_vars
  BY <1>1 DEF Exact
<1> QED BY <1>2, AlwaysOutcomes, PTL DEF Spec, VerdictExactWhenWritten

\* A bulk correction lands whole or not at all, whatever commits or fails meanwhile.
THEOREM BulkCorrectionsAreAtomic == Spec => BulkIsAtomic
<1>1. ASSUME Inductive, [Next]_vars, NEW w \in Workers, op[w] = "bulk", pc[w] = "ready", batch'
      PROVE  \/ \A i \in Dirty(w) : records'[i] = draft[w][i]
             \/ \A i \in Dirty(w) : records'[i] = records[i]
  <2>1. CASE UNCHANGED <<batch, records>>
    BY <2>1
  <2>2. ASSUME NEW v \in Workers, CommitUpdate(v) \/ CommitImport(v) PROVE v = w
    <3>1. batch /\ pc[v] = "ready" /\ op[v] # "delete"
      BY <1>1, <2>2 DEF CommitUpdate, CommitImport, UpdateOps, SingleOps
    <3> QED BY <1>1, <3>1 DEF Inductive, LockDiscipline
  <2>3. ~CommitImport(w)
    BY <1>1 DEF CommitImport
  <2>4. CASE CommitUpdate(w)
    BY <1>1, <2>4, CommitWritesDraft
  <2>5. ASSUME NEW v \in Workers PROVE ~DeleteBatch(v)
    BY <1>1 DEF DeleteBatch
  <2> QED BY <1>1, <2>1, <2>2, <2>3, <2>4, <2>5, OnlyCommitsWrite
<1>2. Inductive /\ [Next]_vars =>
        [\A w \in Workers : op[w] = "bulk" /\ pc[w] = "ready" /\ batch' =>
           \/ \A i \in Dirty(w) : records'[i] = draft[w][i]
           \/ \A i \in Dirty(w) : records'[i] = records[i]]_vars
  BY <1>1
<1> QED BY <1>2, AlwaysInductive, PTL DEF Spec, BulkIsAtomic

\* As long as no correction names a reference, no commit makes a stored verdict stale.
LEMMA VerdictsStayCurrent ==
  ASSUME \A change \in Edits : change.reference = Unset,
         Inductive, Outcomes, VerdictsCurrent, [Next]_vars
  PROVE  VerdictsCurrent'
<1> SUFFICES ASSUME NEW i \in DOMAIN records' PROVE Exact(records, i)'
  BY DEF VerdictsCurrent
<1>1. CASE UNCHANGED <<batch, records>>
  BY <1>1 DEF VerdictsCurrent, Exact
<1>2. ASSUME NEW w \in Workers, CommitUpdate(w) PROVE Exact(records, i)'
  <2>1. /\ i \in DOMAIN records /\ DOMAIN records' = DOMAIN records
        /\ \A j \in DOMAIN records \ Dirty(w) : records'[j] = records[j]
    BY <1>2, CommitWritesDraft
  <2>2. \A j \in DOMAIN records :
          records'[j].sequence = records[j].sequence /\ records'[j].reference = records[j].reference
    BY <1>2, <2>1, CommitJudges
  <2>3. CASE Rejudged(i)
    BY <1>2, <2>3, CommitUpdateExact
  <2>4. CASE ~Rejudged(i)
    <3>1. records'[i].payload = records[i].payload /\ records'[i].errors = records[i].errors
      BY <2>1, <2>4 DEF Rejudged
    <3>2. records'[i].source = records[i].source
      BY <1>2, <2>1, CommitJudges
    <3>3. ReferencesBefore(records', records[i].sequence) = ReferencesBefore(records, records[i].sequence)
      BY <2>1, <2>2, SameReferences
    <3> QED BY <2>1, <2>2, <3>1, <3>2, <3>3 DEF VerdictsCurrent, Exact
  <2> QED BY <2>3, <2>4
<1>3. ASSUME NEW w \in Workers, CommitImport(w) PROVE Exact(records, i)'
  BY <1>3, CommitImportExact DEF VerdictsCurrent
<1>4. ASSUME NEW w \in Workers, DeleteBatch(w) PROVE Exact(records, i)'
  BY <1>4 DEF DeleteBatch
<1> QED BY <1>1, <1>2, <1>3, <1>4, OnlyCommitsWrite

\* As long as no correction names a reference, every stored verdict is exact at every
\* moment, whatever runs at once.  The run records_reference shows what the hypothesis
\* is for: a correction of one reference leaves the verdicts of others behind.
THEOREM StoredVerdictsAreCurrent ==
  ASSUME \A change \in Edits : change.reference = Unset
  PROVE  Spec => []VerdictsCurrent
<1>1. Init => VerdictsCurrent
  BY DEF Init, VerdictsCurrent
<1>2. (Inductive /\ Outcomes) /\ VerdictsCurrent /\ [Next]_vars => VerdictsCurrent'
  BY VerdictsStayCurrent
<1> QED BY <1>1, <1>2, AlwaysOutcomes, PTL DEF Spec

\* Under the same hypothesis a reference is free of errors on its first occurrence only:
\* the later ones carry DUPLICATE_REFERENCE.
LEMMA FirstOccurrence ==
  ASSUME Inductive, Outcomes, VerdictsCurrent
  PROVE  FirstOccurrenceWins
<1>1. ASSUME NEW i \in DOMAIN records, NEW j \in DOMAIN records, i < j,
             records[i].reference = records[j].reference, records[j].errors = {}
      PROVE  FALSE
  <2>1. records[j].errors = Validate(records[j].source, records[j].payload,
                                     ReferencesBefore(records, records[j].sequence))
    BY <1>1 DEF VerdictsCurrent, Exact
  <2>2. records[j].reference = records[j].payload.reference
    BY DEF Outcomes, Normal
  <2>3. records[j].payload.reference # NoReference
    BY <1>1, <2>1 DEF Validate, ErrorCodes
  <2>4. records[j].payload.reference \notin ReferencesBefore(records, records[j].sequence)
    BY <1>1, <2>1 DEF Validate, ErrorCodes
  <2>5. records[i].sequence < records[j].sequence
    BY <1>1 DEF Inductive, ArrivalOrder, TypeOK
  <2>6. records[i].reference \in ReferencesBefore(records, records[j].sequence)
    BY <1>1, <2>2, <2>3, <2>5 DEF ReferencesBefore
  <2> QED BY <1>1, <2>2, <2>4, <2>6
<1>2. DOMAIN records \subseteq Int
  BY DEF Inductive, TypeOK
<1> SUFFICES ASSUME NEW i \in DOMAIN records, NEW j \in DOMAIN records, i # j,
                    records[i].errors = {}, records[j].errors = {}, records[i].reference = records[j].reference
             PROVE  FALSE
  BY DEF FirstOccurrenceWins
<1>3. i < j \/ j < i
  BY <1>2
<1> QED BY <1>1, <1>3

\* Two records free of errors never hold the same reference.
THEOREM FirstOccurrenceIsTheOnlyOne ==
  ASSUME \A change \in Edits : change.reference = Unset
  PROVE  Spec => []FirstOccurrenceWins
<1>1. Inductive /\ Outcomes /\ VerdictsCurrent => FirstOccurrenceWins
  BY FirstOccurrence
<1> QED BY <1>1, AlwaysOutcomes, StoredVerdictsAreCurrent, PTL

=============================================================================
