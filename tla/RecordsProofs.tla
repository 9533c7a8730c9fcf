--------------------------- MODULE RecordsProofs ---------------------------
(***************************************************************************)
(* What every run of Records preserves, proved for any number of threads,  *)
(* references, uploads, corrections and records.                           *)
(*                                                                         *)
(* The argument: whoever is past lock_batch holds the batch row            *)
(* (LockDiscipline), so from its refresh to its commit no one else writes  *)
(* the table and its session is current (SessionIsCurrent); hence what it  *)
(* is about to write is clean and continues the numbering (DraftIsSound),  *)
(* and the table stays clean and numbered when it commits.  A deletion     *)
(* takes no lock but waits for the holder, and after it every conjunct     *)
(* speaks of an empty table.                                               *)
(***************************************************************************)
EXTENDS Records, TLAPS

(***************************************************************************)
(* Facts about the operators of Verdicts.                                  *)
(***************************************************************************)

\* Validation reports known error codes only (validate_record).
LEMMA ValidateType ==
  ASSUME NEW source, NEW payload, NEW existing
  PROVE  Validate(source, payload, existing) \in SUBSET ErrorCodes
BY DEF Validate

\* The derived status is never VALIDATED (derive_status).
LEMMA DeriveStatusType ==
  ASSUME NEW errors
  PROVE  DeriveStatus(errors) \in {"VALID", "NEEDS_REVIEW"}
BY DEF DeriveStatus

\* A record has a certainty, and so it has once it is written with two decimals
\* (record_confidence, _account_for_human_review).
LEMMA ScoresType ==
  ASSUME NEW scores
  PROVE  RecordConfidence(scores) \in Certainties /\ Formatted(RecordConfidence(scores)) \in Certainties
BY DEF RecordConfidence, Formatted, Certainties

\* Merging a correction keeps raw_payload well formed (correct_in_transaction).
LEMMA MergeType ==
  ASSUME NEW payload \in Payload, NEW change \in Change
  PROVE  Merge(payload, change) \in Payload
BY DEF Merge, Payload, Change

\* Accounting for a review changes the scores and the confidence of a row only.
LEMMA ReviewType ==
  ASSUME NEW row \in Row, NEW change \in Change
  PROVE  AccountForHumanReview(row, change) \in Row
<1>1. CASE row.source # "PDF" \/ Touched(change) = {} \/ row.scores = NoScores
  BY <1>1 DEF AccountForHumanReview
<1>2. CASE ~(row.source # "PDF" \/ Touched(change) = {} \/ row.scores = NoScores)
  <2> DEFINE scores == [f \in DOMAIN row.scores |-> IF f \in Touched(change) THEN "high" ELSE row.scores[f]]
  <2>1. row.scores \in [Fields -> Certainties]
    BY <1>2 DEF Row, Scores
  <2>2. scores \in [Fields -> Certainties]
    BY <2>1 DEF Certainties
  <2>3. scores \in Scores
    BY <2>2 DEF Scores
  <2> DEFINE certainty == Formatted(RecordConfidence(scores))
  <2>4. certainty \in Certainties
    BY ScoresType
  <2> DEFINE payload == [row.payload EXCEPT !.confidence = certainty]
  <2>5. AccountForHumanReview(row, change) = [row EXCEPT !.scores = scores, !.payload.confidence = certainty]
    BY <1>2 DEF AccountForHumanReview
  <2> HIDE DEF scores, certainty
  <2>6. payload \in Payload
    BY <2>4 DEF Row, Payload
  <2>7. AccountForHumanReview(row, change) = [row EXCEPT !.scores = scores, !.payload = payload]
    BY <2>5 DEF Row
  <2> HIDE DEF payload
  <2> QED BY <2>3, <2>6, <2>7 DEF Row
<1> QED BY <1>1, <1>2

\* A revalidated row is well formed, keeps its position and is clean.
LEMMA RevalidateType ==
  ASSUME NEW row \in Row, NEW existing
  PROVE  /\ Revalidate(row, existing) \in Row
         /\ Revalidate(row, existing).sequence = row.sequence
         /\ Clean(Revalidate(row, existing))
<1> DEFINE errors == Validate(row.source, row.payload, existing)
<1>1. errors \in SUBSET ErrorCodes
  BY ValidateType
<1> HIDE DEF errors
<1>2. Revalidate(row, existing) =
        [row EXCEPT !.reference = row.payload.reference, !.errors = errors, !.status = DeriveStatus(errors)]
  BY DEF Revalidate, errors
<1> QED BY <1>1, <1>2 DEF Row, Payload, DeriveStatus, Statuses, Clean

\* So is a corrected row: this is what apply_correction writes.
LEMMA CorrectType ==
  ASSUME NEW row \in Row, NEW change \in Change, NEW existing
  PROVE  /\ Correct(row, change, existing) \in Row
         /\ Correct(row, change, existing).sequence = row.sequence
         /\ Clean(Correct(row, change, existing))
<1> DEFINE merged == [row EXCEPT !.payload = Merge(@, change)]
<1>1. merged \in Row /\ merged.sequence = row.sequence
  BY MergeType DEF Row
<1>2. AccountForHumanReview(merged, change) \in Row
  BY <1>1, ReviewType
<1>3. AccountForHumanReview(merged, change).sequence = merged.sequence
  BY <1>1 DEF AccountForHumanReview, Row
<1> HIDE DEF merged
<1>4. Correct(row, change, existing) = Revalidate(AccountForHumanReview(merged, change), existing)
  BY DEF Correct, merged
<1> QED BY <1>1, <1>2, <1>3, <1>4, RevalidateType

\* A row built by persist_records is well formed, at its position, and clean.
LEMMA NewRowType ==
  ASSUME NEW line \in Line, NEW position \in Nat, NEW seen
  PROVE  /\ NewRow(line, position, seen) \in Row
         /\ NewRow(line, position, seen).sequence = position
         /\ Clean(NewRow(line, position, seen))
<1> DEFINE payload == ImportedPayload(line)
           errors == Validate(line.source, payload, seen)
<1>1. RecordConfidence(line.scores) \in Certainties
  BY ScoresType
<1>2. payload \in Payload
  BY <1>1 DEF ImportedPayload, Line, Payload
<1>3. errors \in SUBSET ErrorCodes
  BY ValidateType
<1> HIDE DEF payload, errors
<1>4. NewRow(line, position, seen) =
        [sequence |-> position, source |-> line.source, payload |-> payload, scores |-> line.scores,
         reference |-> payload.reference, errors |-> errors, status |-> DeriveStatus(errors)]
  BY DEF NewRow, payload, errors
<1> QED BY <1>2, <1>3, <1>4 DEF Row, Line, Payload, DeriveStatus, Statuses, Clean

\* The rows of an import take consecutive positions from its base.
LEMMA NewRowsType ==
  ASSUME NEW lines \in Seq(Line), NEW from \in Nat, NEW existing
  PROVE  LET rows == NewRows(lines, from, existing)
         IN  /\ rows \in Seq(Row)
             /\ Len(rows) = Len(lines)
             /\ \A i \in 1..Len(rows) : /\ rows[i].sequence = from + i - 1
                                        /\ Clean(rows[i])
<1> DEFINE seen(i) == existing \cup ({lines[j].payload.reference : j \in {k \in DOMAIN lines : k < i}} \ {NoReference})
           rows == NewRows(lines, from, existing)
<1>1. rows = [i \in 1..Len(lines) |-> NewRow(lines[i], from + i - 1, seen(i))]
  BY DEF NewRows
<1>2. ASSUME NEW i \in 1..Len(lines)
      PROVE  /\ rows[i] \in Row
             /\ rows[i].sequence = from + i - 1
             /\ Clean(rows[i])
  <2>1. lines[i] \in Line /\ from + i - 1 \in Nat
    OBVIOUS
  <2>2. rows[i] = NewRow(lines[i], from + i - 1, seen(i))
    BY <1>1
  <2> HIDE DEF rows, seen
  <2> QED BY <2>1, <2>2, NewRowType
<1>3. DOMAIN rows = 1..Len(lines)
  BY <1>1
<1> HIDE DEF rows
<1>4. rows = [i \in 1..Len(lines) |-> rows[i]]
  BY <1>1
<1>5. rows \in Seq(Row) /\ Len(rows) = Len(lines)
  BY <1>2, <1>4
<1> QED BY <1>2, <1>5 DEF rows

\* Writing the dirty columns over the row the session loaded writes the draft.
LEMMA WriteDirtyCurrent ==
  ASSUME NEW stored \in Row, NEW new \in Row
  PROVE  WriteDirty(stored, stored, new) = new
BY DEF WriteDirty, Row

\* In a table without gaps, one more than the highest position is its length
\* (next_import_sequence).
LEMMA NextSequenceIsLength ==
  ASSUME NEW table \in Seq(Row), \A i \in DOMAIN table : table[i].sequence = i - 1
  PROVE  NextSequence(table) = Len(table)
<1> DEFINE positions == {table[i].sequence : i \in DOMAIN table}
<1>1. DOMAIN table = 1..Len(table) /\ Len(table) \in Nat
  OBVIOUS
<1>2. positions = 0..(Len(table) - 1)
  <2>1. ASSUME NEW n \in 0..(Len(table) - 1) PROVE n \in positions
    <3>1. n + 1 \in DOMAIN table /\ table[n + 1].sequence = n
      BY <1>1
    <3> QED BY <3>1
  <2>2. ASSUME NEW n \in positions PROVE n \in 0..(Len(table) - 1)
    <3>1. PICK i \in DOMAIN table : n = table[i].sequence
      OBVIOUS
    <3> QED BY <1>1, <3>1
  <2> QED BY <2>1, <2>2
<1>3. CASE Len(table) = 0
  BY <1>2, <1>3 DEF NextSequence
<1>4. CASE Len(table) # 0
  <2> DEFINE top == CHOOSE n \in positions : \A m \in positions : m <= n
  <2>1. Len(table) - 1 \in positions /\ \A m \in positions : m <= Len(table) - 1
    BY <1>1, <1>2, <1>4
  <2>2. top \in positions /\ \A m \in positions : m <= top
    BY <2>1
  <2>3. top = Len(table) - 1
    BY <1>1, <1>2, <2>1, <2>2
  <2>4. positions # {}
    BY <2>1
  <2> HIDE DEF top
  <2>5. NextSequence(table) = 1 + top
    BY <2>4 DEF NextSequence, top
  <2> QED BY <1>1, <2>3, <2>5
<1> QED BY <1>3, <1>4

(***************************************************************************)
(* The inductive invariant.                                                *)
(***************************************************************************)

\* The empty batch satisfies the invariant.
LEMMA InitInductive == Init => Inductive
<1> SUFFICES ASSUME Init PROVE Inductive
  OBVIOUS
<1> USE DEF Init
<1>1. TypeOK
  BY DEF TypeOK, Ops
<1>2. GoneIsEmpty /\ LockDiscipline /\ TargetsExist /\ SessionIsCurrent
  BY DEF GoneIsEmpty, LockDiscipline, TargetsExist, SessionIsCurrent, Loaded
<1>3. DraftIsSound
  BY DEF DraftIsSound, SoundDraft, Loaded
<1>4. ApprovedIsClean /\ ArrivalOrder
  BY DEF ApprovedIsClean, ArrivalOrder
<1> QED BY <1>1, <1>2, <1>3, <1>4 DEF Inductive

\* A worker whose own state and whose table do not change keeps a sound draft.
LEMMA SoundDraftFrame ==
  ASSUME NEW v \in Workers, SoundDraft(v), UNCHANGED <<batch, records>>,
         pc'[v] = pc[v], op'[v] = op[v], targets'[v] = targets[v],
         session'[v] = session[v], draft'[v] = draft[v], base'[v] = base[v]
  PROVE  SoundDraft(v)'
BY DEF SoundDraft, Loaded

\* A route that loads a record keeps the invariant: it takes nothing on trust.
LEMMA OpenRecordInductive ==
  ASSUME Inductive, NEW w \in Workers, OpenRecord(w)
  PROVE  Inductive'
<1> USE WorkerAssumption DEF Inductive
<1>1. TypeOK'
  BY DEF OpenRecord, Open, SingleOps, TypeOK, Ops, UpdateOps, SingleOps
<1>2. GoneIsEmpty'
  BY DEF OpenRecord, Open, SingleOps, GoneIsEmpty
<1>3. LockDiscipline'
  BY DEF OpenRecord, Open, SingleOps, LockDiscipline, TypeOK
<1>4. TargetsExist'
  BY DEF OpenRecord, Open, SingleOps, TargetsExist, Loaded, TypeOK, UpdateOps, SingleOps
<1>5. SessionIsCurrent'
  BY DEF OpenRecord, Open, SingleOps, SessionIsCurrent, Loaded, TypeOK, UpdateOps, SingleOps
<1>6. DraftIsSound'
  BY DEF OpenRecord, Open, SingleOps, DraftIsSound, SoundDraft, Loaded, TypeOK, UpdateOps, SingleOps
<1>7. ApprovedIsClean' /\ ArrivalOrder'
  BY DEF OpenRecord, Open, SingleOps, ApprovedIsClean, ArrivalOrder
<1> QED BY <1>1, <1>2, <1>3, <1>4, <1>5, <1>6, <1>7

\* The bulk route keeps the invariant when it opens.
LEMMA OpenBulkInductive ==
  ASSUME Inductive, NEW w \in Workers, OpenBulk(w)
  PROVE  Inductive'
<1> USE WorkerAssumption DEF Inductive
<1>1. TypeOK'
  BY DEF OpenBulk, Open, TypeOK, Ops, UpdateOps, SingleOps
<1>2. GoneIsEmpty'
  BY DEF OpenBulk, Open, GoneIsEmpty
<1>3. LockDiscipline'
  BY DEF OpenBulk, Open, LockDiscipline, TypeOK
<1>4. TargetsExist'
  BY DEF OpenBulk, Open, TargetsExist, Loaded, TypeOK, UpdateOps, SingleOps
<1>5. SessionIsCurrent'
  BY DEF OpenBulk, Open, SessionIsCurrent, Loaded, TypeOK, UpdateOps, SingleOps
<1>6. DraftIsSound'
  BY DEF OpenBulk, Open, DraftIsSound, SoundDraft, Loaded, TypeOK, UpdateOps, SingleOps
<1>7. ApprovedIsClean' /\ ArrivalOrder'
  BY DEF OpenBulk, Open, ApprovedIsClean, ArrivalOrder
<1> QED BY <1>1, <1>2, <1>3, <1>4, <1>5, <1>6, <1>7

\* An import keeps the invariant when it opens.
LEMMA OpenImportInductive ==
  ASSUME Inductive, NEW w \in Workers, OpenImport(w)
  PROVE  Inductive'
<1> USE WorkerAssumption DEF Inductive
<1>1. TypeOK'
  BY DEF OpenImport, Open, TypeOK, Ops, UpdateOps, SingleOps
<1>2. GoneIsEmpty'
  BY DEF OpenImport, Open, GoneIsEmpty
<1>3. LockDiscipline'
  BY DEF OpenImport, Open, LockDiscipline, TypeOK
<1>4. TargetsExist'
  BY DEF OpenImport, Open, TargetsExist, Loaded, TypeOK, UpdateOps, SingleOps
<1>5. SessionIsCurrent'
  BY DEF OpenImport, Open, SessionIsCurrent, Loaded, TypeOK, UpdateOps, SingleOps
<1>6. DraftIsSound'
  BY DEF OpenImport, Open, DraftIsSound, SoundDraft, Loaded, TypeOK, UpdateOps, SingleOps
<1>7. ApprovedIsClean' /\ ArrivalOrder'
  BY DEF OpenImport, Open, ApprovedIsClean, ArrivalOrder
<1> QED BY <1>1, <1>2, <1>3, <1>4, <1>5, <1>6, <1>7

\* A deletion keeps the invariant when it opens.
LEMMA OpenDeleteInductive ==
  ASSUME Inductive, NEW w \in Workers, OpenDelete(w)
  PROVE  Inductive'
<1> USE WorkerAssumption DEF Inductive
<1>1. TypeOK'
  BY DEF OpenDelete, Open, TypeOK, Ops, UpdateOps, SingleOps
<1>2. GoneIsEmpty'
  BY DEF OpenDelete, Open, GoneIsEmpty
<1>3. LockDiscipline'
  BY DEF OpenDelete, Open, LockDiscipline, TypeOK
<1>4. TargetsExist'
  BY DEF OpenDelete, Open, TargetsExist, Loaded, TypeOK, UpdateOps, SingleOps
<1>5. SessionIsCurrent'
  BY DEF OpenDelete, Open, SessionIsCurrent, Loaded, TypeOK, UpdateOps, SingleOps
<1>6. DraftIsSound'
  BY DEF OpenDelete, Open, DraftIsSound, SoundDraft, Loaded, TypeOK, UpdateOps, SingleOps
<1>7. ApprovedIsClean' /\ ArrivalOrder'
  BY DEF OpenDelete, Open, ApprovedIsClean, ArrivalOrder
<1> QED BY <1>1, <1>2, <1>3, <1>4, <1>5, <1>6, <1>7

\* lock_batch lets one holder in, or nobody when the batch is gone.
LEMMA LockBatchInductive ==
  ASSUME Inductive, NEW w \in Workers, LockBatch(w)
  PROVE  Inductive'
<1> USE WorkerAssumption DEF Inductive
<1>1. TypeOK'
  BY DEF LockBatch, TakesLock, TypeOK, Ops, UpdateOps, SingleOps
<1>2. GoneIsEmpty'
  BY DEF LockBatch, TakesLock, GoneIsEmpty
<1>3. LockDiscipline'
  BY DEF LockBatch, TakesLock, LockDiscipline, TypeOK
<1>4. TargetsExist'
  BY DEF LockBatch, TakesLock, TargetsExist, Loaded, TypeOK, UpdateOps, SingleOps
<1>5. SessionIsCurrent'
  BY DEF LockBatch, TakesLock, SessionIsCurrent, Loaded, TypeOK, UpdateOps, SingleOps
<1>6. DraftIsSound'
  BY DEF LockBatch, TakesLock, DraftIsSound, SoundDraft, Loaded, TypeOK, UpdateOps, SingleOps
<1>7. ApprovedIsClean' /\ ArrivalOrder'
  BY DEF LockBatch, TakesLock, ApprovedIsClean, ArrivalOrder
<1> QED BY <1>1, <1>2, <1>3, <1>4, <1>5, <1>6, <1>7

\* session.refresh under the lock makes the session current.
LEMMA RefreshInductive ==
  ASSUME Inductive, NEW w \in Workers, Refresh(w)
  PROVE  Inductive'
<1> USE WorkerAssumption DEF Inductive
<1>1. TypeOK'
  BY DEF Refresh, TypeOK, Ops, UpdateOps, SingleOps
<1>2. GoneIsEmpty'
  BY DEF Refresh, GoneIsEmpty
<1>3. LockDiscipline'
  BY DEF Refresh, LockDiscipline, TypeOK
<1>4. TargetsExist'
  BY DEF Refresh, TargetsExist, Loaded, TypeOK, UpdateOps, SingleOps
<1>5. SessionIsCurrent'
  <2> SUFFICES ASSUME NEW v \in Workers, (Loaded(v) /\ batch)', NEW i \in targets'[v]
               PROVE  session'[v][i] = records'[i]
    BY DEF SessionIsCurrent
  <2>1. CASE v = w
    BY <2>1 DEF Refresh, Loaded, TypeOK
  <2>2. CASE v # w
    BY <2>2 DEF Refresh, Loaded, TypeOK, SessionIsCurrent
  <2> QED BY <2>1, <2>2
<1>6. DraftIsSound'
  <2> SUFFICES ASSUME NEW v \in Workers PROVE SoundDraft(v)'
    BY DEF DraftIsSound
  <2>1. CASE v # w
    BY <2>1, SoundDraftFrame DEF Refresh, DraftIsSound, TypeOK
  <2>2. CASE v = w
    <3>1. Loaded(w)' => session'[w] = [i \in targets'[w] |-> records[i]] /\ targets'[w] \subseteq DOMAIN records
      BY DEF Refresh, Loaded, TypeOK
    <3>2. Loaded(w)' => session'[w] \in [targets'[w] -> Row]
      BY <3>1 DEF TypeOK
    <3>3. pc'[w] # "ready" /\ op'[w] # "import"
      BY DEF Refresh, TypeOK, UpdateOps, SingleOps
    <3> QED BY <2>2, <3>2, <3>3 DEF SoundDraft
  <2> QED BY <2>1, <2>2
<1>7. ApprovedIsClean' /\ ArrivalOrder'
  BY DEF Refresh, ApprovedIsClean, ArrivalOrder
<1> QED BY <1>1, <1>2, <1>3, <1>4, <1>5, <1>6, <1>7

\* What a correction or a revalidation is about to write is clean.
LEMMA ReworkInductive ==
  ASSUME Inductive, NEW w \in Workers, Rework(w)
  PROVE  Inductive'
<1> USE WorkerAssumption DEF Inductive
<1>1. TypeOK'
  BY DEF Rework, TypeOK, Ops, UpdateOps, SingleOps
<1>2. GoneIsEmpty'
  BY DEF Rework, GoneIsEmpty
<1>3. LockDiscipline'
  BY DEF Rework, LockDiscipline, TypeOK
<1>4. TargetsExist'
  BY DEF Rework, TargetsExist, Loaded, TypeOK, UpdateOps, SingleOps
<1>5. SessionIsCurrent'
  BY DEF Rework, SessionIsCurrent, Loaded, TypeOK, UpdateOps, SingleOps
<1>6. DraftIsSound'
  <2> SUFFICES ASSUME NEW v \in Workers PROVE SoundDraft(v)'
    BY DEF DraftIsSound
  <2>1. CASE v # w
    BY <2>1, SoundDraftFrame DEF Rework, DraftIsSound, TypeOK
  <2>2. CASE v = w
    <3>1. PICK change \in Change :
            draft'[w] = [i \in targets[w] |->
                           Correct(session[w][i], change, ReferencesBefore(records, session[w][i].sequence))]
      <4>1. ChangesOf(op[w]) \subseteq Change
        BY EditAssumption DEF ChangesOf, NoChange, Change
      <4> QED BY <4>1 DEF Rework, TypeOK
    <3>2. session[w] \in [targets[w] -> Row]
      BY DEF Rework, DraftIsSound, SoundDraft, Loaded, UpdateOps
    <3>3. ASSUME NEW i \in targets[w]
          PROVE  /\ draft'[w][i] \in Row
                 /\ draft'[w][i].sequence = session[w][i].sequence
                 /\ Clean(draft'[w][i])
      <4>1. session[w][i] \in Row
        BY <3>2
      <4>2. draft'[w][i] = Correct(session[w][i], change, ReferencesBefore(records, session[w][i].sequence))
        BY <3>1
      <4> QED BY <4>1, <4>2, CorrectType
    <3>4. draft'[w] \in [targets[w] -> Row]
      BY <3>1, <3>3
    <3>5. op'[w] \in UpdateOps /\ targets'[w] = targets[w] /\ session'[w] = session[w]
      BY DEF Rework
    <3> QED BY <2>2, <3>2, <3>3, <3>4, <3>5 DEF SoundDraft, UpdateOps, SingleOps
  <2> QED BY <2>1, <2>2
<1>7. ApprovedIsClean' /\ ArrivalOrder'
  BY DEF Rework, ApprovedIsClean, ArrivalOrder
<1> QED BY <1>1, <1>2, <1>3, <1>4, <1>5, <1>6, <1>7

\* What an approval is about to write is clean: only VALID rows are approved.
LEMMA ApproveInductive ==
  ASSUME Inductive, NEW w \in Workers, Approve(w)
  PROVE  Inductive'
<1> USE WorkerAssumption DEF Inductive
<1>1. TypeOK'
  BY DEF Approve, TypeOK, Ops, UpdateOps, SingleOps
<1>2. GoneIsEmpty'
  BY DEF Approve, GoneIsEmpty
<1>3. LockDiscipline'
  BY DEF Approve, LockDiscipline, TypeOK
<1>4. TargetsExist'
  BY DEF Approve, TargetsExist, Loaded, TypeOK, UpdateOps, SingleOps
<1>5. SessionIsCurrent'
  <2> SUFFICES ASSUME NEW v \in Workers, Loaded(v)', batch' PROVE \A i \in targets'[v] : session'[v][i] = records'[i]
    BY DEF SessionIsCurrent
  <2>1. Loaded(v)
    <3>1. CASE v = w
      BY <3>1 DEF Approve, Loaded, UpdateOps, SingleOps
    <3>2. CASE v # w
      BY <3>2 DEF Approve, Loaded, TypeOK
    <3> QED BY <3>1, <3>2
  <2>2. UNCHANGED <<batch, records, targets, session>>
    BY DEF Approve
  <2> QED BY <2>1, <2>2 DEF SessionIsCurrent
<1>6. DraftIsSound'
  <2> SUFFICES ASSUME NEW v \in Workers PROVE SoundDraft(v)'
    BY DEF DraftIsSound
  <2>1. CASE v # w
    BY <2>1, SoundDraftFrame DEF Approve, DraftIsSound, TypeOK
  <2>2. CASE v = w
    <3>1. op'[w] \in UpdateOps /\ targets'[w] = targets[w] /\ session'[w] = session[w] /\ batch' = batch
      BY DEF Approve, UpdateOps, SingleOps
    <3>2. session[w] \in [targets[w] -> Row]
      BY DEF Approve, DraftIsSound, SoundDraft, Loaded, UpdateOps, SingleOps
    <3>3. ASSUME pc'[w] = "ready"
          PROVE  /\ \A i \in targets[w] : session[w][i].status = "VALID"
                 /\ draft'[w] = [i \in targets[w] |-> [session[w][i] EXCEPT !.status = "VALIDATED"]]
      BY <3>3 DEF Approve, TypeOK
    <3>4. ASSUME pc'[w] = "ready" PROVE draft'[w] \in [targets[w] -> Row]
      <4>1. ASSUME NEW i \in targets[w] PROVE [session[w][i] EXCEPT !.status = "VALIDATED"] \in Row
        BY <3>2 DEF Row, Statuses
      <4> QED BY <3>3, <3>4, <4>1
    <3>5. ASSUME pc'[w] = "ready", batch, NEW i \in targets[w]
          PROVE  /\ draft'[w][i].sequence = session[w][i].sequence
                 /\ Clean(draft'[w][i])
      <4>1. i \in DOMAIN records /\ session[w][i] = records[i] /\ session[w][i] \in Row
        BY <3>2, <3>5 DEF Approve, TargetsExist, SessionIsCurrent, Loaded, UpdateOps, SingleOps
      <4>2. session[w][i].errors = {}
        BY <3>3, <3>5, <4>1 DEF ApprovedIsClean, Clean
      <4> QED BY <3>3, <3>5, <4>1, <4>2 DEF Row, Clean
    <3> QED BY <2>2, <3>1, <3>2, <3>4, <3>5 DEF SoundDraft, UpdateOps, SingleOps
  <2> QED BY <2>1, <2>2
<1>7. ApprovedIsClean' /\ ArrivalOrder'
  BY DEF Approve, ApprovedIsClean, ArrivalOrder
<1> QED BY <1>1, <1>2, <1>3, <1>4, <1>5, <1>6, <1>7

\* The position an import reads under the lock is the length of the table.
LEMMA ReadSequenceInductive ==
  ASSUME Inductive, NEW w \in Workers, ReadSequence(w)
  PROVE  Inductive'
<1> USE WorkerAssumption DEF Inductive
<1>0. NextSequence(records) = Len(records) /\ Len(records) \in Nat
  BY NextSequenceIsLength DEF TypeOK, ArrivalOrder
<1>1. TypeOK'
  BY <1>0 DEF ReadSequence, TypeOK, Ops, UpdateOps, SingleOps
<1>2. GoneIsEmpty'
  BY DEF ReadSequence, GoneIsEmpty
<1>3. LockDiscipline'
  BY DEF ReadSequence, LockDiscipline, TypeOK
<1>4. TargetsExist'
  BY DEF ReadSequence, TargetsExist, Loaded, TypeOK, UpdateOps, SingleOps
<1>5. SessionIsCurrent'
  BY DEF ReadSequence, SessionIsCurrent, Loaded, TypeOK, UpdateOps, SingleOps
<1>6. DraftIsSound'
  <2> SUFFICES ASSUME NEW v \in Workers PROVE SoundDraft(v)'
    BY DEF DraftIsSound
  <2>1. CASE v # w
    BY <2>1 DEF ReadSequence, DraftIsSound, SoundDraft, Loaded, TypeOK
  <2>2. CASE v = w
    <3>1. op'[w] = "import" /\ pc'[w] = "fresh" /\ base'[w] = Len(records) /\ records' = records
      BY <1>0 DEF ReadSequence, TypeOK
    <3> QED BY <2>2, <3>1 DEF SoundDraft, Loaded, UpdateOps, SingleOps
  <2> QED BY <2>1, <2>2
<1>7. ApprovedIsClean' /\ ArrivalOrder'
  BY DEF ReadSequence, ApprovedIsClean, ArrivalOrder
<1> QED BY <1>1, <1>2, <1>3, <1>4, <1>5, <1>6, <1>7

\* The rows an import builds continue the table and are clean.
LEMMA BuildRowsInductive ==
  ASSUME Inductive, NEW w \in Workers, BuildRows(w)
  PROVE  Inductive'
<1> USE WorkerAssumption DEF Inductive
<1>1. TypeOK'
  BY DEF BuildRows, TypeOK, Ops, UpdateOps, SingleOps
<1>2. GoneIsEmpty'
  BY DEF BuildRows, GoneIsEmpty
<1>3. LockDiscipline'
  BY DEF BuildRows, LockDiscipline, TypeOK
<1>4. TargetsExist'
  BY DEF BuildRows, TargetsExist, Loaded, TypeOK, UpdateOps, SingleOps
<1>5. SessionIsCurrent'
  BY DEF BuildRows, SessionIsCurrent, Loaded, TypeOK, UpdateOps, SingleOps
<1>6. DraftIsSound'
  <2> SUFFICES ASSUME NEW v \in Workers PROVE SoundDraft(v)'
    BY DEF DraftIsSound
  <2>1. CASE v # w
    BY <2>1, SoundDraftFrame DEF BuildRows, DraftIsSound, TypeOK
  <2>2. CASE v = w
    <3>1. PICK lines \in Seq(Line) :
            draft'[w] = NewRows(lines, base[w], ReferencesBefore(records, base[w]))
      BY UploadAssumption DEF BuildRows, TypeOK
    <3>2. base[w] \in Nat /\ base'[w] = base[w]
      BY DEF BuildRows, TypeOK
    <3>3. /\ draft'[w] \in Seq(Row)
          /\ \A i \in 1..Len(draft'[w]) : /\ draft'[w][i].sequence = base'[w] + i - 1
                                         /\ Clean(draft'[w][i])
      BY <3>1, <3>2, NewRowsType
    <3>4. op'[w] = "import" /\ UNCHANGED <<batch, records>>
      BY DEF BuildRows
    <3>5. batch => base[w] = Len(records)
      BY DEF BuildRows, DraftIsSound, SoundDraft
    <3> QED BY <2>2, <3>2, <3>3, <3>4, <3>5 DEF SoundDraft, Loaded, UpdateOps, SingleOps
  <2> QED BY <2>1, <2>2
<1>7. ApprovedIsClean' /\ ArrivalOrder'
  BY DEF BuildRows, ApprovedIsClean, ArrivalOrder
<1> QED BY <1>1, <1>2, <1>3, <1>4, <1>5, <1>6, <1>7

\* The commit of an update keeps the table clean and numbered, and the sessions
\* of the other requests current: none of them is past the lock.
LEMMA CommitUpdateInductive ==
  ASSUME Inductive, NEW w \in Workers, CommitUpdate(w)
  PROVE  Inductive'
<1> USE WorkerAssumption DEF Inductive
<1>0. /\ DOMAIN records' = DOMAIN records
      /\ \A i \in DOMAIN records : records'[i] = IF i \in Dirty(w) THEN draft[w][i] ELSE records[i]
      /\ \A i \in Dirty(w) : /\ i \in targets[w] /\ batch /\ i \in DOMAIN records
                            /\ session[w][i] = records[i] /\ draft[w][i] \in Row
  <2>1. ASSUME NEW i \in Dirty(w)
        PROVE  /\ i \in targets[w] /\ batch /\ i \in DOMAIN records
               /\ session[w][i] = records[i] /\ draft[w][i] \in Row /\ records[i] \in Row
    <3>1. i \in targets[w] /\ i \in DOMAIN records
      BY DEF CommitUpdate, Dirty
    <3>2. batch
      BY <3>1 DEF GoneIsEmpty
    <3>3. Loaded(w) /\ draft[w] \in [targets[w] -> Row]
      BY DEF CommitUpdate, Loaded, DraftIsSound, SoundDraft
    <3>4. session[w][i] = records[i]
      BY <3>1, <3>2, <3>3 DEF SessionIsCurrent
    <3>5. records[i] \in Row
      BY <3>1 DEF TypeOK
    <3> QED BY <3>1, <3>2, <3>3, <3>4, <3>5
  <2>2. \A i \in Dirty(w) : WriteDirty(records[i], session[w][i], draft[w][i]) = draft[w][i]
    BY <2>1, WriteDirtyCurrent
  <2> QED BY <2>1, <2>2 DEF CommitUpdate
<1>01. records' \in Seq(Row) /\ Len(records') = Len(records)
  <2>1. records' = [i \in 1..Len(records) |-> records'[i]]
    BY DEF CommitUpdate, TypeOK
  <2>2. \A i \in 1..Len(records) : records'[i] \in Row
    BY <1>0 DEF TypeOK
  <2>3. Len(records) \in Nat
    BY DEF TypeOK
  <2> QED BY <2>1, <2>2, <2>3
<1>1. TypeOK'
  BY <1>01 DEF CommitUpdate, Finish, TypeOK
<1>2. GoneIsEmpty'
  BY DEF CommitUpdate, Finish, GoneIsEmpty
<1>3. LockDiscipline'
  BY DEF CommitUpdate, Finish, LockDiscipline, TypeOK
<1>4. TargetsExist'
  BY DEF CommitUpdate, Finish, TargetsExist, Loaded, TypeOK, UpdateOps, SingleOps
<1>5. SessionIsCurrent'
  <2> SUFFICES ASSUME NEW v \in Workers, (Loaded(v) /\ batch)', NEW i \in targets'[v]
               PROVE  session'[v][i] = records'[i]
    BY DEF SessionIsCurrent
  <2>1. v # w /\ batch /\ Loaded(v) /\ i \in targets[v] /\ session'[v] = session[v]
    BY DEF CommitUpdate, Finish, Loaded, TypeOK
  <2>2. holder = w /\ holder = v
    BY <2>1 DEF LockDiscipline, Loaded, CommitUpdate, UpdateOps, SingleOps
  <2> QED BY <2>1, <2>2
<1>6. DraftIsSound'
  BY DEF CommitUpdate, Finish, DraftIsSound, SoundDraft, Loaded, TypeOK, UpdateOps, SingleOps
<1>7. ApprovedIsClean' /\ ArrivalOrder'
  <2>1. ASSUME NEW i \in Dirty(w)
        PROVE  /\ draft[w][i].sequence = i - 1
               /\ Clean(draft[w][i])
    <3>1. SoundDraft(w) /\ op[w] \in UpdateOps /\ pc[w] = "ready"
      BY DEF CommitUpdate, DraftIsSound
    <3>2. i \in targets[w] /\ batch /\ i \in DOMAIN records /\ session[w][i] = records[i]
      BY <1>0
    <3>3. /\ draft[w][i].sequence = session[w][i].sequence
          /\ Clean(draft[w][i])
      BY <3>1, <3>2 DEF SoundDraft
    <3> QED BY <3>2, <3>3 DEF ArrivalOrder
  <2> QED BY <1>0, <2>1 DEF ApprovedIsClean, ArrivalOrder
<1> QED BY <1>1, <1>2, <1>3, <1>4, <1>5, <1>6, <1>7

\* The commit of an import extends the table without a gap.
LEMMA CommitImportInductive ==
  ASSUME Inductive, NEW w \in Workers, CommitImport(w)
  PROVE  Inductive'
<1> USE WorkerAssumption DEF Inductive
<1>0. /\ draft[w] \in Seq(Row) /\ batch /\ base[w] = Len(records)
      /\ \A i \in 1..Len(draft[w]) : /\ draft[w][i].sequence = base[w] + i - 1
                                    /\ Clean(draft[w][i])
  BY DEF CommitImport, DraftIsSound, SoundDraft
<1>01. /\ records \in Seq(Row) /\ records' \in Seq(Row)
       /\ Len(records') = Len(records) + Len(draft[w])
       /\ \A i \in 1..Len(records') :
            records'[i] = IF i <= Len(records) THEN records[i] ELSE draft[w][i - Len(records)]
  BY <1>0 DEF CommitImport, TypeOK
<1>1. TypeOK'
  BY <1>01 DEF CommitImport, Finish, TypeOK
<1>2. GoneIsEmpty'
  BY DEF CommitImport, Finish, GoneIsEmpty
<1>3. LockDiscipline'
  BY DEF CommitImport, Finish, LockDiscipline, TypeOK
<1>4. TargetsExist'
  BY DEF CommitImport, Finish, TargetsExist, Loaded, TypeOK, UpdateOps, SingleOps
<1>5. SessionIsCurrent'
  <2> SUFFICES ASSUME NEW v \in Workers, (Loaded(v) /\ batch)', NEW i \in targets'[v]
               PROVE  session'[v][i] = records'[i]
    BY DEF SessionIsCurrent
  <2>1. v # w /\ batch /\ Loaded(v) /\ i \in targets[v] /\ session'[v] = session[v]
    BY DEF CommitImport, Finish, Loaded, TypeOK
  <2>2. holder = w /\ holder = v
    BY <2>1 DEF LockDiscipline, Loaded, CommitImport, UpdateOps, SingleOps
  <2> QED BY <2>1, <2>2
<1>6. DraftIsSound'
  <2> SUFFICES ASSUME NEW v \in Workers PROVE SoundDraft(v)'
    BY DEF DraftIsSound
  <2>1. CASE v # w
    <3>1. ~(op[v] = "import" /\ pc[v] \in {"fresh", "ready"})
      BY <1>0, <2>1 DEF CommitImport, LockDiscipline
    <3> QED BY <2>1, <3>1 DEF CommitImport, Finish, DraftIsSound, SoundDraft, Loaded, TypeOK
  <2>2. CASE v = w
    <3>1. pc'[w] = "idle"
      BY DEF CommitImport, Finish, TypeOK
    <3> QED BY <2>2, <3>1 DEF SoundDraft, Loaded
  <2> QED BY <2>1, <2>2
<1>7. ApprovedIsClean' /\ ArrivalOrder'
  <2> SUFFICES ASSUME NEW i \in DOMAIN records'
               PROVE  /\ records'[i].sequence = i - 1
                      /\ Clean(records'[i])
    BY DEF ApprovedIsClean, ArrivalOrder
  <2>1. i \in 1..Len(records')
    BY <1>01
  <2>2. CASE i <= Len(records)
    <3>1. records'[i] = records[i] /\ i \in DOMAIN records
      BY <1>01, <2>1, <2>2
    <3> QED BY <3>1 DEF ApprovedIsClean, ArrivalOrder
  <2>3. CASE ~(i <= Len(records))
    <3>1. i - Len(records) \in 1..Len(draft[w]) /\ records'[i] = draft[w][i - Len(records)]
      BY <1>0, <1>01, <2>1, <2>3
    <3> DEFINE k == i - Len(records)
    <3>2. base[w] + k - 1 = i - 1
      BY <1>0, <1>01, <2>1
    <3>3. draft[w][k].sequence = base[w] + k - 1 /\ Clean(draft[w][k])
      BY <1>0, <3>1
    <3> QED BY <3>1, <3>2, <3>3
  <2> QED BY <2>2, <2>3
<1> QED BY <1>1, <1>2, <1>3, <1>4, <1>5, <1>6, <1>7

\* Closing a session gives up the lock and writes nothing.
LEMMA CloseInductive ==
  ASSUME Inductive, NEW w \in Workers, Close(w)
  PROVE  Inductive'
<1> USE WorkerAssumption DEF Inductive
<1>1. TypeOK'
  BY DEF Close, Finish, TypeOK, Ops, UpdateOps, SingleOps
<1>2. GoneIsEmpty'
  BY DEF Close, Finish, GoneIsEmpty
<1>3. LockDiscipline'
  BY DEF Close, Finish, LockDiscipline, TypeOK
<1>4. TargetsExist'
  BY DEF Close, Finish, TargetsExist, Loaded, TypeOK, UpdateOps, SingleOps
<1>5. SessionIsCurrent'
  BY DEF Close, Finish, SessionIsCurrent, Loaded, TypeOK, UpdateOps, SingleOps
<1>6. DraftIsSound'
  BY DEF Close, Finish, DraftIsSound, SoundDraft, Loaded, TypeOK, UpdateOps, SingleOps
<1>7. ApprovedIsClean' /\ ArrivalOrder'
  BY DEF Close, Finish, ApprovedIsClean, ArrivalOrder
<1> QED BY <1>1, <1>2, <1>3, <1>4, <1>5, <1>6, <1>7

\* A deletion that has locked its rows has changed nothing yet.
LEMMA DeleteRecordsInductive ==
  ASSUME Inductive, NEW w \in Workers, DeleteRecords(w)
  PROVE  Inductive'
<1> USE WorkerAssumption DEF Inductive
<1>1. TypeOK'
  BY DEF DeleteRecords, TypeOK, Ops, UpdateOps, SingleOps
<1>2. GoneIsEmpty'
  BY DEF DeleteRecords, GoneIsEmpty
<1>3. LockDiscipline'
  BY DEF DeleteRecords, LockDiscipline, TypeOK
<1>4. TargetsExist'
  BY DEF DeleteRecords, TargetsExist, Loaded, TypeOK, UpdateOps, SingleOps
<1>5. SessionIsCurrent'
  BY DEF DeleteRecords, SessionIsCurrent, Loaded, TypeOK, UpdateOps, SingleOps
<1>6. DraftIsSound'
  <2> SUFFICES ASSUME NEW v \in Workers PROVE SoundDraft(v)'
    BY DEF DraftIsSound
  <2>1. CASE v # w
    BY <2>1 DEF DeleteRecords, DraftIsSound, SoundDraft, Loaded, TypeOK
  <2>2. CASE v = w
    <3>1. op'[w] = "delete"
      BY DEF DeleteRecords
    <3> QED BY <2>2, <3>1 DEF SoundDraft, Loaded, UpdateOps, SingleOps
  <2> QED BY <2>1, <2>2
<1>7. ApprovedIsClean' /\ ArrivalOrder'
  BY DEF DeleteRecords, ApprovedIsClean, ArrivalOrder
<1> QED BY <1>1, <1>2, <1>3, <1>4, <1>5, <1>6, <1>7

\* A deletion empties the table, whoever still works on it.
LEMMA DeleteBatchInductive ==
  ASSUME Inductive, NEW w \in Workers, DeleteBatch(w)
  PROVE  Inductive'
<1> USE WorkerAssumption DEF Inductive
<1>0. records' \in Seq(Row)
  BY DEF DeleteBatch
<1>1. TypeOK'
  BY <1>0 DEF DeleteBatch, Finish, TypeOK
<1>2. GoneIsEmpty'
  BY DEF DeleteBatch, Finish, GoneIsEmpty
<1>3. LockDiscipline'
  BY DEF DeleteBatch, Finish, LockDiscipline, TypeOK
<1>4. TargetsExist'
  BY DEF DeleteBatch, Finish, TargetsExist, Loaded, TypeOK, UpdateOps, SingleOps
<1>5. SessionIsCurrent'
  BY DEF DeleteBatch, Finish, SessionIsCurrent, Loaded, TypeOK, UpdateOps, SingleOps
<1>6. DraftIsSound'
  BY DEF DeleteBatch, Finish, DraftIsSound, SoundDraft, Loaded, TypeOK, UpdateOps, SingleOps
<1>7. ApprovedIsClean' /\ ArrivalOrder'
  BY DEF DeleteBatch, Finish, ApprovedIsClean, ArrivalOrder
<1> QED BY <1>1, <1>2, <1>3, <1>4, <1>5, <1>6, <1>7

\* Every step preserves the invariant, one action at a time.
LEMMA NextInductive == Inductive /\ [Next]_vars => Inductive'
<1> SUFFICES ASSUME Inductive, [Next]_vars PROVE Inductive'
  OBVIOUS
<1>0. CASE UNCHANGED vars
  BY <1>0 DEF vars, Inductive, TypeOK, GoneIsEmpty, LockDiscipline, TargetsExist, SessionIsCurrent, Loaded,
              DraftIsSound, SoundDraft, ApprovedIsClean, ArrivalOrder
<1>1. ASSUME NEW w \in Workers,
             \/ OpenRecord(w) \/ OpenBulk(w) \/ OpenImport(w) \/ OpenDelete(w)
             \/ LockBatch(w) \/ Refresh(w) \/ Rework(w) \/ Approve(w)
             \/ ReadSequence(w) \/ BuildRows(w)
             \/ CommitUpdate(w) \/ CommitImport(w) \/ Close(w)
             \/ DeleteRecords(w) \/ DeleteBatch(w)
      PROVE  Inductive'
  <2>1. CASE OpenRecord(w)
    BY <2>1, OpenRecordInductive
  <2>2. CASE OpenBulk(w)
    BY <2>2, OpenBulkInductive
  <2>3. CASE OpenImport(w)
    BY <2>3, OpenImportInductive
  <2>4. CASE OpenDelete(w)
    BY <2>4, OpenDeleteInductive
  <2>5. CASE LockBatch(w)
    BY <2>5, LockBatchInductive
  <2>6. CASE Refresh(w)
    BY <2>6, RefreshInductive
  <2>7. CASE Rework(w)
    BY <2>7, ReworkInductive
  <2>8. CASE Approve(w)
    BY <2>8, ApproveInductive
  <2>9. CASE ReadSequence(w)
    BY <2>9, ReadSequenceInductive
  <2>10. CASE BuildRows(w)
    BY <2>10, BuildRowsInductive
  <2>11. CASE CommitUpdate(w)
    BY <2>11, CommitUpdateInductive
  <2>12. CASE CommitImport(w)
    BY <2>12, CommitImportInductive
  <2>13. CASE Close(w)
    BY <2>13, CloseInductive
  <2>14. CASE DeleteRecords(w)
    BY <2>14, DeleteRecordsInductive
  <2>15. CASE DeleteBatch(w)
    BY <2>15, DeleteBatchInductive
  <2> QED BY <1>1, <2>1, <2>2, <2>3, <2>4, <2>5, <2>6, <2>7, <2>8, <2>9, <2>10, <2>11, <2>12, <2>13, <2>14, <2>15
<1> QED BY <1>0, <1>1 DEF Next

\* What every step preserves, for any number of threads, references, uploads and
\* corrections: the discipline of the batch lock and what it buys.
THEOREM AlwaysInductive == Spec => []Inductive
<1>1. Init => Inductive
  BY InitInductive
<1>2. Inductive /\ [Next]_vars => Inductive'
  BY NextInductive
<1> QED BY <1>1, <1>2, PTL DEF Spec

\* The variables keep their types: every stored row is a well-formed record.
THEOREM TypeCorrect == Spec => []TypeOK
<1>1. Inductive => TypeOK
  BY DEF Inductive
<1> QED BY <1>1, AlwaysInductive, PTL

\* No approval, however it races with corrections, leaves a VALIDATED record
\* carrying errors (approve_record).
THEOREM ApprovedRecordsAreClean == Spec => []ApprovedIsClean
<1>1. Inductive => ApprovedIsClean
  BY DEF Inductive
<1> QED BY <1>1, AlwaysInductive, PTL

\* Overlapping imports number their rows without a gap or a collision
\* (next_import_sequence under lock_batch).
THEOREM ArrivalPositionsAreExact == Spec => []ArrivalOrder
<1>1. Inductive => ArrivalOrder
  BY DEF Inductive
<1> QED BY <1>1, AlwaysInductive, PTL

\* Between its refresh and its commit no request works on a stale row.
THEOREM SessionsAreCurrent == Spec => []SessionIsCurrent
<1>1. Inductive => SessionIsCurrent
  BY DEF Inductive
<1> QED BY <1>1, AlwaysInductive, PTL
=============================================================================
