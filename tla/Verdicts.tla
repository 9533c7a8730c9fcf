------------------------------ MODULE Verdicts ------------------------------
(***************************************************************************)
(* How one line of an uploaded file becomes a stored record, and how its   *)
(* verdict (validation errors and status) is computed again after a        *)
(* correction.  Pure definitions: no state.                                *)
(*                                                                         *)
(* The fifteen business fields are abstracted to two:                      *)
(*   reference  the only field whose verdict depends on other records;     *)
(*   detail     any other required field, "sound" when every rule accepts  *)
(*              what it holds and "flawed" when one of them does not.      *)
(* A certainty, of a field or of a record, is abstracted to what its two   *)
(* roundings to hundredths make of it: "high" when both reach the          *)
(* threshold, "low" when neither does, "tie" when only the first does, as  *)
(* 0.695 before a threshold of 0.70.  A CSV line usually has none          *)
(* ("absent").                                                             *)
(***************************************************************************)
EXTENDS Integers, Sequences, FiniteSets

CONSTANT References      \* the values the reference field may hold

ASSUME ReferenceAssumption == {"none", "unset"} \cap References = {}

NoReference == "none"    \* the cell is empty: normalize_text turns it into None
Unset == "unset"         \* the field is not part of the correction

Fields == {"reference", "detail"}
Statuses == {"NEEDS_REVIEW", "VALID", "VALIDATED"}
Sources == {"CSV", "PDF"}
ErrorCodes == {"REQUIRED_FIELD_MISSING", "DUPLICATE_REFERENCE", "FLAWED_DETAIL", "LOW_CONFIDENCE"}

(***************************************************************************)
(* raw_payload: what was typed or extracted, the source every verdict is   *)
(* replayed from.  field_confidence: one score per field, none for a CSV.  *)
(***************************************************************************)
Certainties == {"low", "tie", "high"}

Payload ==
  [reference: References \cup {NoReference}, detail: {"sound", "flawed"}, confidence: Certainties \cup {"absent"}]

NoScores == <<>>
Scores == [Fields -> Certainties] \cup {NoScores}

\* One row of financial_record: payload is its JSON, reference the normalized column.
Row ==
  [sequence: Nat, source: Sources, payload: Payload, scores: Scores,
   reference: References \cup {NoReference}, errors: SUBSET ErrorCodes, status: Statuses]

\* One line handed to persist_records: a CSV row, or a record a provider extracted.
Line == [source: Sources, payload: Payload, scores: Scores]

\* A correction: the fields the client sent, the others "unset".
Change ==
  [reference: References \cup {NoReference, Unset}, detail: {"sound", "flawed", Unset}]

Touched(change) == {f \in Fields : change[f] # Unset}

(***************************************************************************)
(* The verdict.                                                            *)
(***************************************************************************)

\* record_confidence: a record is as certain as its least certain required field.
RecordConfidence(scores) ==
  LET found == {scores[f] : f \in DOMAIN scores}
  IN  IF "low" \in found THEN "low" ELSE IF "tie" \in found THEN "tie" ELSE "high"

\* normalize_confidence: the decimal is rounded half up.
Quantized(certainty) == IF certainty = "tie" THEN "high" ELSE certainty

\* "%.2f": the binary number lies below the decimal it stands for, and is rounded down.
Formatted(certainty) == IF certainty = "tie" THEN "low" ELSE certainty

\* validate_record: every rule is applied, none hides another.
Validate(source, payload, existing) ==
  {code \in ErrorCodes :
     \/ code = "REQUIRED_FIELD_MISSING" /\ payload.reference = NoReference
     \/ code = "DUPLICATE_REFERENCE" /\ payload.reference \in existing
     \/ code = "FLAWED_DETAIL" /\ payload.detail = "flawed"
     \/ code = "LOW_CONFIDENCE" /\ source = "PDF" /\ Quantized(payload.confidence) = "low"}

\* derive_status: VALIDATED is never the outcome of a computation.
DeriveStatus(errors) == IF errors = {} THEN "VALID" ELSE "NEEDS_REVIEW"

(***************************************************************************)
(* What a table of records says.  A table is the sequence of its rows in   *)
(* the order their inserts were committed.                                 *)
(***************************************************************************)

\* Mutant of ReferencesBefore: a record is compared with every sibling.
ReferencesOfSiblings(table, sequence) ==
  {table[i].reference : i \in {j \in DOMAIN table : table[j].sequence # sequence}} \ {NoReference}

\* references_before: by arrival position, never by identity or commit order.
ReferencesBefore(table, sequence) ==
  {table[i].reference : i \in {j \in DOMAIN table : table[j].sequence < sequence}} \ {NoReference}

\* Mutant of NextSequence: the increment is forgotten.
NextSequenceNotIncremented(table) ==
  CHOOSE n \in {-1} \cup {table[i].sequence : i \in DOMAIN table} : \A i \in DOMAIN table : table[i].sequence <= n

\* next_import_sequence: one more than the highest position in use.
NextSequence(table) ==
  LET positions == {table[i].sequence : i \in DOMAIN table}
  IN  IF positions = {} THEN 0 ELSE 1 + CHOOSE n \in positions : \A m \in positions : m <= n

(***************************************************************************)
(* Import: the i-th line gets the i-th position after base, and sees the   *)
(* references of the lines before it as already taken.  The certainty of   *)
(* an extraction is written into raw_payload with all its digits.          *)
(***************************************************************************)
ImportedPayload(line) ==
  IF line.source = "PDF" THEN [line.payload EXCEPT !.confidence = RecordConfidence(line.scores)] ELSE line.payload

NewRow(line, position, seen) ==
  LET payload == ImportedPayload(line)
      errors  == Validate(line.source, payload, seen)
  IN  [sequence |-> position, source |-> line.source, payload |-> payload, scores |-> line.scores,
       reference |-> payload.reference, errors |-> errors, status |-> DeriveStatus(errors)]

\* Mutant of NewRows: the references seen start from nothing, not from the batch.
NewRowsUnseeded(lines, base, existing) ==
  [i \in DOMAIN lines |->
     NewRow(lines[i], base + i - 1, {lines[j].payload.reference : j \in {k \in DOMAIN lines : k < i}} \ {NoReference})]

NewRows(lines, base, existing) ==
  [i \in DOMAIN lines |->
     NewRow(lines[i], base + i - 1,
            existing \cup ({lines[j].payload.reference : j \in {k \in DOMAIN lines : k < i}} \ {NoReference}))]

(***************************************************************************)
(* Correction: the change is merged into raw_payload, a corrected field    *)
(* becomes certain, and the whole verdict is replayed.  The certainty of   *)
(* the record is written back with two decimals.                           *)
(***************************************************************************)
Merge(payload, change) ==
  [payload EXCEPT !.reference = IF change.reference = Unset THEN @ ELSE change.reference,
                  !.detail = IF change.detail = Unset THEN @ ELSE change.detail]

\* Mutant of AccountForHumanReview: the scores are corrected, raw_payload is not.
ReviewScoresOnly(row, change) ==
  IF row.source # "PDF" \/ row.scores = NoScores THEN row
  ELSE [row EXCEPT !.scores = [f \in DOMAIN @ |-> IF f \in Touched(change) THEN "high" ELSE @[f]]]

\* _account_for_human_review, with its three early returns: not a PDF, no change, no scores.
AccountForHumanReview(row, change) ==
  IF row.source # "PDF" \/ Touched(change) = {} \/ row.scores = NoScores
  THEN row
  ELSE LET scores == [f \in DOMAIN row.scores |-> IF f \in Touched(change) THEN "high" ELSE row.scores[f]]
       IN  [row EXCEPT !.scores = scores, !.payload.confidence = Formatted(RecordConfidence(scores))]

Revalidate(row, existing) ==
  LET errors == Validate(row.source, row.payload, existing)
  IN  [row EXCEPT !.reference = row.payload.reference, !.errors = errors, !.status = DeriveStatus(errors)]

Correct(row, change, existing) ==
  Revalidate(AccountForHumanReview([row EXCEPT !.payload = Merge(@, change)], change), existing)
=============================================================================
