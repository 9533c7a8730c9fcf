------------------------------- MODULE Intake -------------------------------
(***************************************************************************)
(* One record from the file it came in to the verdict a reviewer works on: *)
(* a CSV row is normalized and validated at once, a PDF record when the    *)
(* provider chain has answered, and either is replayed at every            *)
(* correction.  Records studies how requests on such records interleave;   *)
(* here there is one record, and every field of it.                        *)
(***************************************************************************)
EXTENDS Rules, Providers

CONSTANTS
  CsvRows,         \* [raw, confidence, meant]: rows a file may hold
  PdfRows,         \* [raw, scores]: records a provider may answer with
  SoundCells,      \* a cell for each field that together make a valid record
  Changes,         \* corrections a reviewer may send: for some fields, a cell
  Threshold,       \* hundredths below which a confidence is low
  MaxCorrections   \* bound: corrections made to the record

Existing == {"taken"}
NoCells == <<>>
NoScores == <<>>

\* Cells are what Rules says a record holds.  A file's own confidence may be unreadable;
\* the gross amount, where what its author meant is known, is a writing of that amount.
\* A provider's scores are whole numbers; the sound cells make a record without an error.
ASSUME IntakeAssumption ==
  /\ MaxCorrections \in Nat /\ Threshold \in 0..100
  /\ \A row \in CsvRows : IsRow(row.raw) /\ row.confidence.problem \in {"none", "NOT_NUMERIC", "AMOUNT_OUT_OF_RANGE"}
  /\ \A row \in CsvRows : row.meant = {} \/ \E cents \in row.meant :
                              row.meant = {cents} /\ Writes(row.raw["gross_amount"], cents)
  /\ \A row \in PdfRows : IsRow(row.raw) /\ row.scores \in [BusinessFields -> Int]
  /\ IsRow(SoundCells) /\ ValidateRecord("CSV", SoundCells, Reading("none", {}), Existing, Threshold) = {}
  /\ \A change \in Changes :
       /\ DOMAIN change # {} /\ DOMAIN change \subseteq BusinessFields
       /\ \A f \in DOMAIN change : IsRow([SoundCells EXCEPT ![f] = change[f]])

VARIABLES
  source,        \* where the record came from
  raw,           \* raw_payload, NoCells until there is a record
  scores,        \* field_confidence, in thousandths
  confidence,    \* extraction_confidence as normalization reads it from raw_payload
  errors,        \* validation_errors, pairs of a field and a code
  corrections,   \* how many corrections were made
  meant          \* history: the gross amount the author of the row wrote, if it is known

\* A provider's score, three digits after the point.
Thousandths == 0..1000

recordVars == <<source, raw, scores, confidence, errors, corrections, meant>>
vars == <<chainVars, recordVars>>

Verdict(from, cells, certainty) == ValidateRecord(from, cells, certainty, Existing, Threshold)

(***************************************************************************)
(* The boundary of the providers: a word for "absent" becomes None, a      *)
(* score outside [0, 1] is brought back, one score per field is kept.      *)
(***************************************************************************)
FromProvider(f, cell) == IF cell = WordCell(f) THEN AbsentCell(f) ELSE cell
\* Mutant of Clamp: only one side is brought back.
ClampBelow(score) == Max({0, score})

Clamp(score) == Max({0, Min({1000, score})})

\* Mutant of RecordScore: optional fields count as well.
ScoreOfAll(certainty) == Min({certainty[f] : f \in BusinessFields})

\* record_confidence: the minimum over the required fields.
RecordScore(certainty) == Min({certainty[f] : f \in RequiredFields})

Init ==
  /\ corrections = 0
  /\ \/ /\ Unused
        /\ \E row \in CsvRows :
             /\ source = "CSV" /\ raw = row.raw /\ scores = NoScores
             /\ confidence = row.confidence /\ meant = row.meant
             /\ errors = Verdict("CSV", row.raw, row.confidence)
     \/ /\ Configured
        /\ source = "PDF" /\ raw = NoCells /\ scores = NoScores
        /\ confidence = Reading("none", {}) /\ meant = {} /\ errors = {}

\* persist_records for a record the chain answered with.  The mock that the
\* configuration builds answers with none.
Extracted ==
  /\ Answer
  /\ \/ UNCHANGED recordVars
     \/ /\ chain # <<"mock">>
        /\ \E row \in PdfRows :
             /\ raw' = [f \in BusinessFields |-> FromProvider(f, row.raw[f])]
             /\ scores' = [f \in BusinessFields |-> Clamp(row.scores[f])]
             /\ confidence' = Reading("none", {QuantizedScore(RecordScore(scores'))})
             /\ errors' = Verdict("PDF", raw', confidence')
        /\ UNCHANGED <<source, corrections, meant>>

\* _account_for_human_review: what a person typed is certain, and the record is as
\* certain as what is left.
Reviewed(touched) ==
  IF source # "PDF"
  THEN UNCHANGED <<scores, confidence>>
  ELSE /\ scores' = [f \in BusinessFields |-> IF f \in touched THEN 1000 ELSE scores[f]]
       /\ confidence' = Reading("none", {FormattedScore(RecordScore(scores'))})

\* correct_in_transaction: merge, account for the review, revalidate.
Correct(change) ==
  /\ raw # NoCells
  /\ corrections < MaxCorrections
  /\ raw' = [f \in BusinessFields |-> IF f \in DOMAIN change THEN change[f] ELSE raw[f]]
  /\ Reviewed(DOMAIN change)
  /\ errors' = Verdict(source, raw', confidence')
  /\ corrections' = corrections + 1
  /\ meant' = IF "gross_amount" \in DOMAIN change THEN {} ELSE meant
  /\ UNCHANGED <<source, chainVars>>

Attempting == (Retry \/ FallThrough \/ GiveUp) /\ UNCHANGED recordVars

Next == Extracted \/ Attempting \/ \E change \in Changes : Correct(change)

Spec == Init /\ [][Next]_vars
(***************************************************************************)
(* Properties.                                                             *)
(***************************************************************************)
Codes ==
  {"NOT_NUMERIC", "AMOUNT_SCALE_EXCEEDED", "AMOUNT_OUT_OF_RANGE", "INVALID_DATE", "REQUIRED_FIELD_MISSING",
   "DUPLICATE_REFERENCE", "ZERO_AMOUNT", "NEGATIVE_AMOUNT", "NET_AMOUNT_MISMATCH", "INVALID_COUNTRY_CODE",
   "UNSUPPORTED_CODE", "VALUE_TOO_LONG", "CONFIDENCE_OUT_OF_RANGE", "LOW_CONFIDENCE"}

\* Every variable holds what the code may put there: a record from a PDF has scores and
\* a confidence between 0 and 1, and an error names a field and a known code.
TypeOK ==
  /\ source \in {"CSV", "PDF"}
  /\ raw # NoCells => DOMAIN raw = BusinessFields
  /\ scores = NoScores \/ scores \in [BusinessFields -> Thousandths]
  /\ source = "PDF" => confidence.problem = "none" /\ confidence.value \subseteq 0..100
  /\ errors \subseteq (BusinessFields \cup {Confidence}) \X Codes
  /\ corrections \in 0..MaxCorrections
  /\ call \in {"unused", "calling", "answered", "failed"}
  /\ position \in 1..Len(chain) \/ call = "unused"
  /\ attempt \in 1..Attempts

\* An amount that its author wrote in any of the usual ways, in groups of three or in
\* one piece, with a point or a comma and at most two decimals, is read as that amount.
ReadAsWritten == meant # {} => NormalizeAmount(raw["gross_amount"]) = Reading("none", meant)

(***************************************************************************)
(* The abstraction of Verdicts: two fields, three levels of confidence.    *)
(***************************************************************************)
AbstractReference == IF raw["reference"] = "absent" THEN "none" ELSE raw["reference"]

AbstractDetail == IF DetailSound(raw) /\ raw["reference"] # "long" /\ confidence.problem = "none" THEN "sound" ELSE "flawed"

AbstractCode(e) ==
  CASE e = <<"reference", "REQUIRED_FIELD_MISSING">> -> "REQUIRED_FIELD_MISSING"
    [] e[2] \in {"DUPLICATE_REFERENCE", "LOW_CONFIDENCE"} -> e[2]
    [] OTHER -> "FLAWED_DETAIL"

V == INSTANCE Verdicts WITH References <- {"sound", "respelled", "word", "taken", "long"}

\* What the two roundings make of a score.
Level(score) ==
  IF QuantizedScore(score) < Threshold THEN "low" ELSE IF FormattedScore(score) < Threshold THEN "tie" ELSE "high"

\* The import writes a certainty down as it is, a review formats it.
AbstractConfidence ==
  IF scores = NoScores THEN "absent"
  ELSE LET least == V!RecordConfidence([f \in RequiredFields |-> Level(scores[f])])
       IN  IF corrections = 0 THEN least ELSE V!Formatted(least)

\* The fifteen rules together say of a record what the data dictionary says of it, no more
\* and no less: the errors, seen through the abstraction, are those Verdicts computes.
\* It is what allows Records and Review to work with a reference and one other field.
RefinesVerdicts ==
  raw # NoCells =>
    {AbstractCode(e) : e \in errors} =
      V!Validate(source, [reference |-> AbstractReference, detail |-> AbstractDetail,
                          confidence |-> AbstractConfidence], Existing)

\* A field that is there but unreadable is not reported as missing too, and an amount
\* nobody could read never makes the others look inconsistent.
NoSecondHandErrors ==
  /\ \A e1, e2 \in errors : e1[1] = e2[1] /\ e1[2] = "REQUIRED_FIELD_MISSING" => e1 = e2
  /\ <<"net_amount", "NET_AMOUNT_MISMATCH">> \in errors =>
       \A f \in AmountFields : NormalizeAmount(raw[f]).problem = "none"

\* The fields the extraction was unsure of, when the confidence was reported.
Doubted == IF Confidence \in FieldsOf(errors) /\ source = "PDF" THEN {f \in BusinessFields : scores[f] < 10 * Threshold} ELSE {}

\* A reviewer who looks at one amount looks at all of them.
WithAmounts(fields) == fields \cup (IF fields \cap AmountFields = {} THEN {} ELSE AmountFields)

LeastScore(certainty) == CHOOSE least \in {certainty[f] : f \in RequiredFields} :
                           \A f \in RequiredFields : certainty[f] >= least

\* The reviewer sees every error at once, and none is a dead end: correcting what is
\* reported leaves a valid record.  Two exceptions, both in the README: a CSV with an
\* unreadable confidence column, and a least score on a tie of the two roundings.
NoDeadEnd ==
  raw # NoCells =>
    LET touched  == WithAmounts(FieldsOf(errors) \cup Doubted) \ {Confidence}
        repaired == [f \in BusinessFields |-> IF f \in touched THEN SoundCells[f] ELSE raw[f]]
        left     == IF source = "PDF" THEN [f \in BusinessFields |-> IF f \in touched THEN 1000 ELSE scores[f]] ELSE NoScores
        certain  == IF source = "PDF" /\ touched # {} THEN Reading("none", {FormattedScore(RecordScore(left))}) ELSE confidence
    IN  \/ Verdict(source, repaired, certain) = {}
        \/ source = "CSV" /\ confidence.problem # "none"
        \/ source = "PDF" /\ LeastScore(left) \in TiesDown

\* A required field the model was unsure about and nobody touched still blocks approval,
\* and nothing else does: half a hundredth below the threshold is where the import draws
\* the line, and the review too unless the score is a tie that "%.2f" rounds down.
DoubtBlocks ==
  raw # NoCells /\ source = "PDF" =>
    LET least == LeastScore(scores)
        line  == 10 * Threshold - 5
    IN  (<<Confidence, "LOW_CONFIDENCE">> \in errors) <=>
          (least < line \/ (least = line /\ line \in TiesDown /\ corrections > 0))

\* A correction changes the errors of the fields it changes, of net_amount when one of them
\* is an amount, and of an extraction's confidence: no other error comes or goes.
CorrectionIsLocal ==
  [][raw # NoCells =>
       LET changed == {f \in BusinessFields : raw'[f] # raw[f]}
       IN  FieldsOf((errors \ errors') \cup (errors' \ errors)) \subseteq
             changed \cup (IF changed \cap AmountFields = {} THEN {} ELSE {"net_amount"})
                     \cup (IF source = "PDF" THEN {Confidence} ELSE {})]_vars

(***************************************************************************)
(* The inductive invariant of the proofs.                                  *)
(***************************************************************************)
\* What the confidence of an extraction is, from the import or from a review.
CertaintyOf(certainty) ==
  IF corrections = 0 THEN QuantizedScore(RecordScore(certainty)) ELSE FormattedScore(RecordScore(certainty))

\* There is no record yet.
Untouched ==
  /\ source = "PDF" /\ raw = NoCells /\ scores = NoScores /\ errors = {} /\ corrections = 0
  /\ confidence = Reading("none", {})

\* The record's verdict is the one its cells and its confidence have now, whichever way
\* they got there.
Held ==
  /\ source \in {"CSV", "PDF"} /\ call # "calling"
  /\ IsRow(raw) /\ corrections \in 0..MaxCorrections
  /\ errors = Verdict(source, raw, confidence)
  /\ source = "CSV" => scores = NoScores /\ confidence.problem \in {"none", "NOT_NUMERIC", "AMOUNT_OUT_OF_RANGE"}
  /\ source = "PDF" => scores \in [BusinessFields -> Thousandths] /\ confidence = Reading("none", {CertaintyOf(scores)})

Inductive == ChainInductive /\ (Untouched \/ Held)

\* What an author meant is known of a file's row only, and then the cell is still a
\* writing of it.
MeantIsWritten ==
  meant = {} \/ (source = "CSV" /\ \E cents \in meant : meant = {cents} /\ Writes(raw["gross_amount"], cents))

=============================================================================
