------------------------------- MODULE Rules -------------------------------
(***************************************************************************)
(* From the cells of one record to its validation errors, field by field:  *)
(* normalize_record and validate_record.  Pure definitions.                *)
(*                                                                         *)
(* An amount's cell is a text of Amounts.  Any other cell is its class:    *)
(*   "absent"   empty or blank          "sound"  what the field should hold*)
(*   "respelled" a sound code in other letters, spaces or hyphens          *)
(*   "word"     the word null, n/a, ... where a value should be            *)
(*   "unknown"  no such code, country or date                              *)
(*   "long"     more characters than the field may have                    *)
(*   "taken"    a reference an earlier record of the batch has             *)
(* A normalized value is a set: empty for None.                            *)
(***************************************************************************)
EXTENDS Amounts

RequiredFields ==
  {"reference", "transaction_date", "description", "gross_amount", "net_amount",
   "currency", "counterparty_name", "country", "category"}
AmountFields == {"gross_amount", "fee_amount", "tax_amount", "net_amount"}
DateFields == {"transaction_date", "value_date"}
TextFields == {"reference", "description", "counterparty_name", "counterparty_account", "invoice_number"}
EnumFields == {"currency", "category", "payment_method"}
BusinessFields == AmountFields \cup DateFields \cup TextFields \cup EnumFields \cup {"country"}

\* Fields of the data dictionary and the one that is not a column of a file.
Confidence == "extraction_confidence"
NetTolerance == 1   \* a cent

\* What the cells of a record may be.
Classes == {"absent", "sound", "respelled", "word", "unknown", "long", "taken"}
IsRow(raw) ==
  DOMAIN raw = BusinessFields /\ \A f \in BusinessFields : raw[f] \in IF f \in AmountFields THEN Text ELSE Classes

AbsentCell(f) == IF f \in AmountFields THEN EmptyText ELSE "absent"
WordCell(f) == IF f \in AmountFields THEN Word ELSE "word"

(***************************************************************************)
(* Normalization: form, never substance.                                   *)
(***************************************************************************)
\* normalize_text, normalize_enum, normalize_country: any text is a value, and a
\* code in other letters is the code.
NormalizeText(cell) == IF cell = "absent" THEN {} ELSE {IF cell = "respelled" THEN "sound" ELSE cell}

\* normalize_date: ISO or day first, or no date at all.
NormalizeDate(cell) ==
  CASE cell = "absent" -> Reading("none", {})
    [] cell \in {"sound", "respelled"} -> Reading("none", {"sound"})
    [] OTHER -> Reading("INVALID_DATE", {})

NormalizeCell(f, cell) ==
  CASE f \in AmountFields -> NormalizeAmount(cell)
    [] f \in DateFields -> NormalizeDate(cell)
    [] OTHER -> Reading("none", NormalizeText(cell))

Normalize(raw) == [f \in BusinessFields |-> NormalizeCell(f, raw[f]).value]

\* The confidence, already read, is [problem, value in hundredths].
FormErrors(raw, confidence) ==
  {<<f, NormalizeCell(f, raw[f]).problem>> : f \in {g \in BusinessFields : NormalizeCell(g, raw[g]).problem # "none"}}
  \cup (IF confidence.problem = "none" THEN {} ELSE {<<Confidence, confidence.problem>>})

(***************************************************************************)
(* Validation: every rule is applied, none hides another.                  *)
(***************************************************************************)
FieldsOf(errors) == {e[1] : e \in errors}

CheckRequired(record, unreadable) ==
  {<<f, "REQUIRED_FIELD_MISSING">> : f \in {g \in RequiredFields \ unreadable : record[g] = {}}}

CheckUniqueness(record, existing) ==
  {<<"reference", "DUPLICATE_REFERENCE">> : r \in record["reference"] \cap existing}

CheckAmounts(record) ==
  {<<"gross_amount", "ZERO_AMOUNT">> : n \in record["gross_amount"] \cap {0}}
  \cup {<<f, "NEGATIVE_AMOUNT">> : f \in {g \in {"fee_amount", "tax_amount"} : \E n \in record[g] : n < 0}}

\* An absent fee or tax is zero.
OrZero(value) == IF value = {} THEN 0 ELSE CHOOSE n \in value : TRUE

\* Mutant of CheckNetAmount: an unreadable operand is taken for an absent one.
CheckNetAmountAlways(record, unreadable) ==
  {<<"net_amount", "NET_AMOUNT_MISMATCH">> :
     d \in {gross + OrZero(record["tax_amount"]) - OrZero(record["fee_amount"]) - net :
              gross \in record["gross_amount"], net \in record["net_amount"]}
           \ (-NetTolerance)..NetTolerance}

CheckNetAmount(record, unreadable) ==
  {<<"net_amount", "NET_AMOUNT_MISMATCH">> :
     d \in {gross + OrZero(record["tax_amount"]) - OrZero(record["fee_amount"]) - net :
              gross \in IF AmountFields \cap unreadable = {} THEN record["gross_amount"] ELSE {},
              net \in record["net_amount"]}
           \ (-NetTolerance)..NetTolerance}

\* check_currency, check_category, check_payment_method, check_country: absent is no error here.
CheckCodes(record) ==
  {<<f, IF f = "country" THEN "INVALID_COUNTRY_CODE" ELSE "UNSUPPORTED_CODE">> :
     f \in {g \in EnumFields \cup {"country"} : record[g] \notin {{}, {"sound"}}}}

CheckLengths(record) ==
  {<<f, "VALUE_TOO_LONG">> : f \in {g \in BusinessFields \ (AmountFields \cup DateFields) : record[g] = {"long"}}}

\* Mutant of CheckConfidence: the source of the record is not looked at.
CheckConfidenceAnySource(source, value, threshold) ==
  {<<Confidence, "CONFIDENCE_OUT_OF_RANGE">> : c \in {h \in value : h \notin 0..100}}
  \cup {<<Confidence, "LOW_CONFIDENCE">> : c \in {h \in value : h < threshold}}

\* A confidence is a matter of extraction: nothing is said of a CSV's.
CheckConfidence(source, value, threshold) ==
  IF source # "PDF" THEN {}
  ELSE {<<Confidence, "CONFIDENCE_OUT_OF_RANGE">> : c \in {h \in value : h \notin 0..100}}
       \cup {<<Confidence, "LOW_CONFIDENCE">> : c \in {h \in value : h < threshold}}

\* Mutant of ValidateRecord: the rules run only on a record whose form is right.
ValidateInStages(source, raw, confidence, existing, threshold) ==
  LET record == Normalize(raw)
      form   == FormErrors(raw, confidence)
  IN  IF form # {} THEN form
      ELSE CheckRequired(record, {}) \cup CheckUniqueness(record, existing)
           \cup CheckAmounts(record) \cup CheckNetAmount(record, {}) \cup CheckCodes(record)
           \cup CheckLengths(record) \cup CheckConfidence(source, confidence.value, threshold)

ValidateRecord(source, raw, confidence, existing, threshold) ==
  LET record     == Normalize(raw)
      form       == FormErrors(raw, confidence)
      unreadable == FieldsOf(form)
  IN  form \cup CheckRequired(record, unreadable) \cup CheckUniqueness(record, existing)
           \cup CheckAmounts(record) \cup CheckNetAmount(record, unreadable) \cup CheckCodes(record)
           \cup CheckLengths(record) \cup CheckConfidence(source, confidence.value, threshold)

(***************************************************************************)
(* The data dictionary, as a person would apply it to a record: what each  *)
(* field other than the reference may hold, and how the amounts add up.    *)
(***************************************************************************)
Acceptable(f, cell) ==
  CASE f \in AmountFields ->
         LET reading == NormalizeAmount(cell)
         IN  /\ reading.problem = "none"
             /\ f = "gross_amount" => reading.value # {0}
             /\ f \in {"fee_amount", "tax_amount"} => \A n \in reading.value : n >= 0
    [] f \in EnumFields \cup DateFields \cup {"country"} -> cell \in {"absent", "sound", "respelled"}
    [] OTHER -> cell # "long"

AddsUp(raw) ==
  \A gross \in NormalizeAmount(raw["gross_amount"]).value, net \in NormalizeAmount(raw["net_amount"]).value :
    gross + OrZero(NormalizeAmount(raw["tax_amount"]).value)
      \in (net + OrZero(NormalizeAmount(raw["fee_amount"]).value) - 1)
          ..(net + OrZero(NormalizeAmount(raw["fee_amount"]).value) + 1)

DetailSound(raw) ==
  /\ \A f \in BusinessFields : Acceptable(f, raw[f])
  /\ \A f \in RequiredFields \ {"reference"} : IF f \in AmountFields THEN ~Blank(raw[f]) ELSE raw[f] # "absent"
  /\ AddsUp(raw)
=============================================================================
