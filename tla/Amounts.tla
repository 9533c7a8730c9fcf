------------------------------ MODULE Amounts ------------------------------
(***************************************************************************)
(* Reading an amount and a confidence: domain/normalization.py and the two *)
(* places that write a confidence down.  Pure definitions.                 *)
(*                                                                         *)
(* An amount is read from a text.  A text is kept as what the rules look   *)
(* at: a leading minus, groups of digits, and the separator between each   *)
(* group and the next.  "-1 200,50" is a minus, the groups 1, 200 and 50,  *)
(* and the separators " " and ",".  An empty cell is one empty group; a    *)
(* text with any other character has no groups at all.                     *)
(***************************************************************************)
EXTENDS Integers, Sequences, FiniteSets, SequencesExt

CONSTANTS
  IntegerDigits,   \* digits before the point of MAX_AMOUNT: NUMERIC(18, 2) leaves 16
  TiesDown         \* the thousandths that "%.2f" rounds down although they end in 5

ASSUME AmountsAssumption ==
  /\ IntegerDigits \in Nat \ {0}
  /\ TiesDown \subseteq {s \in 0..1000 : s % 10 = 5}

Scale == 2
Space == " "
Separators == {".", ",", Space}
EmptyText == [minus |-> FALSE, groups |-> << <<>> >>, seps |-> <<>>]
Word == [minus |-> FALSE, groups |-> <<>>, seps |-> <<>>]

\* What an amount's cell may be.
Text ==
  {t \in [minus : BOOLEAN, groups : Seq(Seq(0..9)), seps : Seq(Separators)] :
     t = Word \/ Len(t.groups) = Len(t.seps) + 1}

\* What normalize_amount returns: a problem or none, and at most one value, in cents.
Reading(problem, value) == [problem |-> problem, value |-> value]

(***************************************************************************)
(* Which separator is the decimal one.  Spaces are stripped before anyone  *)
(* looks.                                                                  *)
(***************************************************************************)
Marks(text) == {i \in DOMAIN text.seps : text.seps[i] # Space}
Digits(text, from, to) == FlattenSeq(SubSeq(text.groups, from, to))

\* _THOUSANDS_GROUP_RE and _THOUSANDS_LEFT_RE around the only separator.
LooksLikeThousands(text, mark) ==
  LET left == Digits(text, 1, mark)
  IN  /\ Len(Digits(text, mark + 1, Len(text.groups))) = 3
      /\ Len(left) \in 1..3
      /\ left[1] # 0

SameKind(text, mark) == {i \in DOMAIN text.seps : text.seps[i] = text.seps[mark]}

\* Both kinds are present: the one on the right is the decimal separator.
Mixed(text) == Cardinality({text.seps[i] : i \in Marks(text)}) = 2

\* Mutant of DecimalMarks: with both kinds present, the one on the left is taken.
LeftmostDecimal(text) ==
  IF Mixed(text)
  THEN SameKind(text, Min(Marks(text)))
  ELSE {i \in Marks(text) : Cardinality(Marks(text)) = 1 /\ ~LooksLikeThousands(text, i)}

\* One kind only: several of them, or one before a group of three, separate thousands.
DecimalMarks(text) ==
  IF Mixed(text)
  THEN SameKind(text, Max(Marks(text)))
  ELSE {i \in Marks(text) : Cardinality(Marks(text)) = 1 /\ ~LooksLikeThousands(text, i)}

(***************************************************************************)
(* The value.                                                              *)
(***************************************************************************)
Blank(text) ==
  ~text.minus /\ text.groups # <<>> /\ Marks(text) = {} /\ Digits(text, 1, Len(text.groups)) = <<>>

Significant(digits) ==
  LET leading == {i \in DOMAIN digits : digits[i] # 0}
  IN  IF leading = {} THEN <<>> ELSE SubSeq(digits, Min(leading), Len(digits))

Number(digits) == FoldLeft(LAMBDA n, d : 10 * n + d, 0, digits)

Cents(whole, fraction) ==
  Number(Significant(whole) \o fraction \o [i \in 1..(Scale - Len(fraction)) |-> 0])

NormalizeAmount(text) ==
  LET points   == DecimalMarks(text)
      count    == Len(text.groups)
      mark     == IF points = {} THEN count ELSE Min(points)
      whole    == Digits(text, 1, mark)
      fraction == Digits(text, mark + 1, count)
  IN  IF Blank(text) THEN Reading("none", {})
      ELSE IF text = Word \/ Cardinality(points) > 1 \/ whole = <<>> \/ (points # {} /\ fraction = <<>>)
      THEN Reading("NOT_NUMERIC", {})
      ELSE IF Len(fraction) > Scale THEN Reading("AMOUNT_SCALE_EXCEEDED", {})
      ELSE IF Len(Significant(whole)) > IntegerDigits THEN Reading("AMOUNT_OUT_OF_RANGE", {})
      ELSE Reading("none", {IF text.minus THEN -Cents(whole, fraction) ELSE Cents(whole, fraction)})

(***************************************************************************)
(* Confidence, in thousandths as a provider scores it and in hundredths as *)
(* it is stored.  The import writes str(score) and normalize_confidence    *)
(* rounds that decimal half up; a review writes "%.2f", which rounds the   *)
(* binary number, so a tie may go either way.                              *)
(***************************************************************************)
QuantizedScore(score) == (score + 5) \div 10

FormattedScore(score) == IF score \in TiesDown THEN score \div 10 ELSE (score + 5) \div 10

(***************************************************************************)
(* How a person writes an amount of so many cents: the whole part in       *)
(* groups of three or in one piece, then at most two decimals.  It is the  *)
(* reference the reading is compared with, and knows nothing of its rules. *)
(***************************************************************************)
\* The powers of ten that an amount needs.
Tens[k \in 0..(IntegerDigits + Scale)] == IF k = 0 THEN 1 ELSE 10 * Tens[k - 1]

\* The last k digits of n.
DigitsOf(n, k) == [i \in 1..k |-> (n \div Tens[k - i]) % 10]

\* How many digits n has, without zeros in front.
Width(n) == CHOOSE k \in 1..IntegerDigits : n < Tens[k] /\ (k = 1 \/ n >= Tens[k - 1])

\* Groups of three, but for the first, which has one to three.
Grouped(digits) ==
  LET count == (Len(digits) + 2) \div 3
      first == Len(digits) - 3 * (count - 1)
  IN  [g \in 1..count |-> IF g = 1 THEN SubSeq(digits, 1, first)
                                   ELSE SubSeq(digits, first + 3 * g - 5, first + 3 * g - 3)]

\* A style groups with nothing, a space, "," or "." and has a decimal point of another kind.
Ungrouped == ""
Styles == {s \in [group: {Ungrouped, Space, ",", "."}, point: {",", "."}] : s.group # s.point}

\* The amounts that so many decimals can express.
Expressible(cents, decimals) == cents % Tens[Scale - decimals] = 0

Size(cents) == IF cents < 0 THEN -cents ELSE cents

Written(cents, style, decimals) ==
  LET size   == Size(cents)
      digits == DigitsOf(size \div 100, Width(size \div 100))
      whole  == IF style.group = Ungrouped THEN <<digits>> ELSE Grouped(digits)
  IN  [minus |-> cents < 0,
       groups |-> IF decimals = 0 THEN whole ELSE Append(whole, SubSeq(DigitsOf(size % 100, 2), 1, decimals)),
       seps |-> [i \in 1..(Len(whole) - 1) |-> style.group] \o (IF decimals = 0 THEN <<>> ELSE <<style.point>>)]

\* The text is one of the ways to write the amount, and the amount fits the column.
Writes(text, cents) ==
  /\ cents \in Int /\ Size(cents) \div 100 < Tens[IntegerDigits]
  /\ \E style \in Styles, decimals \in 0..Scale :
       Expressible(cents, decimals) /\ text = Written(cents, style, decimals)
=============================================================================
