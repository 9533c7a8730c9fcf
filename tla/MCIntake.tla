------------------------------ MODULE MCIntake ------------------------------
(***************************************************************************)
(* A small instance of Intake for TLC: amounts of at most four digits      *)
(* before the point, one cell per kind of field and of flaw.               *)
(***************************************************************************)
EXTENDS Intake, TLC

\* "%.2f" of 0.705 is 0.70, of 0.675 it is 0.68.
BinaryTiesDown == {5 * k : k \in {3, 139, 141, 143}}

Plain(cents) == Written(cents, [group |-> Ungrouped, point |-> "."], 2)
Unscaled == [minus |-> FALSE, groups |-> <<<<0>>, <<0, 0, 5>>>>, seps |-> <<".">>]
Huge == [minus |-> FALSE, groups |-> <<<<5, 0, 0, 0, 0>>>>, seps |-> <<>>]

Sound ==
  [f \in BusinessFields |->
     CASE f = "gross_amount" -> Plain(1000)
       [] f = "net_amount" -> Plain(1100)
       [] f = "fee_amount" -> EmptyText
       [] f = "tax_amount" -> Plain(100)
       [] OTHER -> "sound"]

\* One field of each kind is varied: the others have the same rules.
Typed ==
  [f \in BusinessFields |->
     CASE f = "gross_amount" -> {EmptyText, Word, Plain(0), Plain(-1000), Plain(1001), Plain(1002), Unscaled, Huge}
       [] f = "net_amount" -> {EmptyText, Word, Plain(1100)}
       [] f = "fee_amount" -> {Word, Plain(-1), Plain(100)}
       [] f = "tax_amount" -> {EmptyText, Unscaled, Plain(-100)}
       [] f = "reference" -> {"absent", "sound", "taken", "long"}
       [] f = "transaction_date" -> {"absent", "unknown"}
       [] f = "value_date" -> {"absent", "word"}
       [] f = "country" -> {"absent", "unknown", "respelled"}
       [] f = "currency" -> {"absent", "long"}
       [] f = "payment_method" -> {"absent", "unknown", "word"}
       [] f = "description" -> {"absent", "sound"}
       [] f = "invoice_number" -> {"absent", "long"}
       [] OTHER -> {}]

\* A correction of one field, or of two that a rule or the verdict reads together.
One(f, cell) == [g \in {f} |-> cell]
Two(f, g) == {One(f, c) @@ One(g, d) : c \in Typed[f], d \in Typed[g]}
Sent ==
  UNION {{One(f, cell) : cell \in Typed[f]} : f \in BusinessFields}
  \cup Two("reference", "transaction_date") \cup {One("gross_amount", Plain(1001)) @@ One("tax_amount", Plain(-100))}
  \cup {[f \in {"gross_amount", "net_amount", "fee_amount", "tax_amount"} |-> Sound[f]]}

Replaced(f, cell) == [Sound EXCEPT ![f] = cell]
WithCell(cells, f) == {[cells EXCEPT ![f] = cell] : cell \in Typed[f]}
OneFlaw == UNION {WithCell(Sound, f) : f \in BusinessFields}
TwoFlaws == UNION {WithCell(cells, f) : cells \in OneFlaw, f \in BusinessFields}

\* Texts of up to three groups, in every order of separators.
Groups == {<<>>, <<0>>, <<5>>, <<5, 0>>, <<0, 0, 0>>, <<5, 0, 0>>}
Texts ==
  UNION {[minus : BOOLEAN, groups : [1..n -> Groups], seps : [1..(n - 1) -> Separators]] : n \in 1..3}

Amounts4 == {0, 1, 50, 105, -99950, 100000, -999999, 500001}
Writings ==
  {<<n, style, d>> \in Amounts4 \X Styles \X (0..2) : Expressible(n, d)}

NoConfidence == Reading("none", {})
Csv(cells, certainty, amount) == [raw |-> cells, confidence |-> certainty, meant |-> amount]

Files ==
  {Csv(cells, NoConfidence, {}) : cells \in TwoFlaws}
  \cup {Csv(Replaced("gross_amount", text), NoConfidence, {}) : text \in Texts}
  \cup {Csv(Replaced("gross_amount", Written(w[1], w[2], w[3])), NoConfidence, {w[1]}) : w \in Writings}
  \cup {Csv(Sound, certainty, {}) :
          certainty \in {Reading("none", {10}), Reading("none", {1500}), Reading("NOT_NUMERIC", {})}}

\* Scores on both sides of the threshold of 700, on its ties, and out of range.
Levels == {0, 690, 694, 695, 700, 705, 1200}
Doubts ==
  {[f \in BusinessFields |-> IF f \in {g} THEN level ELSE IF f = h THEN 699 ELSE 1000] :
     g \in {"description", "net_amount", "invoice_number"}, h \in {"reference", "payment_method"}, level \in Levels}

Answers ==
  {[raw |-> Sound, scores |-> certainty] : certainty \in Doubts}
  \cup {[raw |-> cells, scores |-> [f \in BusinessFields |-> 950]] : cells \in OneFlaw}
=============================================================================
