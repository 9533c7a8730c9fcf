----------------------------- MODULE RulesProofs -----------------------------
(***************************************************************************)
(* What the rules of normalization and validation say of any record, for   *)
(* any cells: an amount is read as a number, and an error of a field comes *)
(* from that field alone, but for what the amounts say together.           *)
(*                                                                         *)
(* The readings of an amount are folds over digits and groups.  A fact     *)
(* about every one of them is proved by induction, which is stated here as *)
(* a set of naturals that has 0 and, with a number, its successor.         *)
(***************************************************************************)
EXTENDS Rules, SequenceTheorems, FiniteSetTheorems, WellFoundedInduction, TLAPS

(***************************************************************************)
(* Induction.                                                              *)
(***************************************************************************)

\* A set of naturals that has 0 and the successor of each of its elements has them all.
LEMMA Induction ==
  ASSUME NEW S, 0 \in S, \A n \in Nat : n \in S => n + 1 \in S
  PROVE  \A n \in Nat : n \in S
<1> DEFINE R == {ss \in Nat \X Nat : ss[1] < ss[2]}
           Others == {n \in Nat : n \notin S}
<1>1. IsWellFoundedOn(R, Nat)
  BY NatLessThanWellFounded DEF OpToRel
<1>2. SUFFICES ASSUME Others # {} PROVE FALSE
  OBVIOUS
<1> HIDE DEF R
<1>3. PICK least \in Others : \A n \in Others : <<n, least>> \notin R
  BY <1>1, <1>2, WFMin
<1>4. \A n \in Others : ~(n < least)
  BY <1>3 DEF R
<1>5. least # 0 /\ least - 1 \in Nat
  OBVIOUS
<1>6. least - 1 \in S
  BY <1>4, <1>5
<1>7. (least - 1) + 1 \in S
  BY <1>5, <1>6
<1> QED BY <1>3, <1>7

(***************************************************************************)
(* Digits and numbers.                                                     *)
(***************************************************************************)

\* The last of the first numbers.
LEMMA MaxOfFirst ==
  ASSUME NEW n \in Nat, NEW s \in SUBSET (1..(n + 1)), n + 1 \in s
  PROVE  Max(s) = n + 1
<1>1. n + 1 \in s /\ \A y \in s : n + 1 >= y
  OBVIOUS
<1>2. Max(s) \in s /\ \A y \in s : Max(s) >= y
  BY <1>1 DEF Max
<1>3. Max(s) >= n + 1 /\ Max(s) \in 1..(n + 1)
  BY <1>1, <1>2
<1> HIDE DEF Max
<1> QED BY <1>3

\* The first numbers are one more than the ones before.
LEMMA FirstNumbers ==
  ASSUME NEW n \in Nat
  PROVE  Max(1..(n + 1)) = n + 1 /\ (1..(n + 1)) \ {n + 1} = 1..n /\ 1..(n + 1) # {}
<1>1. 1..(n + 1) \in SUBSET (1..(n + 1)) /\ n + 1 \in 1..(n + 1)
  OBVIOUS
<1>2. \A i \in (1..(n + 1)) \ {n + 1} : i \in 1..n
  OBVIOUS
<1>3. Max(1..(n + 1)) = n + 1
  BY <1>1, MaxOfFirst
<1>4. (1..(n + 1)) \ {n + 1} = 1..n
  BY <1>2
<1> QED BY <1>1, <1>3, <1>4

\* A fold over the digits is defined: there is a function that takes its steps.
LEMMA FoldOfDigits ==
  ASSUME NEW digits \in Seq(Nat)
  PROVE  \E fold : /\ Number(digits) = fold[1..Len(digits)]
                   /\ \A s \in SUBSET (1..Len(digits)) :
                        fold[s] = IF s = {} THEN 0 ELSE 10 * fold[s \ {Max(s)}] + digits[Max(s)]
<1> DEFINE Step(g, s) == IF s = {} THEN 0 ELSE 10 * g[s \ {Max(s)}] + digits[Max(s)]
           IsFold(g, n) == g = [s \in SUBSET (1..n) |-> Step(g, s)]
           Defined == {n \in Nat : \E g : IsFold(g, n)}
           length == Len(digits)
           fold == CHOOSE g : IsFold(g, length)
<1>1. \A n \in Nat : n \in Defined
  <2>1. 0 \in Defined
    <3> DEFINE g == [s \in SUBSET (1..0) |-> 0]
    <3>1. \A s \in SUBSET (1..0) : s = {}
      OBVIOUS
    <3>2. IsFold(g, 0)
      BY <3>1
    <3> QED BY <3>2
  <2>2. ASSUME NEW n \in Nat, n \in Defined PROVE n + 1 \in Defined
    <3>1. PICK g : IsFold(g, n)
      BY <2>2
    <3> DEFINE h == [s \in SUBSET (1..(n + 1)) |-> Step(g, s)]
    <3>2. ASSUME NEW s \in SUBSET (1..n) PROVE h[s] = g[s]
      <4>1. s \in SUBSET (1..(n + 1))
        OBVIOUS
      <4>2. h[s] = Step(g, s)
        BY <4>1
      <4>3. g[s] = Step(g, s)
        BY <3>1
      <4> QED BY <4>2, <4>3
    <3>3. ASSUME NEW s \in SUBSET (1..(n + 1)) PROVE Step(h, s) = Step(g, s)
      <4>1. s \ {Max(s)} \in SUBSET (1..n)
        <5>1. CASE n + 1 \in s
          <6>1. Max(s) = n + 1
            BY <5>1, MaxOfFirst
          <6>2. \A i \in s \ {n + 1} : i \in 1..n
            OBVIOUS
          <6> QED BY <6>1, <6>2
        <5>2. CASE n + 1 \notin s
          <6>1. \A i \in s : i \in 1..n
            BY <5>2
          <6> QED BY <6>1
        <5> QED BY <5>1, <5>2
      <4> HIDE DEF h
      <4> QED BY <3>2, <4>1
    <3>4. IsFold(h, n + 1)
      BY <3>3
    <3> HIDE DEF h, IsFold
    <3> QED BY <3>4
  <2> HIDE DEF Defined
  <2> QED BY <2>1, <2>2, Induction
<1>2. length \in Nat /\ DOMAIN digits = 1..length /\ \A i \in 1..length : digits[i] \in Nat
  OBVIOUS
<1>3. IsFold(fold, length)
  BY <1>1, <1>2
<1>4. Number(digits) = fold[1..length]
  BY <1>2 DEF Number, FoldLeft, MapThenFoldSet
<1>5. \A s \in SUBSET (1..length) : fold[s] = Step(fold, s)
  BY <1>3
<1> HIDE DEF fold
<1> QED BY <1>4, <1>5

\* What they give is a number.
LEMMA NumberIsNatural ==
  ASSUME NEW digits \in Seq(Nat)
  PROVE  Number(digits) \in Nat
<1> DEFINE length == Len(digits)
<1>1. PICK fold : /\ Number(digits) = fold[1..length]
                  /\ \A s \in SUBSET (1..length) :
                       fold[s] = IF s = {} THEN 0 ELSE 10 * fold[s \ {Max(s)}] + digits[Max(s)]
  BY FoldOfDigits
<1>2. length \in Nat /\ \A i \in 1..length : digits[i] \in Nat
  OBVIOUS
<1> DEFINE Natural == {n \in Nat : n <= length => fold[1..n] \in Nat}
<1>3. \A n \in Nat : n \in Natural
  <2>1. 0 \in Natural
    <3>1. {} \in SUBSET (1..length) /\ 1..0 = {}
      OBVIOUS
    <3>2. fold[{}] = 0
      BY <1>1, <3>1
    <3> QED BY <3>1, <3>2
  <2>2. ASSUME NEW n \in Nat, n \in Natural PROVE n + 1 \in Natural
    <3> SUFFICES ASSUME n + 1 <= length PROVE fold[1..(n + 1)] \in Nat
      OBVIOUS
    <3>1. fold[1..n] \in Nat
      BY <1>2, <2>2
    <3>2. Max(1..(n + 1)) = n + 1 /\ (1..(n + 1)) \ {n + 1} = 1..n /\ 1..(n + 1) # {}
      BY FirstNumbers
    <3>3. 1..(n + 1) \in SUBSET (1..length)
      BY <1>2
    <3>4. fold[1..(n + 1)] = 10 * fold[1..n] + digits[n + 1]
      BY <1>1, <3>2, <3>3
    <3> QED BY <1>2, <3>1, <3>4
  <2> HIDE DEF Natural
  <2> QED BY <2>1, <2>2, Induction
<1> QED BY <1>1, <1>2, <1>3

\* A fold over digits gives what its steps give.
LEMMA NumberByPrefixes ==
  ASSUME NEW digits \in Seq(Nat), NEW prefix, prefix[0] = 0,
         \A i \in 1..Len(digits) : prefix[i] = 10 * prefix[i - 1] + digits[i]
  PROVE  Number(digits) = prefix[Len(digits)]
<1> DEFINE Step(g, s) == IF s = {} THEN 0 ELSE 10 * g[s \ {Max(s)}] + digits[Max(s)]
           length == Len(digits)
<1>1. length \in Nat /\ DOMAIN digits = 1..length
  OBVIOUS
<1>2. PICK fold : /\ Number(digits) = fold[1..length]
                  /\ \A s \in SUBSET (1..length) : fold[s] = Step(fold, s)
  BY FoldOfDigits
<1> DEFINE Same == {n \in Nat : n <= length => fold[1..n] = prefix[n]}
<1>3. \A n \in Nat : n \in Same
  <2>1. 0 \in Same
    <3>1. 1..0 \in SUBSET (1..length) /\ 1..0 = {}
      OBVIOUS
    <3> QED BY <1>2, <3>1
  <2>2. ASSUME NEW n \in Nat, n \in Same PROVE n + 1 \in Same
    <3> SUFFICES ASSUME n + 1 <= length PROVE fold[1..(n + 1)] = prefix[n + 1]
      OBVIOUS
    <3>1. fold[1..n] = prefix[n]
      BY <1>1, <2>2
    <3>2. Max(1..(n + 1)) = n + 1 /\ (1..(n + 1)) \ {n + 1} = 1..n /\ 1..(n + 1) # {}
      BY FirstNumbers
    <3>3. 1..(n + 1) \in SUBSET (1..length)
      BY <1>1
    <3>4. fold[1..(n + 1)] = 10 * fold[1..n] + digits[n + 1]
      BY <1>2, <3>2, <3>3
    <3>5. PICK i \in 1..length : i = n + 1 /\ i - 1 = n
      BY <1>1
    <3>6. prefix[i] = 10 * prefix[n] + digits[i]
      BY <3>5
    <3> QED BY <3>1, <3>4, <3>5, <3>6
  <2> HIDE DEF Same
  <2> QED BY <2>1, <2>2, Induction
<1> QED BY <1>1, <1>2, <1>3

\* Flattening groups of digits appends one group after the other.
LEMMA FlatOfGroups ==
  ASSUME NEW S, NEW groups \in Seq(Seq(S)), groups # <<>>
  PROVE  \E flat : /\ FlattenSeq(groups) = flat[Len(groups)]
                   /\ \A i \in 1..Len(groups) : flat[i] = IF i = 1 THEN groups[i] ELSE flat[i - 1] \o groups[i]
<1> DEFINE Step(g, i) == IF i = 1 THEN groups[i] ELSE g[i - 1] \o groups[i]
           IsFlat(g, n) == g = [i \in 1..n |-> Step(g, i)]
           Defined == {n \in Nat : \E g : IsFlat(g, n)}
           length == Len(groups)
           flat == CHOOSE g : IsFlat(g, length)
<1>1. length \in Nat /\ length # 0
  OBVIOUS
<1>2. \A n \in Nat : n \in Defined
  <2>1. 0 \in Defined
    <3>1. IsFlat([i \in 1..0 |-> 0], 0)
      BY \A i \in 1..0 : FALSE
    <3> QED BY <3>1
  <2>2. ASSUME NEW n \in Nat, n \in Defined PROVE n + 1 \in Defined
    <3>1. PICK g : IsFlat(g, n)
      BY <2>2
    <3> DEFINE h == [i \in 1..(n + 1) |-> Step(g, i)]
    <3>2. ASSUME NEW i \in 1..n PROVE h[i] = g[i]
      <4>1. h[i] = Step(g, i)
        OBVIOUS
      <4>2. g[i] = Step(g, i)
        BY <3>1
      <4> QED BY <4>1, <4>2
    <3>3. ASSUME NEW i \in 1..(n + 1) PROVE Step(h, i) = Step(g, i)
      <4>1. i = 1 \/ i - 1 \in 1..n
        OBVIOUS
      <4> HIDE DEF h
      <4> QED BY <3>2, <4>1
    <3>4. IsFlat(h, n + 1)
      BY <3>3
    <3> HIDE DEF h, IsFlat
    <3> QED BY <3>4
  <2> HIDE DEF Defined
  <2> QED BY <2>1, <2>2, Induction
<1>3. IsFlat(flat, length)
  BY <1>1, <1>2
<1>4. FlattenSeq(groups) = flat[length]
  BY <1>1 DEF FlattenSeq
<1>5. \A i \in 1..length : flat[i] = Step(flat, i)
  BY <1>3
<1> HIDE DEF flat
<1> QED BY <1>4, <1>5

\* So a sequence that grows by the groups, one after the other, ends as the flat one.
LEMMA FlatByPrefixes ==
  ASSUME NEW groups \in Seq(Seq(Nat)), groups # <<>>, NEW prefix,
         \A i \in 1..Len(groups) : prefix[i] = IF i = 1 THEN groups[i] ELSE prefix[i - 1] \o groups[i]
  PROVE  FlattenSeq(groups) = prefix[Len(groups)]
<1>1. PICK length \in Nat : length = Len(groups) /\ length # 0
  OBVIOUS
<1>2. PICK flat : /\ FlattenSeq(groups) = flat[Len(groups)]
                  /\ \A i \in 1..Len(groups) : flat[i] = IF i = 1 THEN groups[i] ELSE flat[i - 1] \o groups[i]
  BY FlatOfGroups, Zenon
<1> DEFINE Same == {n \in Nat : n + 1 <= length => flat[n + 1] = prefix[n + 1]}
<1>3. \A n \in Nat : n \in Same
  <2>1. 0 \in Same
    <3>1. 1 <= length => flat[1] = groups[1] /\ prefix[1] = groups[1]
      BY <1>1, <1>2
    <3> QED BY <3>1
  <2>2. ASSUME NEW n \in Nat, n \in Same PROVE n + 1 \in Same
    <3> SUFFICES ASSUME (n + 1) + 1 <= length PROVE flat[(n + 1) + 1] = prefix[(n + 1) + 1]
      OBVIOUS
    <3>1. flat[n + 1] = prefix[n + 1]
      BY <2>2
    <3>2. PICK i \in 1..length : i = (n + 1) + 1 /\ i - 1 = n + 1 /\ i # 1
      OBVIOUS
    <3>3. flat[i] = flat[i - 1] \o groups[i] /\ prefix[i] = prefix[i - 1] \o groups[i]
      BY <1>1, <1>2, <3>2
    <3> QED BY <3>1, <3>2, <3>3
  <2> HIDE DEF Same
  <2> QED BY <2>1, <2>2, Induction
<1>4. PICK n \in Nat : n + 1 = length
  <2>1. length - 1 \in Nat /\ (length - 1) + 1 = length
    BY <1>1
  <2> QED BY <2>1, Zenon
<1>5. n + 1 <= length /\ n \in Same
  BY <1>3, <1>4
<1> QED BY <1>1, <1>2, <1>4, <1>5

\* Groups of digits put end to end are digits.
LEMMA FlatDigits ==
  ASSUME NEW S, NEW groups \in Seq(Seq(S))
  PROVE  FlattenSeq(groups) \in Seq(S)
<1>1. CASE groups = <<>>
  BY <1>1 DEF FlattenSeq
<1>2. CASE groups # <<>>
  <2>1. PICK flat : /\ FlattenSeq(groups) = flat[Len(groups)]
                    /\ \A i \in 1..Len(groups) : flat[i] = IF i = 1 THEN groups[i] ELSE flat[i - 1] \o groups[i]
    BY <1>2, FlatOfGroups, Zenon
  <2>2. PICK length \in Nat : length = Len(groups) /\ length # 0 /\ \A i \in 1..length : groups[i] \in Seq(S)
    BY <1>2
  <2> DEFINE Flat == {n \in Nat : n + 1 <= length => flat[n + 1] \in Seq(S)}
  <2>3. \A n \in Nat : n \in Flat
    <3>1. 0 \in Flat
      <4>1. 1 <= length => flat[1] = groups[1]
        BY <2>1, <2>2
      <4> QED BY <2>2, <4>1
    <3>2. ASSUME NEW n \in Nat, n \in Flat PROVE n + 1 \in Flat
      <4> SUFFICES ASSUME (n + 1) + 1 <= length PROVE flat[(n + 1) + 1] \in Seq(S)
        OBVIOUS
      <4>1. flat[n + 1] \in Seq(S)
        BY <3>2
      <4>2. PICK i \in 1..length : i = (n + 1) + 1 /\ i - 1 = n + 1 /\ i # 1
        OBVIOUS
      <4>3. flat[i] = flat[i - 1] \o groups[i] /\ groups[i] \in Seq(S)
        BY <2>1, <2>2, <4>2
      <4>4. flat[i] \in Seq(S)
        BY <4>1, <4>2, <4>3
      <4> QED BY <4>2, <4>4
    <3> HIDE DEF Flat
    <3> QED BY <3>1, <3>2, Induction
  <2>4. PICK n \in Nat : n + 1 = length
    <3>1. length - 1 \in Nat /\ (length - 1) + 1 = length
      BY <2>2
    <3> QED BY <3>1, Zenon
  <2>5. n + 1 <= length /\ n \in Flat
    BY <2>3, <2>4
  <2> QED BY <2>1, <2>2, <2>4, <2>5
<1> QED BY <1>1, <1>2

\* The least of some numbers is one of them.
LEMMA MinOfNaturals ==
  ASSUME NEW S \in SUBSET Nat, S # {}
  PROVE  Min(S) \in S /\ \A n \in S : Min(S) <= n
<1> DEFINE R == {ss \in Nat \X Nat : ss[1] < ss[2]}
<1>1. IsWellFoundedOn(R, Nat)
  BY NatLessThanWellFounded DEF OpToRel
<1> HIDE DEF R
<1>2. PICK least \in S : \A n \in S : <<n, least>> \notin R
  BY <1>1, WFMin
<1>3. \A n \in S : ~(n < least)
  BY <1>2 DEF R
<1>4. \A n \in S : least <= n
  BY <1>3
<1> QED BY <1>4 DEF Min

\* What stands on either side of the decimal separator is digits.
LEMMA SidesAreDigits ==
  ASSUME NEW text \in Text, NEW from \in 1..(Len(text.groups) + 1), NEW to \in (from - 1)..Len(text.groups)
  PROVE  Digits(text, from, to) \in Seq(0..9)
<1> DEFINE groups == text.groups
           part == SubSeq(groups, from, to)
<1>1. groups \in Seq(Seq(0..9))
  BY DEF Text
<1> HIDE DEF groups
<1>2. from \in 1..(Len(groups) + 1) /\ to \in (from - 1)..Len(groups)
  BY DEF groups
<1>3. part \in Seq(Seq(0..9))
  BY <1>1, <1>2, SubSeqProperties
<1> HIDE DEF part
<1>4. FlattenSeq(part) \in Seq(0..9)
  BY <1>3, FlatDigits
<1> QED BY <1>4 DEF Digits, part, groups

\* A separator of the text, if there is a decimal one.
LEMMA DecimalMarksAreMarks ==
  ASSUME NEW text \in Text
  PROVE  DecimalMarks(text) \subseteq 1..Len(text.seps)
<1>1. DOMAIN text.seps = 1..Len(text.seps)
  BY DEF Text
<1> QED BY <1>1 DEF DecimalMarks, SameKind, Marks

\* The zeros in front are left out.
LEMMA SignificantAreDigits ==
  ASSUME NEW S, NEW whole \in Seq(S)
  PROVE  Significant(whole) \in Seq(S)
<1> DEFINE leading == {i \in DOMAIN whole : whole[i] # 0}
<1>1. CASE leading = {}
  BY <1>1 DEF Significant
<1>2. CASE leading # {}
  <2>1. leading \in SUBSET Nat /\ leading \subseteq 1..Len(whole)
    OBVIOUS
  <2>2. Min(leading) \in 1..Len(whole)
    BY <1>2, <2>1, MinOfNaturals
  <2> HIDE DEF leading
  <2>3. PICK m \in 1..Len(whole) : m = Min(leading)
    BY <2>2
  <2>4. SubSeq(whole, m, Len(whole)) \in Seq(S)
    BY SubSeqProperties
  <2> QED BY <1>2, <2>3, <2>4 DEF Significant, leading
<1> QED BY <1>1, <1>2

\* Digits, whatever zeros they begin with, and decimals make a number of cents.
LEMMA CentsAreNatural ==
  ASSUME NEW whole \in Seq(Nat), NEW fraction \in Seq(Nat), Len(fraction) <= Scale
  PROVE  Cents(whole, fraction) \in Nat
<1> DEFINE zeros == [i \in 1..(Scale - Len(fraction)) |-> 0]
<1>1. Significant(whole) \in Seq(Nat)
  BY SignificantAreDigits
<1>2. zeros \in Seq(Nat)
  <2>1. Scale - Len(fraction) \in Nat
    BY DEF Scale
  <2> QED BY <2>1
<1> HIDE DEF zeros
<1> DEFINE all == Significant(whole) \o fraction \o zeros
<1>3. all \in Seq(Nat)
  <2>1. Significant(whole) \o fraction \in Seq(Nat)
    BY <1>1
  <2> QED BY <1>2, <2>1
<1> HIDE DEF all
<1>4. Number(all) \in Nat
  BY <1>3, NumberIsNatural
<1> QED BY <1>4 DEF Cents, all, zeros

\* How a reading ends: nothing for a blank cell, a problem, or the cents of a whole part that
\* the column holds and of at most two decimals.
LEMMA ReadingCases ==
  ASSUME NEW text \in Text
  PROVE  \/ Blank(text) /\ NormalizeAmount(text) = Reading("none", {})
         \/ ~Blank(text) /\ \E problem \in {"NOT_NUMERIC", "AMOUNT_SCALE_EXCEEDED", "AMOUNT_OUT_OF_RANGE"} :
                              NormalizeAmount(text) = Reading(problem, {})
         \/ ~Blank(text) /\ \E whole, fraction \in Seq(0..9) :
                              /\ ~(Len(fraction) > Scale) /\ ~(Len(Significant(whole)) > IntegerDigits)
                              /\ NormalizeAmount(text) = Reading("none", {IF text.minus THEN -Cents(whole, fraction)
                                                                                      ELSE Cents(whole, fraction)})
<1> DEFINE points == DecimalMarks(text)
           count == Len(text.groups)
           mark == IF points = {} THEN count ELSE Min(points)
           whole == Digits(text, 1, mark)
           fraction == Digits(text, mark + 1, count)
           cents == Cents(whole, fraction)
           reading == NormalizeAmount(text)
<1>1. count \in Nat /\ Len(text.seps) \in Nat
      /\ (text = Word \/ count = Len(text.seps) + 1) /\ points \subseteq 1..Len(text.seps)
  <2>1. points \subseteq 1..Len(text.seps)
    BY DecimalMarksAreMarks
  <2> QED BY <2>1 DEF Text
<1>2. ASSUME text # Word PROVE mark \in 1..count
  <2>1. CASE points = {}
    BY <1>1, <1>2, <2>1
  <2>2. CASE points # {}
    <3>1. points \in SUBSET Nat
      BY <1>1
    <3>2. Min(points) \in points
      BY <2>2, <3>1, MinOfNaturals
    <3> QED BY <1>1, <1>2, <2>2, <3>2
  <2> QED BY <2>1, <2>2
<1>3. ASSUME text # Word PROVE whole \in Seq(0..9) /\ fraction \in Seq(0..9)
  <2>1. mark \in 1..count /\ 1 \in 1..(count + 1) /\ mark + 1 \in 1..(count + 1)
        /\ mark \in 0..count /\ count \in mark..count
    BY <1>1, <1>2, <1>3
  <2> HIDE DEF mark
  <2>2. whole \in Seq(0..9)
    BY <2>1, SidesAreDigits
  <2>3. fraction \in Seq(0..9)
    <3>1. PICK from \in 1..(count + 1) : from = mark + 1
      BY <2>1
    <3>2. count \in (from - 1)..count
      BY <1>1, <2>1, <3>1
    <3>3. Digits(text, from, count) \in Seq(0..9)
      BY <3>2, SidesAreDigits
    <3> QED BY <3>1, <3>3
  <2> QED BY <2>2, <2>3
<1>4. \/ Blank(text) /\ reading = Reading("none", {})
      \/ ~Blank(text) /\ \E problem \in {"NOT_NUMERIC", "AMOUNT_SCALE_EXCEEDED", "AMOUNT_OUT_OF_RANGE"} :
                           reading = Reading(problem, {})
      \/ /\ ~Blank(text) /\ text # Word /\ ~(Len(fraction) > Scale) /\ ~(Len(Significant(whole)) > IntegerDigits)
         /\ reading = Reading("none", {IF text.minus THEN -cents ELSE cents})
  <2> DEFINE unreadable == \/ text = Word
                           \/ Cardinality(points) > 1
                           \/ whole = <<>>
                           \/ points # {} /\ fraction = <<>>
             read == IF Blank(text) THEN Reading("none", {})
                     ELSE IF unreadable THEN Reading("NOT_NUMERIC", {})
                     ELSE IF Len(fraction) > Scale THEN Reading("AMOUNT_SCALE_EXCEEDED", {})
                     ELSE IF Len(Significant(whole)) > IntegerDigits THEN Reading("AMOUNT_OUT_OF_RANGE", {})
                     ELSE Reading("none", {IF text.minus THEN -cents ELSE cents})
  <2>1. reading = read
    BY DEF NormalizeAmount
  <2>2. text = Word => unreadable
    OBVIOUS
  <2> HIDE DEF points, count, mark, whole, fraction, cents, unreadable, reading
  <2> QED BY <2>1, <2>2
<1> HIDE DEF points, count, mark, whole, fraction
<1> QED BY <1>3, <1>4 DEF cents, reading

\* Reading an amount gives a problem, a whole number of cents, or nothing at all; nothing
\* at all exactly when the cell is blank.
LEMMA AmountReading ==
  ASSUME NEW text \in Text
  PROVE  /\ NormalizeAmount(text).problem \in {"none", "NOT_NUMERIC", "AMOUNT_SCALE_EXCEEDED", "AMOUNT_OUT_OF_RANGE"}
         /\ NormalizeAmount(text).problem # "none" => NormalizeAmount(text).value = {}
         /\ NormalizeAmount(text).value # {} => \E n \in Int : NormalizeAmount(text).value = {n}
         /\ Blank(text) <=> NormalizeAmount(text).problem = "none" /\ NormalizeAmount(text).value = {}
<1> DEFINE reading == NormalizeAmount(text)
<1> HIDE DEF reading
<1>1. CASE Blank(text) /\ reading = Reading("none", {})
  BY <1>1 DEF Reading, reading
<1>2. CASE ~Blank(text) /\ \E problem \in {"NOT_NUMERIC", "AMOUNT_SCALE_EXCEEDED", "AMOUNT_OUT_OF_RANGE"} :
                            reading = Reading(problem, {})
  BY <1>2 DEF Reading, reading
<1>3. CASE ~Blank(text) /\ \E whole, fraction \in Seq(0..9) :
                            /\ ~(Len(fraction) > Scale) /\ ~(Len(Significant(whole)) > IntegerDigits)
                            /\ reading = Reading("none", {IF text.minus THEN -Cents(whole, fraction)
                                                                      ELSE Cents(whole, fraction)})
  <2>1. PICK whole, fraction \in Seq(0..9) :
          /\ ~(Len(fraction) > Scale)
          /\ reading = Reading("none", {IF text.minus THEN -Cents(whole, fraction) ELSE Cents(whole, fraction)})
    BY <1>3
  <2>2. whole \in Seq(Nat) /\ fraction \in Seq(Nat) /\ Len(fraction) <= Scale
    BY <2>1 DEF Scale
  <2>3. Cents(whole, fraction) \in Nat
    BY <2>2, CentsAreNatural
  <2>4. (IF text.minus THEN -Cents(whole, fraction) ELSE Cents(whole, fraction)) \in Int
    BY <2>3
  <2>5. PICK n \in Int : reading = Reading("none", {n})
    BY <2>1, <2>4, Zenon
  <2>6. ~Blank(text)
    BY <1>3
  <2> QED BY <2>5, <2>6 DEF Reading, reading
<1> QED BY <1>1, <1>2, <1>3, ReadingCases DEF reading

(***************************************************************************)
(* Writing an amount, and reading it.                                      *)
(*                                                                         *)
(* The digits written are those of the amount, so the number they make is  *)
(* the amount: a number is built from its digits by the same steps that    *)
(* take it apart.  Grouping keeps them, and of the separators only the     *)
(* point is taken for one.                                                 *)
(***************************************************************************)

\* The powers of ten are what their definition says.
LEMMA TensDefined ==
  \A k \in 0..(IntegerDigits + Scale) : Tens[k] = IF k = 0 THEN 1 ELSE 10 * Tens[k - 1]
<1> DEFINE Step(g, k) == IF k = 0 THEN 1 ELSE 10 * g[k - 1]
           IsTens(g, n) == g = [k \in 0..n |-> Step(g, k)]
           Defined == {n \in Nat : \E g : IsTens(g, n)}
           top == IntegerDigits + Scale
<1>1. \A n \in Nat : n \in Defined
  <2>1. 0 \in Defined
    <3>1. IsTens([k \in 0..0 |-> 1], 0)
      BY \A k \in 0..0 : k = 0
    <3> QED BY <3>1
  <2>2. ASSUME NEW n \in Nat, n \in Defined PROVE n + 1 \in Defined
    <3>1. PICK g : IsTens(g, n)
      BY <2>2
    <3> DEFINE h == [k \in 0..(n + 1) |-> Step(g, k)]
    <3>2. ASSUME NEW k \in 0..n PROVE h[k] = g[k]
      <4>1. h[k] = Step(g, k)
        OBVIOUS
      <4>2. g[k] = Step(g, k)
        BY <3>1
      <4> QED BY <4>1, <4>2
    <3>3. ASSUME NEW k \in 0..(n + 1) PROVE Step(h, k) = Step(g, k)
      <4>1. k = 0 \/ k - 1 \in 0..n
        OBVIOUS
      <4> HIDE DEF h
      <4> QED BY <3>2, <4>1
    <3>4. IsTens(h, n + 1)
      BY <3>3
    <3> HIDE DEF h, IsTens
    <3> QED BY <3>4
  <2> HIDE DEF Defined
  <2> QED BY <2>1, <2>2, Induction
<1>2. top \in Nat
  BY AmountsAssumption DEF Scale
<1>3. Tens = CHOOSE g : IsTens(g, top)
  BY DEF Tens
<1>4. IsTens(Tens, top)
  <2> HIDE DEF IsTens, top
  <2> QED BY <1>1, <1>2, <1>3
<1> QED BY <1>4

\* Each is ten times the one before, and a positive number.
LEMMA TensGrow ==
  /\ Tens[0] = 1
  /\ \A k \in 0..(IntegerDigits + Scale) : Tens[k] \in Nat \ {0}
  /\ \A k \in 1..(IntegerDigits + Scale) : Tens[k] = 10 * Tens[k - 1]
<1> DEFINE top == IntegerDigits + Scale
           Positive == {k \in Nat : k <= top => Tens[k] \in Nat \ {0}}
<1>1. top \in Nat
  BY AmountsAssumption DEF Scale
<1>2. Tens[0] = 1
  <2>1. 0 \in 0..top
    BY <1>1
  <2> QED BY <2>1, TensDefined
<1>3. ASSUME NEW k \in 1..top PROVE Tens[k] = 10 * Tens[k - 1]
  <2>1. k \in 0..top /\ k # 0
    BY <1>1
  <2> QED BY <2>1, TensDefined
<1>4. \A k \in Nat : k \in Positive
  <2>1. 0 \in Positive
    BY <1>2
  <2>2. ASSUME NEW k \in Nat, k \in Positive PROVE k + 1 \in Positive
    <3> SUFFICES ASSUME k + 1 <= top PROVE Tens[k + 1] \in Nat \ {0}
      OBVIOUS
    <3>1. Tens[k] \in Nat \ {0}
      BY <1>1, <2>2
    <3>2. PICK next \in 1..top : next = k + 1 /\ next - 1 = k
      BY <1>1
    <3>3. Tens[next] = 10 * Tens[k]
      BY <1>3, <3>2
    <3>4. Tens[next] \in Nat \ {0}
      BY <3>1, <3>3
    <3> QED BY <3>2, <3>4
  <2> HIDE DEF Positive
  <2> QED BY <2>1, <2>2, Induction
<1> QED BY <1>1, <1>2, <1>3, <1>4

\* Dividing by ten and then by another number is dividing by both.
LEMMA DividedTwice ==
  ASSUME NEW n \in Nat, NEW t \in Nat \ {0}
  PROVE  n \div t \in Nat /\ n \div (10 * t) = (n \div t) \div 10
OBVIOUS

\* The powers of ten that two decimals need.
LEMMA SmallTens == Tens[0] = 1 /\ Tens[1] = 10 /\ Tens[2] = 100
<1>1. 1 \in 1..(IntegerDigits + Scale) /\ 2 \in 1..(IntegerDigits + Scale)
  BY AmountsAssumption DEF Scale
<1>2. Tens[1] = 10 * Tens[0] /\ Tens[2] = 10 * Tens[1]
  BY <1>1, TensGrow
<1> QED BY <1>2, TensGrow

\* How large a quotient is.
LEMMA QuotientBound ==
  ASSUME NEW n \in Nat, NEW t \in Nat \ {0}
  PROVE  /\ n \div t \in Nat /\ (n \div t = 0 <=> n < t)
         /\ n < 10 * t => n \div t < 10
<1>1. PICK q \in Nat, r \in 0..(t - 1) : n = q * t + r /\ q = n \div t
  <2>1. n \div t \in Nat /\ n % t \in 0..(t - 1) /\ n = ((n \div t) * t) + (n % t)
    OBVIOUS
  <2> QED BY <2>1
<1>2. q # 0 => q * t >= t
  OBVIOUS
<1>3. q >= 10 => q * t >= 10 * t
  OBVIOUS
<1> QED BY <1>1, <1>2, <1>3

\* A number is its last digit and ten times the others.
LEMMA LastDigit ==
  ASSUME NEW m \in Nat
  PROVE  m % 10 \in 0..9 /\ m = (10 * (m \div 10)) + (m % 10)
OBVIOUS

\* One digit more is ten times as much, and the digit.
LEMMA DigitStep ==
  ASSUME NEW n \in Nat, NEW k \in 1..(IntegerDigits + Scale), NEW i \in 1..k
  PROVE  /\ DigitsOf(n, k)[i] \in 0..9
         /\ n \div Tens[k - i] = 10 * (n \div Tens[k - (i - 1)]) + DigitsOf(n, k)[i]
<1>1. PICK low \in 0..(IntegerDigits + Scale) :
        low = k - i /\ low + 1 \in 1..(IntegerDigits + Scale) /\ low + 1 = k - (i - 1)
  BY AmountsAssumption DEF Scale
<1>2. PICK t \in Nat \ {0} : t = Tens[low]
  BY TensGrow
<1>3. Tens[low + 1] = 10 * t
  BY <1>1, <1>2, TensGrow
<1>4. PICK m \in Nat : m = n \div t
  BY DividedTwice
<1>5. n \div (10 * t) = m \div 10
  BY <1>4, DividedTwice
<1>6. DigitsOf(n, k)[i] = m % 10
  BY <1>1, <1>2, <1>4 DEF DigitsOf
<1>7. m % 10 \in 0..9 /\ m = (10 * (m \div 10)) + (m % 10)
  BY LastDigit
<1> QED BY <1>1, <1>2, <1>3, <1>4, <1>5, <1>6, <1>7

\* A number of that many digits does not begin with a zero, unless it is zero.
LEMMA FirstDigit ==
  ASSUME NEW n \in Nat, NEW w \in 1..IntegerDigits, n < Tens[w], w = 1 \/ n >= Tens[w - 1]
  PROVE  /\ DigitsOf(n, w) \in Seq(Nat) /\ Len(DigitsOf(n, w)) = w
         /\ DigitsOf(n, w)[1] = 0 <=> n = 0
         /\ n = 0 => w = 1
<1>1. w \in Nat /\ w - 1 \in 0..(IntegerDigits + Scale) /\ w \in 1..(IntegerDigits + Scale) /\ 1 \in 1..w
  BY AmountsAssumption DEF Scale
<1>2. PICK t \in Nat \ {0} : t = Tens[w - 1]
  BY <1>1, TensGrow
<1>3. Tens[w] = 10 * t
  BY <1>1, <1>2, TensGrow
<1>4. DigitsOf(n, w) \in Seq(Nat) /\ Len(DigitsOf(n, w)) = w
  <2>1. \A i \in 1..w : DigitsOf(n, w)[i] \in 0..9
    BY <1>1, DigitStep
  <2>2. DigitsOf(n, w) = [i \in 1..w |-> DigitsOf(n, w)[i]]
    BY DEF DigitsOf
  <2> QED BY <1>1, <2>1, <2>2
<1>5. n = 0 => w = 1
  BY <1>1, <1>2
<1>6. PICK first \in Nat : first = n \div t /\ (first = 0 <=> n < t)
  <2>1. n \div t \in Nat /\ (n \div t = 0 <=> n < t)
    BY <1>2, QuotientBound
  <2> QED BY <2>1, Zenon
<1>7. first < 10
  BY <1>2, <1>3, <1>6, QuotientBound
<1>8. DigitsOf(n, w)[1] = first
  <2>1. DigitsOf(n, w)[1] = (n \div t) % 10
    BY <1>1, <1>2 DEF DigitsOf
  <2>2. first % 10 = first
    BY <1>7
  <2> QED BY <1>6, <2>1, <2>2, Zenon
<1>9. n < t <=> n = 0
  <2>1. CASE w = 1
    BY <1>2, <2>1, TensGrow
  <2>2. CASE w # 1
    BY <1>2, <1>5, <2>2
  <2> QED BY <2>1, <2>2
<1> QED BY <1>4, <1>5, <1>6, <1>8, <1>9

\* The digits make the number, one after the other.
Makes(digits, n) ==
  \E prefix : /\ prefix[0] = 0 /\ prefix[Len(digits)] = n
             /\ \A i \in 1..Len(digits) : prefix[i] = 10 * prefix[i - 1] + digits[i]

\* The number that the significant digits make is the one they were taken from.
LEMMA SignificantDigits ==
  ASSUME NEW n \in Nat, NEW w \in 1..IntegerDigits, n < Tens[w], w = 1 \/ n >= Tens[w - 1]
  PROVE  /\ Significant(DigitsOf(n, w)) \in Seq(Nat) /\ Len(Significant(DigitsOf(n, w))) <= w
         /\ Makes(Significant(DigitsOf(n, w)), n)
<1> DEFINE digits == DigitsOf(n, w)
           leading == {i \in DOMAIN digits : digits[i] # 0}
<1>0. /\ digits \in Seq(Nat) /\ Len(digits) = w /\ DOMAIN digits = 1..w
      /\ (digits[1] = 0 <=> n = 0) /\ (n = 0 => w = 1)
  BY FirstDigit
<1> HIDE DEF digits
<1>1. CASE n = 0
  <2>1. Significant(digits) = <<>>
    BY <1>0, <1>1 DEF Significant
  <2> DEFINE prefix == [i \in {0} |-> 0]
  <2>2. prefix[0] = 0 /\ prefix[0] = n
    BY <1>1
  <2>3. Len(Significant(digits)) = 0 /\ \A i \in 1..0 : FALSE
    BY <2>1
  <2> HIDE DEF prefix
  <2>4. Makes(Significant(digits), n)
    BY <2>1, <2>2, <2>3 DEF Makes
  <2> QED BY <2>1, <2>3, <2>4 DEF digits
<1>2. CASE n # 0
  <2>1. 1 \in leading /\ leading \in SUBSET Nat
    BY <1>0, <1>2
  <2>2. Min(leading) = 1
    <3>1. Min(leading) \in leading /\ Min(leading) <= 1
      BY <2>1, MinOfNaturals
    <3>2. leading \subseteq 1..w
      BY <1>0
    <3> HIDE DEF leading
    <3>3. PICK least \in 1..w : least = Min(leading)
      BY <3>1, <3>2
    <3>4. least <= 1
      BY <3>1, <3>3
    <3> QED BY <3>3, <3>4
  <2>3. Significant(digits) = digits
    <3>1. Significant(digits) = SubSeq(digits, 1, Len(digits))
      BY <2>1, <2>2 DEF Significant
    <3> QED BY <1>0, <3>1, SubSeqFull
  <2> DEFINE prefix == [i \in 0..w |-> n \div Tens[w - i]]
  <2>4. prefix[0] = 0 /\ prefix[w] = n
    <3>1. PICK t \in Nat \ {0} : t = Tens[w]
      BY TensGrow, AmountsAssumption DEF Scale
    <3>2. n \div t = 0
      BY <3>1, QuotientBound
    <3>3. n \div 1 = n
      OBVIOUS
    <3>4. prefix[0] = n \div Tens[w] /\ prefix[w] = n \div Tens[0]
      OBVIOUS
    <3> HIDE DEF prefix
    <3> QED BY <3>1, <3>2, <3>3, <3>4, TensGrow
  <2>5. ASSUME NEW i \in 1..w PROVE prefix[i] = 10 * prefix[i - 1] + digits[i]
    <3>1. w \in 1..(IntegerDigits + Scale)
      BY AmountsAssumption DEF Scale
    <3>2. n \div Tens[w - i] = 10 * (n \div Tens[w - (i - 1)]) + digits[i]
      BY <3>1, DigitStep DEF digits
    <3>3. prefix[i] = n \div Tens[w - i] /\ prefix[i - 1] = n \div Tens[w - (i - 1)]
      OBVIOUS
    <3> HIDE DEF prefix
    <3> QED BY <3>2, <3>3
  <2> HIDE DEF prefix
  <2>6. Len(Significant(digits)) = w
    BY <1>0, <2>3
  <2>7. /\ prefix[Len(Significant(digits))] = n
        /\ \A i \in 1..Len(Significant(digits)) : prefix[i] = 10 * prefix[i - 1] + Significant(digits)[i]
    BY <2>3, <2>4, <2>5, <2>6
  <2>8. Significant(digits) \in Seq(Nat) /\ Len(Significant(digits)) <= w
    BY <1>0, <2>3
  <2>9. Makes(Significant(digits), n)
    BY <2>4, <2>7 DEF Makes
  <2> QED BY <2>8, <2>9 DEF digits
<1> QED BY <1>1, <1>2

\* Less than a hundred is two digits.
LEMMA TwoDigits ==
  ASSUME NEW c \in 0..99
  PROVE  /\ c \div 10 \in 0..9 /\ c % 10 \in 0..9 /\ c = (10 * (c \div 10)) + (c % 10)
         /\ (c \div 10) % 10 = c \div 10 /\ c \div 1 = c
         /\ c % 100 = c /\ c % 1 = 0
OBVIOUS

\* The cents are written as their tens and their units.
LEMMA CentsAreTwoDigits ==
  ASSUME NEW c \in 0..99
  PROVE  DigitsOf(c, 2) = <<c \div 10, c % 10>>
<1>1. Tens[0] = 1 /\ Tens[1] = 10
  BY SmallTens
<1>2. DigitsOf(c, 2)[1] = (c \div Tens[1]) % 10 /\ DigitsOf(c, 2)[2] = (c \div Tens[0]) % 10
  BY DEF DigitsOf
<1>3. DigitsOf(c, 2)[1] = c \div 10 /\ DigitsOf(c, 2)[2] = c % 10
  BY <1>1, <1>2, TwoDigits
<1>4. DigitsOf(c, 2) = [i \in 1..2 |-> DigitsOf(c, 2)[i]]
  BY DEF DigitsOf
<1>5. DigitsOf(c, 2) \in Seq(Nat) /\ Len(DigitsOf(c, 2)) = 2
  <2>1. \A i \in 1..2 : DigitsOf(c, 2)[i] \in Nat
    BY <1>3, TwoDigits
  <2> QED BY <1>4, <2>1
<1> QED BY <1>3, <1>5

\* The decimals with the zeros that are not written, and what a whole part and two digits are in cents.
Padded(fraction) == fraction \o [i \in 1..(Scale - Len(fraction)) |-> 0]
InCents(n, both) == 100 * n + (10 * both[1] + both[2])
TwoNumbers(both) == both \in Seq(Nat) /\ Len(both) = 2 /\ both[1] \in Nat /\ both[2] \in Nat

\* The decimals that are written, and the zeros that are not, are the cents.
LEMMA DecimalDigits ==
  ASSUME NEW c \in 0..99, NEW d \in 0..Scale, c % Tens[Scale - d] = 0
  PROVE  LET fraction == SubSeq(DigitsOf(c, 2), 1, d)
         IN  /\ fraction \in Seq(Nat) /\ Len(fraction) = d /\ TwoNumbers(Padded(fraction))
             /\ 10 * Padded(fraction)[1] + Padded(fraction)[2] = c
<1> DEFINE digits == DigitsOf(c, 2)
           fraction == SubSeq(digits, 1, d)
           zeros == [i \in 1..(Scale - Len(fraction)) |-> 0]
           both == fraction \o zeros
<1>1. PICK tens \in 0..9, units \in 0..9 :
        c = 10 * tens + units /\ digits = <<tens, units>> /\ c % 100 = c /\ c % 10 = units
  BY CentsAreTwoDigits, TwoDigits
<1> HIDE DEF digits
<1>2. digits \in Seq(Nat) /\ Len(digits) = 2 /\ digits[1] = tens /\ digits[2] = units /\ d \in 0..2
  <2>1. digits = <<tens, units>> /\ <<tens, units>> \in Seq(Nat)
    BY <1>1
  <2> QED BY <2>1 DEF Scale
<1>3. /\ fraction \in Seq(Nat) /\ Len(fraction) = d
      /\ d >= 1 => fraction[1] = tens
      /\ d = 2 => fraction[2] = units
  BY <1>2
<1> HIDE DEF fraction
<1>4. zeros \in Seq(Nat) /\ Len(zeros) = 2 - d /\ \A i \in 1..(2 - d) : zeros[i] = 0
  BY <1>2, <1>3 DEF Scale
<1> HIDE DEF zeros
<1>5. /\ both \in Seq(Nat) /\ Len(both) = 2
      /\ \A i \in 1..2 : both[i] = IF i <= d THEN fraction[i] ELSE zeros[i - d]
  BY <1>2, <1>3, <1>4
<1> HIDE DEF both
<1>6. both[1] = (IF d >= 1 THEN tens ELSE 0) /\ both[2] = (IF d = 2 THEN units ELSE 0)
  BY <1>2, <1>3, <1>4, <1>5
<1>7. d = 0 => c = 0
  BY <1>1, SmallTens DEF Scale
<1>8. d = 1 => units = 0
  BY <1>1, SmallTens DEF Scale
<1>9. both[1] \in Nat /\ both[2] \in Nat /\ 10 * both[1] + both[2] = c
  BY <1>1, <1>2, <1>6, <1>7, <1>8
<1>10. both = Padded(fraction)
  BY DEF both, zeros, Padded
<1>11. TwoNumbers(both)
  BY <1>5, <1>9 DEF TwoNumbers
<1> QED BY <1>3, <1>9, <1>10, <1>11, Zenon DEF fraction, digits

\* Putting sequences end to end.
LEMMA EndToEnd ==
  ASSUME NEW a \in Seq(Nat), NEW b \in Seq(Nat), NEW c \in Seq(Nat)
  PROVE  (a \o b) \o c = a \o (b \o c)
<1> DEFINE left == (a \o b) \o c
           right == a \o (b \o c)
<1>1. a \o b \in Seq(Nat) /\ b \o c \in Seq(Nat)
  OBVIOUS
<1>2. left \in Seq(Nat) /\ right \in Seq(Nat) /\ Len(left) = Len(right)
  BY <1>1
<1>3. \A i \in 1..Len(left) : left[i] = right[i]
  BY <1>1
<1> HIDE DEF left, right
<1>4. left = right
  BY <1>2, <1>3, SeqEqual
<1> QED BY <1>4 DEF left, right

\* Two digits put after others come last.
LEMMA TwoAtTheEnd ==
  ASSUME NEW a \in Seq(Nat), NEW b \in Seq(Nat), NEW length \in Nat, length = Len(a), Len(b) = 2
  PROVE  /\ a \o b \in Seq(Nat) /\ Len(a \o b) = length + 2
         /\ \A i \in 1..length : (a \o b)[i] = a[i]
         /\ (a \o b)[length + 1] = b[1] /\ (a \o b)[length + 2] = b[2]
<1>1. /\ a \o b \in Seq(Nat) /\ Len(a \o b) = Len(a) + Len(b)
      /\ \A i \in 1..(Len(a) + Len(b)) : (a \o b)[i] = IF i <= Len(a) THEN a[i] ELSE b[i - Len(a)]
  BY ConcatProperties
<1>2. length + 1 \in 1..(Len(a) + Len(b)) /\ ~(length + 1 <= Len(a)) /\ (length + 1) - Len(a) = 1
  OBVIOUS
<1>3. length + 2 \in 1..(Len(a) + Len(b)) /\ ~(length + 2 <= Len(a)) /\ (length + 2) - Len(a) = 2
  OBVIOUS
<1>4. (a \o b)[length + 1] = b[1] /\ (a \o b)[length + 2] = b[2]
  BY <1>1, <1>2, <1>3
<1>5. \A i \in 1..length : (a \o b)[i] = a[i]
  BY <1>1
<1> QED BY <1>1, <1>4, <1>5

\* Two more digits after a number.
LEMMA TwoMoreDigits ==
  ASSUME NEW front \in Seq(Nat), NEW n \in Nat, Makes(front, n),
         NEW both \in Seq(Nat), Len(both) = 2, both[1] \in Nat, both[2] \in Nat
  PROVE  Number(front \o both) = 10 * (10 * n + both[1]) + both[2]
<1> DEFINE all == front \o both
<1>1. PICK tens \in Nat : tens = both[1]
  OBVIOUS
<1>2. PICK units \in Nat : units = both[2]
  OBVIOUS
<1>3. PICK prefix : /\ prefix[0] = 0 /\ prefix[Len(front)] = n
                    /\ \A i \in 1..Len(front) : prefix[i] = 10 * prefix[i - 1] + front[i]
  BY DEF Makes
<1>4. PICK length \in Nat : length = Len(front)
  OBVIOUS
<1>5. /\ all \in Seq(Nat) /\ Len(all) = length + 2
      /\ \A i \in 1..length : all[i] = front[i]
      /\ all[length + 1] = tens /\ all[length + 2] = units
  BY <1>4, <1>1, <1>2, TwoAtTheEnd
<1> HIDE DEF all
<1> DEFINE longer == [i \in 0..(length + 2) |->
                        IF i <= length THEN prefix[i]
                        ELSE IF i = length + 1 THEN 10 * n + tens ELSE 10 * (10 * n + tens) + units]
<1>6. longer[0] = 0 /\ longer[length + 2] = 10 * (10 * n + tens) + units
  BY <1>3, <1>4
<1>7. ASSUME NEW i \in 1..(length + 2) PROVE longer[i] = 10 * longer[i - 1] + all[i]
  <2>1. CASE i <= length
    <3>1. i \in 1..length /\ i - 1 \in 0..(length + 2) /\ i - 1 <= length /\ i \in 0..(length + 2)
      <4> HIDE DEF longer
      <4> QED BY <2>1
    <3>2. longer[i] = prefix[i] /\ longer[i - 1] = prefix[i - 1]
      BY <2>1, <3>1
    <3>3. prefix[i] = 10 * prefix[i - 1] + front[i] /\ all[i] = front[i]
      BY <1>3, <1>4, <1>5, <3>1
    <3> HIDE DEF longer
    <3> QED BY <3>2, <3>3
  <2>2. CASE i = length + 1
    <3>1. length \in 0..(length + 2) /\ i \in 0..(length + 2) /\ i - 1 = length /\ ~(i <= length)
      <4> HIDE DEF longer
      <4> QED BY <2>2
    <3>2. longer[i] = 10 * n + tens /\ longer[i - 1] = prefix[length]
      BY <2>2, <3>1
    <3> HIDE DEF longer
    <3>3. prefix[length] = n /\ all[i] = tens
      BY <1>3, <1>4, <1>5, <2>2
    <3> QED BY <3>2, <3>3
  <2>3. CASE i = length + 2
    <3>1. i - 1 = length + 1 /\ i - 1 \in 0..(length + 2) /\ i \in 0..(length + 2) /\ ~(i <= length) /\ ~(i - 1 <= length)
      <4> HIDE DEF longer
      <4> QED BY <2>3
    <3>2. longer[i] = 10 * (10 * n + tens) + units /\ longer[i - 1] = 10 * n + tens
      BY <2>3, <3>1
    <3> HIDE DEF longer
    <3>3. all[i] = units
      BY <1>5, <2>3
    <3> QED BY <3>2, <3>3
  <2> QED BY <1>4, <2>1, <2>2, <2>3
<1>8. \A i \in 1..Len(all) : longer[i] = 10 * longer[i - 1] + all[i]
  BY <1>5, <1>7
<1> HIDE DEF longer
<1>9. Number(all) = longer[Len(all)]
  BY <1>5, <1>6, <1>8, NumberByPrefixes
<1> QED BY <1>5, <1>6, <1>9, <1>1, <1>2 DEF all

\* Tens and units after a number are added to a hundred times it.
LEMMA InHundreds ==
  ASSUME NEW n \in Nat, NEW tens \in Nat, NEW units \in Nat
  PROVE  10 * (10 * n + tens) + units = 100 * n + (10 * tens + units)
OBVIOUS

\* A number and its cents.
LEMMA WithCents ==
  ASSUME NEW front \in Seq(Nat), NEW n \in Nat, NEW both, TwoNumbers(both), Makes(front, n)
  PROVE  Number(front \o both) = InCents(n, both)
<1>1. both \in Seq(Nat) /\ Len(both) = 2 /\ both[1] \in Nat /\ both[2] \in Nat
  BY DEF TwoNumbers
<1>2. Number(front \o both) = 10 * (10 * n + both[1]) + both[2]
  BY <1>1, TwoMoreDigits
<1>3. 10 * (10 * n + both[1]) + both[2] = 100 * n + (10 * both[1] + both[2])
  BY <1>1, InHundreds
<1> QED BY <1>2, <1>3 DEF InCents

\* The cents of a whole part and of its decimals.
LEMMA CentsOfParts ==
  ASSUME NEW whole, NEW fraction \in Seq(Nat), NEW n \in Nat, Len(fraction) <= Scale,
         Significant(whole) \in Seq(Nat), Makes(Significant(whole), n), TwoNumbers(Padded(fraction))
  PROVE  Cents(whole, fraction) = InCents(n, Padded(fraction))
<1> DEFINE front == Significant(whole)
           zeros == [i \in 1..(Scale - Len(fraction)) |-> 0]
<1>1. zeros \in Seq(Nat)
  <2>1. Scale - Len(fraction) \in Nat
    BY DEF Scale
  <2> QED BY <2>1
<1>2. Cents(whole, fraction) = Number(front \o Padded(fraction))
  <2>1. Cents(whole, fraction) = Number((front \o fraction) \o zeros)
    BY DEF Cents
  <2> HIDE DEF front, zeros
  <2>2. (front \o fraction) \o zeros = front \o (fraction \o zeros)
    BY <1>1, EndToEnd DEF front
  <2> QED BY <2>1, <2>2 DEF Padded, zeros
<1>3. Number(front \o Padded(fraction)) = InCents(n, Padded(fraction))
  BY WithCents, Zenon
<1> QED BY <1>2, <1>3, Zenon

\* What is written is read: the whole part and the decimals make the cents they came from.
LEMMA CentsAsWritten ==
  ASSUME NEW n \in Nat, NEW w \in 1..IntegerDigits, n < Tens[w], w = 1 \/ n >= Tens[w - 1],
         NEW c \in 0..99, NEW d \in 0..Scale, c % Tens[Scale - d] = 0
  PROVE  Cents(DigitsOf(n, w), SubSeq(DigitsOf(c, 2), 1, d)) = 100 * n + c
<1> DEFINE whole == DigitsOf(n, w)
           fraction == SubSeq(DigitsOf(c, 2), 1, d)
<1>1. Significant(whole) \in Seq(Nat) /\ Makes(Significant(whole), n)
  BY SignificantDigits
<1>2. /\ fraction \in Seq(Nat) /\ Len(fraction) = d
      /\ TwoNumbers(Padded(fraction)) /\ 10 * Padded(fraction)[1] + Padded(fraction)[2] = c
  BY DecimalDigits, Zenon
<1> HIDE DEF whole, fraction
<1>3. Len(fraction) <= Scale
  BY <1>2
<1>4. Cents(whole, fraction) = InCents(n, Padded(fraction))
  BY <1>1, <1>2, <1>3, CentsOfParts, Zenon
<1>5. InCents(n, Padded(fraction)) = 100 * n + c
  BY <1>2 DEF InCents
<1> QED BY <1>4, <1>5 DEF whole, fraction

\* The width is how many digits there are, none of them a zero in front.
LEMMA WidthIs ==
  ASSUME NEW n \in Nat, n < Tens[IntegerDigits]
  PROVE  /\ Width(n) \in 1..IntegerDigits /\ n < Tens[Width(n)]
         /\ Width(n) = 1 \/ n >= Tens[Width(n) - 1]
<1> DEFINE Enough == {k \in 1..IntegerDigits : n < Tens[k]}
           Fits(k) == n < Tens[k] /\ (k = 1 \/ n >= Tens[k - 1])
<1>1. IntegerDigits \in Enough /\ Enough \in SUBSET Nat /\ Enough \subseteq 1..IntegerDigits
  BY AmountsAssumption
<1>2. Min(Enough) \in Enough /\ \A k \in Enough : Min(Enough) <= k
  BY <1>1, MinOfNaturals
<1>3. PICK w \in 1..IntegerDigits : w \in Enough /\ \A k \in Enough : w <= k
  BY <1>1, <1>2
<1>4. w = 1 \/ n >= Tens[w - 1]
  <2> SUFFICES ASSUME w # 1 PROVE n >= Tens[w - 1]
    OBVIOUS
  <2>1. PICK before \in 1..IntegerDigits : before = w - 1 /\ before < w /\ before \in 0..(IntegerDigits + Scale)
    BY AmountsAssumption DEF Scale
  <2>2. ~(n < Tens[before])
    BY <1>3, <2>1
  <2>3. PICK t \in Nat : t = Tens[before]
    BY <2>1, TensGrow
  <2>4. n >= t
    BY <2>2, <2>3
  <2> QED BY <2>1, <2>3, <2>4
<1>5. Fits(w)
  BY <1>3, <1>4
<1> HIDE DEF Fits
<1>6. Width(n) = CHOOSE k \in 1..IntegerDigits : Fits(k)
  BY DEF Width, Fits
<1>7. Width(n) \in 1..IntegerDigits /\ Fits(Width(n))
  BY <1>5, <1>6, Zenon
<1> QED BY <1>7 DEF Fits

\* How many groups of three there are, and how long the first is.
LEMMA GroupSizes ==
  ASSUME NEW length \in Nat \ {0}
  PROVE  /\ (length + 2) \div 3 \in Nat \ {0}
         /\ length - 3 * ((length + 2) \div 3 - 1) \in 1..3
         /\ length = 1 => (length + 2) \div 3 = 1
OBVIOUS

\* A function of the first numbers is a sequence.
LEMMA FunctionsAreSequences ==
  ASSUME NEW S, NEW n \in Nat, NEW s \in [1..n -> S]
  PROVE  s \in Seq(S) /\ Len(s) = n
OBVIOUS

\* Grouping digits cuts them into pieces that together are the digits; all but the first are of three.
LEMMA GroupsAreTheDigits ==
  ASSUME NEW digits \in Seq(Nat), digits # <<>>
  PROVE  LET groups == Grouped(digits)
         IN  /\ groups \in Seq(Seq(Nat)) /\ Len(groups) \in Nat \ {0} /\ groups # <<>>
             /\ Len(digits) = 1 => Len(groups) = 1
             /\ FlattenSeq(groups) = digits
             /\ Len(groups[1]) \in 1..3 /\ groups[1] \in Seq(Nat) /\ groups[1][1] = digits[1]
             /\ \A g \in 2..Len(groups) : Len(groups[g]) = 3 /\ groups[g] \in Seq(Nat)
<1> DEFINE groups == Grouped(digits)
<1>1. PICK length \in Nat \ {0} : length = Len(digits) /\ \A i \in 1..length : digits[i] \in Nat
  OBVIOUS
<1>2. PICK count \in Nat \ {0} : count = (Len(digits) + 2) \div 3 /\ length - 3 * (count - 1) \in 1..3
  BY <1>1, GroupSizes
<1>3. PICK first \in 1..3 : first = Len(digits) - 3 * (count - 1) /\ length = first + 3 * (count - 1)
  BY <1>1, <1>2
<1>4. groups = [g \in 1..count |-> IF g = 1 THEN SubSeq(digits, 1, first)
                                   ELSE SubSeq(digits, first + 3 * g - 5, first + 3 * g - 3)]
  BY <1>2, <1>3, Zenon DEF Grouped
<1> HIDE DEF groups
<1>5. /\ groups[1] = SubSeq(digits, 1, first)
      /\ \A g \in 2..count : groups[g] = SubSeq(digits, first + 3 * g - 5, first + 3 * g - 3)
  <2>1. 1 \in 1..count /\ \A g \in 2..count : g \in 1..count /\ g # 1
    OBVIOUS
  <2> QED BY <1>4, <2>1, Zenon
<1>6. groups[1] \in Seq(Nat) /\ Len(groups[1]) = first /\ groups[1][1] = digits[1]
  <2>1. 1 \in Int /\ first \in Int /\ 1 \in 1..first /\ \A i \in 1..first : digits[i] \in Nat
    BY <1>1, <1>3
  <2> QED BY <1>5, <2>1, SubSeqProperties
<1>7. ASSUME NEW g \in 2..count PROVE groups[g] \in Seq(Nat) /\ Len(groups[g]) = 3
  <2>1. PICK from \in Nat \ {0} : from = first + 3 * g - 5 /\ from + 2 = first + 3 * g - 3 /\ from + 2 <= length
    <3>1. /\ first + 3 * g - 5 \in Nat \ {0} /\ (first + 3 * g - 5) + 2 = first + 3 * g - 3
          /\ (first + 3 * g - 5) + 2 <= length
      BY <1>3
    <3> QED BY <3>1, Zenon
  <2>2. groups[g] = SubSeq(digits, from, from + 2)
    BY <1>5, <2>1
  <2>3. \A i \in from..(from + 2) : digits[i] \in Nat
    BY <1>1, <2>1
  <2>4. SubSeq(digits, from, from + 2) \in Seq(Nat) /\ Len(SubSeq(digits, from, from + 2)) = 3
    BY <2>3, SubSeqProperties
  <2> QED BY <2>2, <2>4
<1>8. groups \in Seq(Seq(Nat)) /\ Len(groups) = count
  <2>1. \A g \in 1..count : groups[g] \in Seq(Nat)
    BY <1>6, <1>7
  <2>2. groups = [g \in 1..count |-> groups[g]]
    BY <1>4
  <2>3. groups \in [1..count -> Seq(Nat)]
    BY <2>1, <2>2, Zenon
  <2> QED BY <2>3, FunctionsAreSequences
<1> DEFINE prefix == [g \in 1..count |-> SubSeq(digits, 1, first + 3 * (g - 1))]
<1>9. ASSUME NEW g \in 1..count PROVE prefix[g] = IF g = 1 THEN groups[g] ELSE prefix[g - 1] \o groups[g]
  <2>1. CASE g = 1
    <3>1. prefix[1] = SubSeq(digits, 1, first + 3 * (1 - 1)) /\ first + 3 * (1 - 1) = first
      OBVIOUS
    <3> HIDE DEF prefix
    <3> QED BY <1>5, <2>1, <3>1
  <2>2. CASE g # 1
    <3>1. g \in 2..count /\ g - 1 \in 1..count
      BY <2>2
    <3>2. PICK k \in 0..length : k = first + 3 * ((g - 1) - 1) /\ k + 1 = first + 3 * g - 5
      <4>1. first + 3 * ((g - 1) - 1) \in 0..length /\ (first + 3 * ((g - 1) - 1)) + 1 = first + 3 * g - 5
        BY <1>3, <3>1
      <4> QED BY <4>1, Zenon
    <3>6. PICK n \in k..length : n = first + 3 * (g - 1) /\ n = first + 3 * g - 3
      <4>1. first + 3 * (g - 1) \in k..length /\ first + 3 * (g - 1) = first + 3 * g - 3
        BY <1>3, <3>1, <3>2
      <4> QED BY <4>1, Zenon
    <3>3. SubSeq(digits, 1, k) \o SubSeq(digits, k + 1, n) = SubSeq(digits, 1, n)
      <4>1. digits \in Seq(Nat) /\ 1 \in 1..(Len(digits) + 1) /\ k \in (1 - 1)..Len(digits) /\ n \in k..Len(digits)
        BY <1>1
      <4> QED BY <4>1, ConcatAdjacentSubSeq
    <3>4. groups[g] = SubSeq(digits, k + 1, n)
      BY <1>5, <3>1, <3>2, <3>6
    <3>5. prefix[g] = SubSeq(digits, 1, n) /\ prefix[g - 1] = SubSeq(digits, 1, k)
      BY <3>1, <3>2, <3>6
    <3> HIDE DEF prefix
    <3> QED BY <2>2, <3>3, <3>4, <3>5
  <2> QED BY <2>1, <2>2
<1>10. prefix[count] = digits
  <2>1. prefix[count] = SubSeq(digits, 1, length)
    BY <1>3
  <2> QED BY <1>1, <2>1, SubSeqFull
<1>11. groups # <<>>
  BY <1>8
<1> HIDE DEF prefix
<1>12. FlattenSeq(groups) = digits
  BY <1>8, <1>9, <1>10, <1>11, FlatByPrefixes
<1>13. first \in 1..3
  OBVIOUS
<1>14. length = 1 => count = 1
  BY <1>1, <1>2, GroupSizes, Zenon
<1> QED BY <1>1, <1>6, <1>7, <1>8, <1>11, <1>12, <1>13, <1>14 DEF groups

\* A text of whole groups with the same separator between them and, if there are decimals, a
\* point and the decimals.
Laid(text, whole, fraction, group, point) ==
  /\ whole \in Seq(Seq(Nat)) /\ whole # <<>> /\ fraction \in Seq(Nat)
  /\ text.groups = IF fraction = <<>> THEN whole ELSE Append(whole, fraction)
  /\ DOMAIN text.seps = 1..(IF fraction = <<>> THEN Len(whole) - 1 ELSE Len(whole))
  /\ \A i \in 1..(Len(whole) - 1) : text.seps[i] = group
  /\ fraction # <<>> => text.seps[Len(whole)] = point

\* One group alone is its digits.
LEMMA OneGroup ==
  ASSUME NEW groups \in Seq(Seq(Nat)), NEW i \in 1..Len(groups)
  PROVE  FlattenSeq(SubSeq(groups, i, i)) = groups[i]
<1> DEFINE one == SubSeq(groups, i, i)
<1>1. i \in Int /\ \A j \in i..i : groups[j] \in Seq(Nat)
  OBVIOUS
<1>2. one \in Seq(Seq(Nat)) /\ Len(one) = 1 /\ one[1] = groups[i]
  BY <1>1, SubSeqProperties
<1> HIDE DEF one
<1>3. one # <<>> /\ \A k \in 1..Len(one) : k = 1
  <2>1. one # <<>>
    <3>1. Len(<<>>) = 0 /\ 0 # 1
      OBVIOUS
    <3> QED BY <1>2, <3>1, Zenon
  <2>2. \A k \in 1..1 : k = 1
    OBVIOUS
  <2> QED BY <1>2, <2>1, <2>2, Zenon
<1>4. FlattenSeq(one) = one[Len(one)]
  BY <1>2, <1>3, FlatByPrefixes, Zenon
<1> QED BY <1>2, <1>4 DEF one

\* What is left and right of the point.
LEMMA SidesOfThePoint ==
  ASSUME NEW text, NEW whole, NEW fraction, NEW group, NEW point, Laid(text, whole, fraction, group, point)
  PROVE  /\ Digits(text, 1, Len(whole)) = FlattenSeq(whole)
         /\ Digits(text, Len(whole) + 1, Len(text.groups)) = fraction
         /\ Len(text.groups) \in Nat \ {0} /\ Len(whole) \in Nat \ {0}
         /\ Len(text.groups) = IF fraction = <<>> THEN Len(whole) ELSE Len(whole) + 1
<1>1. /\ whole \in Seq(Seq(Nat)) /\ whole # <<>> /\ fraction \in Seq(Nat)
      /\ text.groups = IF fraction = <<>> THEN whole ELSE Append(whole, fraction)
  BY DEF Laid
<1>2. PICK m \in Nat \ {0} : m = Len(whole)
  BY <1>1
<1>3. CASE fraction = <<>>
  <2>1. text.groups = whole
    BY <1>1, <1>3
  <2>2. SubSeq(whole, 1, Len(whole)) = whole /\ SubSeq(whole, Len(whole) + 1, Len(whole)) = <<>>
    <3>1. SubSeq(whole, m + 1, m) = <<>>
      BY SubSeqEmpty
    <3> QED BY <1>1, <1>2, <3>1, SubSeqFull
  <2>3. FlattenSeq(<<>>) = <<>>
    BY DEF FlattenSeq
  <2> QED BY <1>2, <1>3, <2>1, <2>2, <2>3 DEF Digits
<1>4. CASE fraction # <<>>
  <2>1. text.groups = Append(whole, fraction)
    BY <1>1, <1>4
  <2> DEFINE all == Append(whole, fraction)
  <2>2. /\ all \in Seq(Seq(Nat)) /\ Len(all) = m + 1
        /\ \A i \in 1..m : all[i] = whole[i]
        /\ all[m + 1] = fraction
    BY <1>1, <1>2, AppendProperties
  <2> HIDE DEF all
  <2>3. SubSeq(all, 1, m) = whole
    <3>1. 1 \in Int /\ m \in Int /\ \A i \in 1..m : all[i] \in Seq(Nat)
      BY <2>2
    <3>2. /\ SubSeq(all, 1, m) \in Seq(Seq(Nat)) /\ Len(SubSeq(all, 1, m)) = m
          /\ \A i \in 1..m : SubSeq(all, 1, m)[i] = all[i]
      BY <3>1, SubSeqProperties
    <3> DEFINE front == SubSeq(all, 1, m)
    <3> HIDE DEF front
    <3>3. front \in Seq(Seq(Nat)) /\ Len(front) = Len(whole) /\ \A i \in 1..Len(front) : front[i] = whole[i]
      BY <1>2, <2>2, <3>2 DEF front
    <3>4. front = whole
      BY <1>1, <3>3, SeqEqual
    <3> QED BY <3>4 DEF front
  <2>4. FlattenSeq(SubSeq(all, m + 1, m + 1)) = fraction
    <3>1. m + 1 \in 1..Len(all)
      BY <2>2
    <3> QED BY <2>2, <3>1, OneGroup
  <2>5. /\ Digits(text, 1, m) = FlattenSeq(SubSeq(all, 1, m))
        /\ Digits(text, m + 1, m + 1) = FlattenSeq(SubSeq(all, m + 1, m + 1))
    BY <2>1 DEF Digits, all
  <2>6. Len(text.groups) = m + 1
    BY <2>1, <2>2 DEF all
  <2>7. Digits(text, 1, Len(whole)) = FlattenSeq(whole) /\ Digits(text, Len(whole) + 1, Len(text.groups)) = fraction
    BY <1>2, <2>3, <2>4, <2>5, <2>6, Zenon
  <2> QED BY <1>2, <1>4, <2>6, <2>7
<1> QED BY <1>3, <1>4

\* A set of two different values, of one and of none.
LEMMA Kinds ==
  ASSUME NEW a, NEW b, a # b
  PROVE  Cardinality({a, b}) = 2 /\ Cardinality({a}) = 1 /\ Cardinality({}) = 0
<1>1. IsFiniteSet({a}) /\ Cardinality({a}) = 1 /\ Cardinality({}) = 0
  BY FS_Singleton, FS_EmptySet
<1>2. Cardinality({a} \cup {b}) = 1 + 1
  BY <1>1, FS_AddElement
<1>3. {a} \cup {b} = {a, b}
  OBVIOUS
<1> QED BY <1>1, <1>2, <1>3

\* No decimals, and groups that spaces separate or one group alone: no mark at all.
LEMMA NoMark ==
  ASSUME NEW text, NEW whole, NEW fraction, NEW group, NEW point, Laid(text, whole, fraction, group, point),
         fraction = <<>>, Len(whole) = 1 \/ group = Space
  PROVE  Marks(text) = {} /\ DecimalMarks(text) = {}
<1>1. DOMAIN text.seps = 1..(Len(whole) - 1) /\ \A i \in 1..(Len(whole) - 1) : text.seps[i] = group
  BY DEF Laid
<1>2. Marks(text) = {}
  <2>1. \A i \in DOMAIN text.seps : i \in 1..(Len(whole) - 1) /\ text.seps[i] = group
    BY <1>1
  <2>2. CASE group = Space
    BY <2>1, <2>2 DEF Marks
  <2>3. CASE Len(whole) = 1
    <3>1. \A i \in 1..(1 - 1) : FALSE
      OBVIOUS
    <3> QED BY <2>1, <2>3, <3>1 DEF Marks
  <2> QED BY <2>2, <2>3
<1>3. {text.seps[i] : i \in Marks(text)} = {}
  BY <1>2
<1>4. ~Mixed(text)
  <2>1. Cardinality({text.seps[i] : i \in Marks(text)}) = 0
    BY <1>3, FS_EmptySet, Zenon
  <2> QED BY <2>1 DEF Mixed
<1> QED BY <1>2, <1>4 DEF DecimalMarks

\* No decimals, and groups of three after the first that marks separate: they separate thousands.
LEMMA ThousandsOnly ==
  ASSUME NEW text, NEW whole, NEW fraction, NEW group, NEW point, Laid(text, whole, fraction, group, point),
         fraction = <<>>, Len(whole) # 1, group # Space,
         Len(whole[1]) \in 1..3, whole[1][1] # 0, Len(whole[2]) = 3
  PROVE  DecimalMarks(text) = {}
<1>1. PICK m \in Nat \ {0, 1} : m = Len(whole)
  <2>1. Len(whole) \in Nat \ {0}
    BY SidesOfThePoint
  <2> QED BY <2>1
<1>2. DOMAIN text.seps = 1..(m - 1) /\ \A i \in 1..(m - 1) : text.seps[i] = group
  BY <1>1 DEF Laid
<1>3. Marks(text) = 1..(m - 1)
  BY <1>2 DEF Marks
<1>4. {text.seps[i] : i \in Marks(text)} = {group}
  <2>1. 1 \in 1..(m - 1)
    OBVIOUS
  <2> QED BY <1>2, <1>3, <2>1, Zenon
<1>5. ~Mixed(text)
  <2>1. Cardinality({text.seps[i] : i \in Marks(text)}) = 1
    BY <1>4, FS_Singleton, Zenon
  <2> QED BY <2>1 DEF Mixed
<1>6. Cardinality(Marks(text)) = m - 1
  <2>1. Cardinality(1..(m - 1)) = (m - 1) - 1 + 1
    <3>1. 1 \in Int /\ m - 1 \in Int /\ ~(1 > m - 1)
      OBVIOUS
    <3> QED BY <3>1, FS_Interval
  <2> QED BY <1>3, <2>1
<1>7. m = 2 => LooksLikeThousands(text, 1)
  <2> SUFFICES ASSUME m = 2 PROVE LooksLikeThousands(text, 1)
    OBVIOUS
  <2>1. text.groups = whole /\ whole \in Seq(Seq(Nat)) /\ 1 \in 1..Len(whole) /\ 2 \in 1..Len(whole)
    <3>1. whole \in Seq(Seq(Nat)) /\ text.groups = whole
      BY DEF Laid
    <3> QED BY <1>1, <3>1
  <2>2. FlattenSeq(SubSeq(whole, 1, 1)) = whole[1] /\ FlattenSeq(SubSeq(whole, 2, 2)) = whole[2]
    BY <2>1, OneGroup
  <2>3. Digits(text, 1, 1) = whole[1] /\ Digits(text, 1 + 1, Len(text.groups)) = whole[2]
    <3>1. 1 + 1 = 2 /\ Len(text.groups) = 2
      BY <1>1, <2>1
    <3> QED BY <2>1, <2>2, <3>1 DEF Digits
  <2> QED BY <2>3 DEF LooksLikeThousands
<1>8. ASSUME NEW i \in Marks(text) PROVE ~(Cardinality(Marks(text)) = 1 /\ ~LooksLikeThousands(text, i))
  <2>1. m = 2 => i = 1
    BY <1>3
  <2>2. CASE m = 2
    BY <1>7, <2>1, <2>2
  <2>3. CASE m # 2
    BY <1>6, <2>3
  <2> QED BY <2>2, <2>3
<1> QED BY <1>5, <1>8 DEF DecimalMarks

\* Decimals after groups that spaces separate, or after one group alone: the only mark is the point.
LEMMA OnlyThePoint ==
  ASSUME NEW text, NEW whole, NEW fraction, NEW group, NEW point, Laid(text, whole, fraction, group, point),
         fraction # <<>>, Len(fraction) <= Scale, point # Space, Len(whole) = 1 \/ group = Space
  PROVE  DecimalMarks(text) = {Len(whole)}
<1>1. PICK m \in Nat \ {0} : m = Len(whole)
  BY DEF Laid
<1>2. DOMAIN text.seps = 1..m /\ \A i \in 1..(m - 1) : text.seps[i] = group
  BY <1>1 DEF Laid
<1>3. text.seps[m] = point
  BY <1>1 DEF Laid
<1>4. Marks(text) = {m}
  <2>1. \A i \in 1..m : i = m \/ i \in 1..(m - 1)
    OBVIOUS
  <2>2. m \in 1..m /\ (m = 1 => \A i \in 1..(m - 1) : FALSE)
    OBVIOUS
  <2> QED BY <1>1, <1>2, <1>3, <2>1, <2>2 DEF Marks
<1>5. {text.seps[i] : i \in Marks(text)} = {point}
  BY <1>3, <1>4
<1>6. ~Mixed(text) /\ Cardinality(Marks(text)) = 1
  <2>1. Cardinality({text.seps[i] : i \in Marks(text)}) = 1 /\ Cardinality(Marks(text)) = 1
    BY <1>4, <1>5, FS_Singleton, Zenon
  <2> QED BY <2>1 DEF Mixed
<1>7. ~LooksLikeThousands(text, m)
  <2>1. Digits(text, m + 1, Len(text.groups)) = fraction
    BY <1>1, SidesOfThePoint
  <2>2. Len(fraction) # 3
    <3>1. fraction \in Seq(Nat)
      BY DEF Laid
    <3>2. PICK length \in Nat : length = Len(fraction)
      BY <3>1
    <3>3. length <= 2 => length # 3
      OBVIOUS
    <3> QED BY <3>2, <3>3, Zenon DEF Scale
  <2> QED BY <2>1, <2>2 DEF LooksLikeThousands
<1> QED BY <1>1, <1>4, <1>6, <1>7 DEF DecimalMarks

\* Decimals after groups that the other mark separates: the point is the mark on the right.
LEMMA PointOnTheRight ==
  ASSUME NEW text, NEW whole, NEW fraction, NEW group, NEW point, Laid(text, whole, fraction, group, point),
         fraction # <<>>, point # Space, group # Space, group # point, Len(whole) # 1
  PROVE  DecimalMarks(text) = {Len(whole)}
<1>1. PICK m \in Nat \ {0, 1} : m = Len(whole)
  <2>1. Len(whole) \in Nat \ {0}
    BY SidesOfThePoint
  <2> QED BY <2>1
<1>2. DOMAIN text.seps = 1..m /\ \A i \in 1..(m - 1) : text.seps[i] = group
  BY <1>1 DEF Laid
<1>3. text.seps[m] = point
  BY <1>1 DEF Laid
<1>4. (\A i \in 1..m : i = m \/ i \in 1..(m - 1)) /\ 1 \in 1..(m - 1) /\ m \in 1..m /\ 1..(m - 1) \subseteq 1..m
      /\ m \notin 1..(m - 1)
  OBVIOUS
<1>5. Marks(text) = 1..m
  BY <1>2, <1>3, <1>4 DEF Marks
<1>6. {text.seps[i] : i \in Marks(text)} = {group, point}
  BY <1>2, <1>3, <1>4, <1>5
<1>7. Mixed(text)
  <2>1. Cardinality({text.seps[i] : i \in Marks(text)}) = 2
    <3> DEFINE kinds == {text.seps[i] : i \in Marks(text)}
               both == {group, point}
    <3>1. Cardinality(both) = 2
      BY Kinds
    <3>2. kinds = both
      BY <1>6
    <3> HIDE DEF kinds, both
    <3>3. Cardinality(kinds) = 2
      BY <3>1, <3>2
    <3> QED BY <3>3 DEF kinds
  <2> QED BY <2>1 DEF Mixed
<1>8. Max(Marks(text)) = m
  <2>1. PICK n \in Nat : n + 1 = m
    <3>1. m - 1 \in Nat /\ (m - 1) + 1 = m
      OBVIOUS
    <3> QED BY <3>1, Zenon
  <2>2. Max(1..(n + 1)) = n + 1
    BY FirstNumbers
  <2> QED BY <1>5, <2>1, <2>2
<1>9. SameKind(text, m) = {m}
  BY <1>2, <1>3, <1>4 DEF SameKind
<1> QED BY <1>1, <1>7, <1>8, <1>9 DEF DecimalMarks

\* The point differs from what separates the groups, and is no space.
LEMMA StylesDiffer ==
  ASSUME NEW style \in Styles
  PROVE  style.group # style.point /\ style.point # Space
<1>1. style.group # style.point
  BY Zenon DEF Styles
<1>2. style.point \in {",", "."}
  BY Zenon DEF Styles
<1> QED BY <1>1, <1>2, Zenon DEF Space

\* The separators of a text: the same between all the groups, then the point if there is one.
LEMMA SeparatorsInARow ==
  ASSUME NEW n \in Nat, NEW group, NEW point
  PROVE  LET row == [i \in 1..n |-> group]
         IN  /\ DOMAIN (row \o <<>>) = 1..n /\ \A i \in 1..n : (row \o <<>>)[i] = group
             /\ DOMAIN (row \o <<point>>) = 1..(n + 1) /\ \A i \in 1..n : (row \o <<point>>)[i] = group
             /\ (row \o <<point>>)[n + 1] = point
<1> DEFINE S == {group, point}
           row == [i \in 1..n |-> group]
           last == <<point>>
<1>1. row \in Seq(S) /\ Len(row) = n /\ \A i \in 1..n : row[i] = group
  <2>1. row \in [1..n -> S] /\ \A i \in 1..n : row[i] = group
    OBVIOUS
  <2> HIDE DEF row, S
  <2> QED BY <2>1, FunctionsAreSequences
<1>2. last \in Seq(S) /\ Len(last) = 1 /\ last[1] = point
  OBVIOUS
<1> HIDE DEF row, S, last
<1>3. row \o <<>> = row
  BY <1>1, ConcatEmptySeq
<1>4. /\ row \o last \in Seq(S) /\ Len(row \o last) = n + 1
      /\ \A i \in 1..(n + 1) : (row \o last)[i] = IF i <= n THEN row[i] ELSE last[i - n]
  BY <1>1, <1>2, ConcatProperties
<1>5. n + 1 \in 1..(n + 1) /\ ~(n + 1 <= n) /\ (n + 1) - n = 1
  OBVIOUS
<1>6. (row \o last)[n + 1] = point
  BY <1>2, <1>4, <1>5
<1>7. \A i \in 1..n : (row \o last)[i] = group
  BY <1>1, <1>4
<1>8. DOMAIN row = 1..n /\ DOMAIN (row \o last) = 1..(n + 1)
  BY <1>1, <1>4, LenProperties
<1> QED BY <1>1, <1>3, <1>6, <1>7, <1>8 DEF row, last

\* A size is its whole part and its cents, and decimals that express the amount express its size.
LEMMA PartsOfASize ==
  ASSUME NEW cents \in Int
  PROVE  /\ Size(cents) \in Nat /\ Size(cents) \div 100 \in Nat /\ Size(cents) % 100 \in 0..99
         /\ Size(cents) = 100 * (Size(cents) \div 100) + (Size(cents) % 100)
         /\ cents = IF cents < 0 THEN -Size(cents) ELSE Size(cents)
<1>1. PICK size \in Nat : size = Size(cents) /\ cents = IF cents < 0 THEN -size ELSE size
  <2>1. Size(cents) \in Nat /\ cents = IF cents < 0 THEN -Size(cents) ELSE Size(cents)
    BY DEF Size
  <2> QED BY <2>1, Zenon
<1>2. size \div 100 \in Nat /\ size % 100 \in 0..99 /\ size = 100 * (size \div 100) + (size % 100)
  OBVIOUS
<1> QED BY <1>1, <1>2, Zenon

\* Ten or a hundred divides the cents of a size when it divides the amount.
LEMMA TenthsOfASize ==
  ASSUME NEW cents \in Int, NEW size \in Nat, cents = size \/ cents = -size
  PROVE  /\ (size % 100) % 1 = 0
         /\ cents % 10 = 0 => (size % 100) % 10 = 0
         /\ cents % 100 = 0 => (size % 100) % 100 = 0
<1>1. PICK q \in Int, r \in 0..99 : size = 100 * q + r /\ r = size % 100
  <2>1. size \div 100 \in Int /\ size % 100 \in 0..99 /\ size = 100 * (size \div 100) + (size % 100)
    OBVIOUS
  <2> QED BY <2>1
<1>2. r % 1 = 0
  OBVIOUS
<1>3. cents % 10 = 0 => r % 10 = 0
  BY <1>1
<1>4. cents % 100 = 0 => r % 100 = 0
  BY <1>1
<1> QED BY <1>1, <1>2, <1>3, <1>4

\* So the decimals that are left out of an amount they express are zeros.
LEMMA ExpressibleCents ==
  ASSUME NEW cents \in Int, NEW d \in 0..Scale, Expressible(cents, d)
  PROVE  (Size(cents) % 100) % Tens[Scale - d] = 0
<1>1. PICK size \in Nat : size = Size(cents) /\ (cents = size \/ cents = -size)
  <2>1. Size(cents) \in Nat /\ (cents = Size(cents) \/ cents = -Size(cents))
    BY DEF Size
  <2> QED BY <2>1, Zenon
<1>2. Tens[Scale - d] \in {1, 10, 100}
  <2>1. Scale - d \in {0, 1, 2}
    BY DEF Scale
  <2> QED BY <2>1, SmallTens
<1>3. PICK t \in {1, 10, 100} : t = Tens[Scale - d]
  BY <1>2
<1>4. cents % t = 0
  BY <1>3 DEF Expressible
<1>5. (size % 100) % t = 0
  BY <1>1, <1>4, TenthsOfASize
<1> QED BY <1>1, <1>3, <1>5

\* The decimal separator of a text that is written in one of the styles.
LEMMA PointOfLaid ==
  ASSUME NEW text, NEW whole, NEW fraction, NEW group, NEW point, Laid(text, whole, fraction, group, point),
         Len(fraction) <= Scale, point # Space, group # point,
         Len(whole) # 1 => Len(whole[1]) \in 1..3 /\ whole[1][1] # 0 /\ Len(whole[2]) = 3
  PROVE  DecimalMarks(text) = IF fraction = <<>> THEN {} ELSE {Len(whole)}
<1>1. CASE fraction = <<>> /\ (Len(whole) = 1 \/ group = Space)
  BY <1>1, NoMark, Zenon
<1>2. CASE fraction = <<>> /\ Len(whole) # 1 /\ group # Space
  BY <1>2, ThousandsOnly, Zenon
<1>3. CASE fraction # <<>> /\ (Len(whole) = 1 \/ group = Space)
  BY <1>3, OnlyThePoint, Zenon
<1>4. CASE fraction # <<>> /\ Len(whole) # 1 /\ group # Space
  BY <1>4, PointOnTheRight, Zenon
<1> QED BY <1>1, <1>2, <1>3, <1>4, Zenon

\* Such a text, with digits in its whole part, is no word and no blank.
LEMMA LaidIsRead ==
  ASSUME NEW text, NEW whole, NEW fraction, NEW group, NEW point, Laid(text, whole, fraction, group, point),
         point # Space, FlattenSeq(whole) # <<>>
  PROVE  text # Word /\ ~Blank(text)
<1>1. /\ Digits(text, 1, Len(whole)) = FlattenSeq(whole)
      /\ Len(text.groups) \in Nat \ {0} /\ Len(whole) \in Nat \ {0}
      /\ Len(text.groups) = IF fraction = <<>> THEN Len(whole) ELSE Len(whole) + 1
  BY SidesOfThePoint
<1>2. text # Word
  <2> SUFFICES ASSUME text = Word PROVE FALSE
    OBVIOUS
  <2>1. text.groups = <<>>
    BY DEF Word
  <2>2. Len(text.groups) = 0
    BY <2>1
  <2> QED BY <1>1, <2>2
<1>3. CASE fraction = <<>>
  <2>1. Digits(text, 1, Len(text.groups)) # <<>>
    BY <1>1, <1>3
  <2> QED BY <1>2, <2>1 DEF Blank
<1>4. CASE fraction # <<>>
  <2>1. Len(whole) \in DOMAIN text.seps
    <3>1. DOMAIN text.seps = 1..Len(whole)
      BY <1>4 DEF Laid
    <3> QED BY <1>1, <3>1
  <2>2. text.seps[Len(whole)] = point
    BY <1>4 DEF Laid
  <2>3. Len(whole) \in Marks(text)
    BY <2>1, <2>2 DEF Marks
  <2> QED BY <1>2, <2>3 DEF Blank
<1> QED BY <1>2, <1>3, <1>4

\* It is read as the cents of its whole part and of its decimals, if they are not too many.
LEMMA ReadingOfLaid ==
  ASSUME NEW text, NEW whole, NEW fraction, NEW group, NEW point, Laid(text, whole, fraction, group, point),
         point # Space, Len(fraction) <= Scale,
         DecimalMarks(text) = IF fraction = <<>> THEN {} ELSE {Len(whole)},
         FlattenSeq(whole) # <<>>, Len(Significant(FlattenSeq(whole))) \in Nat,
         Len(Significant(FlattenSeq(whole))) <= IntegerDigits
  PROVE  NormalizeAmount(text) =
           Reading("none", {IF text.minus THEN -Cents(FlattenSeq(whole), fraction)
                                          ELSE Cents(FlattenSeq(whole), fraction)})
<1> DEFINE points == DecimalMarks(text)
           count == Len(text.groups)
           mark == IF points = {} THEN count ELSE Min(points)
           left == Digits(text, 1, mark)
           right == Digits(text, mark + 1, count)
<1>1. /\ Digits(text, 1, Len(whole)) = FlattenSeq(whole)
      /\ Digits(text, Len(whole) + 1, count) = fraction
      /\ count \in Nat \ {0} /\ Len(whole) \in Nat \ {0}
      /\ count = IF fraction = <<>> THEN Len(whole) ELSE Len(whole) + 1
  BY SidesOfThePoint
<1>2. mark = Len(whole)
  <2>1. CASE fraction = <<>>
    BY <1>1, <2>1
  <2>2. CASE fraction # <<>>
    <3>1. points = {Len(whole)} /\ points # {} /\ points \in SUBSET Nat
      BY <1>1, <2>2
    <3>2. Min(points) \in points
      BY <3>1, MinOfNaturals
    <3> QED BY <3>1, <3>2
  <2> QED BY <2>1, <2>2
<1>3. left = FlattenSeq(whole) /\ right = fraction
  BY <1>1, <1>2
<1>4. text # Word /\ ~Blank(text)
  BY LaidIsRead
<1>5. ~(Cardinality(points) > 1)
  <2>1. Cardinality(points) \in {0, 1}
    <3>1. CASE fraction = <<>>
      BY <3>1, FS_EmptySet
    <3>2. CASE fraction # <<>>
      BY <3>2, FS_Singleton
    <3> QED BY <3>1, <3>2
  <2> QED BY <2>1
<1>6. ~(points # {} /\ right = <<>>)
  BY <1>3
<1>7. ~(Len(right) > Scale)
  <2>1. fraction \in Seq(Nat)
    BY DEF Laid
  <2> QED BY <1>3, <2>1 DEF Scale
<1>8. ~(Len(Significant(left)) > IntegerDigits)
  BY <1>3, AmountsAssumption
<1>9. ~(text = Word \/ Cardinality(points) > 1 \/ left = <<>> \/ (points # {} /\ right = <<>>))
  BY <1>3, <1>4, <1>5, <1>6
<1>10. NormalizeAmount(text) = Reading("none", {IF text.minus THEN -Cents(left, right) ELSE Cents(left, right)})
  <2> HIDE DEF points
  <2> QED BY <1>4, <1>7, <1>8, <1>9, Zenon DEF NormalizeAmount, points
<1> QED BY <1>3, <1>10

\* The digits of the whole part of an amount, and the decimals that are written.
WholeDigits(cents) == DigitsOf(Size(cents) \div 100, Width(Size(cents) \div 100))
Decimals(cents, d) == SubSeq(DigitsOf(Size(cents) % 100, 2), 1, d)

\* The digits are laid out in groups that could be thousands if there are several.
LaidOut(text, digits, fraction, style) ==
  \E whole : /\ Laid(text, whole, fraction, style.group, style.point)
             /\ FlattenSeq(whole) = digits
             /\ Len(whole) # 1 => Len(whole[1]) \in 1..3 /\ whole[1][1] # 0 /\ Len(whole[2]) = 3

\* Writing an amount lays it out: its digits in groups, and as many decimals as are written.
LEMMA WrittenIsLaid ==
  ASSUME NEW cents \in Int, NEW style \in Styles, NEW d \in 0..Scale, NEW digits \in Seq(Nat),
         WholeDigits(cents) = digits, digits # <<>>, Len(digits) # 1 => digits[1] # 0,
         NEW fraction \in Seq(Nat), Decimals(cents, d) = fraction, Len(fraction) = d
  PROVE  LaidOut(Written(cents, style, d), digits, fraction, style) /\ Written(cents, style, d).minus = (cents < 0)
<1> DEFINE text == Written(cents, style, d)
           whole == IF style.group = Ungrouped THEN <<digits>> ELSE Grouped(digits)
<1>1. text = [minus |-> cents < 0,
              groups |-> IF d = 0 THEN whole ELSE Append(whole, fraction),
              seps |-> [i \in 1..(Len(whole) - 1) |-> style.group] \o (IF d = 0 THEN <<>> ELSE <<style.point>>)]
  BY ZenonT(40) DEF Written, WholeDigits, Decimals
<1>2. /\ whole \in Seq(Seq(Nat)) /\ whole # <<>> /\ FlattenSeq(whole) = digits
      /\ Len(whole) # 1 => Len(whole[1]) \in 1..3 /\ whole[1][1] # 0 /\ Len(whole[2]) = 3
  <2>1. CASE style.group = Ungrouped
    <3>1. <<digits>> \in Seq(Seq(Nat)) /\ Len(<<digits>>) = 1 /\ <<digits>>[1] = digits /\ <<digits>> # <<>>
      OBVIOUS
    <3> DEFINE one == <<digits>>
    <3> HIDE DEF one
    <3>2. FlattenSeq(one) = one[Len(one)]
      <4>1. one \in Seq(Seq(Nat)) /\ one # <<>> /\ Len(one) = 1
        BY <3>1 DEF one
      <4>2. \A i \in 1..1 : i = 1
        OBVIOUS
      <4> QED BY <4>1, <4>2, FlatByPrefixes, Zenon
    <3>3. FlattenSeq(one) = digits
      BY <3>1, <3>2 DEF one
    <3> QED BY <2>1, <3>1, <3>3 DEF one
  <2>2. CASE style.group # Ungrouped
    <3> DEFINE groups == Grouped(digits)
    <3>1. /\ groups \in Seq(Seq(Nat)) /\ Len(groups) \in Nat \ {0} /\ groups # <<>>
          /\ Len(digits) = 1 => Len(groups) = 1
          /\ FlattenSeq(groups) = digits
          /\ Len(groups[1]) \in 1..3 /\ groups[1][1] = digits[1]
          /\ \A g \in 2..Len(groups) : Len(groups[g]) = 3
      BY GroupsAreTheDigits
    <3> HIDE DEF groups
    <3>2. Len(groups) # 1 => 2 \in 2..Len(groups)
      <4>1. \A k \in Nat \ {0} : k # 1 => 2 \in 2..k
        OBVIOUS
      <4> QED BY <3>1, <4>1, Zenon
    <3>3. Len(groups) # 1 => Len(groups[1]) \in 1..3 /\ groups[1][1] # 0 /\ Len(groups[2]) = 3
      BY <3>1, <3>2, Zenon
    <3>4. whole = groups
      BY <2>2 DEF groups
    <3> QED BY <3>1, <3>3, <3>4, Zenon
  <2> QED BY <2>1, <2>2
<1> HIDE DEF text, whole
<1>3. PICK n \in Nat : n = Len(whole) - 1 /\ n + 1 = Len(whole)
  <2>1. Len(whole) - 1 \in Nat /\ (Len(whole) - 1) + 1 = Len(whole)
    BY <1>2
  <2> QED BY <2>1, Zenon
<1>4. text.minus = (cents < 0) /\ text.groups = IF d = 0 THEN whole ELSE Append(whole, fraction)
  BY <1>1
<1>5. text.seps = [i \in 1..n |-> style.group] \o (IF d = 0 THEN <<>> ELSE <<style.point>>)
  BY <1>1, <1>3
<1>6. d = 0 <=> fraction = <<>>
  <2>1. \A s \in Seq(Nat) : Len(s) = 0 <=> s = <<>>
    OBVIOUS
  <2> QED BY <2>1, Zenon
<1>7. CASE d = 0
  <2>1. text.seps = [i \in 1..n |-> style.group] \o <<>>
    BY <1>5, <1>7
  <2>2. DOMAIN text.seps = 1..n /\ \A i \in 1..n : text.seps[i] = style.group
    BY <2>1, SeparatorsInARow
  <2>3. Laid(text, whole, fraction, style.group, style.point)
    BY <1>2, <1>3, <1>4, <1>6, <1>7, <2>2 DEF Laid
  <2>4. LaidOut(text, digits, fraction, style)
    BY <1>2, <2>3, Zenon DEF LaidOut
  <2> QED BY <1>4, <2>4 DEF text
<1>8. CASE d # 0
  <2>1. text.seps = [i \in 1..n |-> style.group] \o <<style.point>>
    BY <1>5, <1>8
  <2>2. /\ DOMAIN text.seps = 1..(n + 1) /\ \A i \in 1..n : text.seps[i] = style.group
        /\ text.seps[n + 1] = style.point
    BY <2>1, SeparatorsInARow
  <2>3. Laid(text, whole, fraction, style.group, style.point)
    BY <1>2, <1>3, <1>4, <1>6, <1>8, <2>2 DEF Laid
  <2>4. LaidOut(text, digits, fraction, style)
    BY <1>2, <2>3, Zenon DEF LaidOut
  <2> QED BY <1>4, <2>4 DEF text
<1> QED BY <1>7, <1>8

\* An amount that fits the column is read as what was meant, in whichever style it is written.
THEOREM ReadingOfWriting ==
  ASSUME NEW text, NEW cents, Writes(text, cents)
  PROVE  NormalizeAmount(text) = Reading("none", {cents})
<1>1. cents \in Int /\ Size(cents) \div 100 < Tens[IntegerDigits]
  BY DEF Writes
<1>2. PICK style \in Styles, d \in 0..Scale : Expressible(cents, d) /\ text = Written(cents, style, d)
  BY DEF Writes
<1> DEFINE size == Size(cents)
           n == size \div 100
           c == size % 100
           w == Width(n)
           digits == DigitsOf(n, w)
           fraction == SubSeq(DigitsOf(c, 2), 1, d)
<1>3. /\ size \in Nat /\ n \in Nat /\ c \in 0..99 /\ size = 100 * n + c
      /\ cents = IF cents < 0 THEN -size ELSE size
  BY <1>1, PartsOfASize
<1>4. c % Tens[Scale - d] = 0
  BY <1>1, <1>2, ExpressibleCents
<1>5. n < Tens[IntegerDigits]
  BY <1>1
<1> HIDE DEF size, n, c
<1>6. w \in 1..IntegerDigits /\ n < Tens[w] /\ (w = 1 \/ n >= Tens[w - 1])
  BY <1>3, <1>5, WidthIs
<1> HIDE DEF w
<1>7. /\ digits \in Seq(Nat) /\ Len(digits) = w
      /\ digits[1] = 0 <=> n = 0
      /\ n = 0 => w = 1
  BY <1>3, <1>6, FirstDigit, Zenon
<1>8. Significant(digits) \in Seq(Nat) /\ Len(Significant(digits)) <= w
  BY <1>3, <1>6, SignificantDigits, Zenon
<1>9. fraction \in Seq(Nat) /\ Len(fraction) = d
  BY <1>3, <1>4, DecimalDigits, Zenon
<1>10. Cents(digits, fraction) = 100 * n + c
  <2>1. n \in Nat /\ c \in 0..99
    BY <1>3
  <2> QED BY <1>4, <1>6, <2>1, CentsAsWritten, ZenonT(60)
<1> HIDE DEF digits, fraction
<1>11. digits # <<>> /\ (Len(digits) # 1 => digits[1] # 0)
  BY <1>6, <1>7
<1>12. PICK whole : /\ Laid(text, whole, fraction, style.group, style.point)
                    /\ FlattenSeq(whole) = digits
                    /\ Len(whole) # 1 => Len(whole[1]) \in 1..3 /\ whole[1][1] # 0 /\ Len(whole[2]) = 3
                    /\ text.minus = (cents < 0)
  <2>1. WholeDigits(cents) = digits
    BY DEF digits, w, n, size, WholeDigits
  <2>2. Decimals(cents, d) = fraction
    BY DEF fraction, c, size, Decimals
  <2>3. LaidOut(Written(cents, style, d), digits, fraction, style) /\ Written(cents, style, d).minus = (cents < 0)
    <3>1. cents \in Int /\ digits \in Seq(Nat) /\ fraction \in Seq(Nat) /\ Len(fraction) = d
      BY <1>1, <1>7, <1>9
    <3> QED BY <1>11, <2>1, <2>2, <3>1, WrittenIsLaid, Zenon
  <2>4. text = Written(cents, style, d)
    BY <1>2
  <2>5. LaidOut(text, digits, fraction, style) /\ text.minus = (cents < 0)
    BY <2>3, <2>4, Zenon
  <2> QED BY <2>5, Zenon DEF LaidOut
<1>13. style.point # Space /\ style.group # style.point /\ Len(fraction) <= Scale
  <2>1. Len(fraction) <= Scale
    BY <1>9 DEF Scale
  <2> QED BY <2>1, StylesDiffer, Zenon
<1>14. DecimalMarks(text) = IF fraction = <<>> THEN {} ELSE {Len(whole)}
  BY <1>12, <1>13, PointOfLaid, Zenon
<1>15. Len(Significant(digits)) \in Nat /\ Len(Significant(digits)) <= IntegerDigits
  <2>1. PICK length \in Nat : length = Len(Significant(digits))
    BY <1>8
  <2>2. length <= w
    BY <1>8, <2>1
  <2>3. length <= IntegerDigits
    BY <1>6, <2>2, AmountsAssumption
  <2> QED BY <2>1, <2>3
<1>16. NormalizeAmount(text) =
         Reading("none", {IF text.minus THEN -Cents(digits, fraction) ELSE Cents(digits, fraction)})
  BY <1>11, <1>12, <1>13, <1>14, <1>15, ReadingOfLaid, Zenon
<1>17. Cents(digits, fraction) = size
  BY <1>3, <1>10
<1>18. (IF text.minus THEN -Cents(digits, fraction) ELSE Cents(digits, fraction)) = cents
  BY <1>3, <1>12, <1>17, Zenon
<1> QED BY <1>16, <1>18, Zenon

\* One digit more stays below the next power of ten.
LEMMA NextDigitBound ==
  ASSUME NEW m \in Nat, NEW t \in Nat, m < t, NEW d \in 0..9
  PROVE  10 * m + d \in Nat /\ 10 * m + d < 10 * t
OBVIOUS

\* Digits make a number of as many digits.
LEMMA NumberIsBounded ==
  ASSUME NEW digits \in Seq(0..9), Len(digits) <= IntegerDigits + Scale
  PROVE  Number(digits) \in Nat /\ Number(digits) < Tens[Len(digits)]
<1> DEFINE length == Len(digits)
<1>1. length \in Nat /\ digits \in Seq(Nat) /\ \A i \in 1..length : digits[i] \in 0..9
  OBVIOUS
<1>2. PICK fold : /\ Number(digits) = fold[1..length]
                  /\ \A s \in SUBSET (1..length) :
                       fold[s] = IF s = {} THEN 0 ELSE 10 * fold[s \ {Max(s)}] + digits[Max(s)]
  BY <1>1, FoldOfDigits
<1> DEFINE Below == {n \in Nat : n <= length => fold[1..n] \in Nat /\ fold[1..n] < Tens[n]}
<1>3. \A n \in Nat : n \in Below
  <2>1. 0 \in Below
    <3>1. {} \in SUBSET (1..length) /\ 1..0 = {}
      OBVIOUS
    <3>2. fold[{}] = 0
      BY <1>2, <3>1
    <3>3. fold[1..0] = 0 /\ Tens[0] = 1
      BY <3>1, <3>2, TensGrow, Zenon
    <3> QED BY <3>3
  <2>2. ASSUME NEW n \in Nat, n \in Below PROVE n + 1 \in Below
    <3> SUFFICES ASSUME n + 1 <= length PROVE fold[1..(n + 1)] \in Nat /\ fold[1..(n + 1)] < Tens[n + 1]
      OBVIOUS
    <3>1. fold[1..n] \in Nat /\ fold[1..n] < Tens[n]
      BY <1>1, <2>2
    <3>2. Max(1..(n + 1)) = n + 1 /\ (1..(n + 1)) \ {n + 1} = 1..n /\ 1..(n + 1) # {}
      BY FirstNumbers
    <3>3. 1..(n + 1) \in SUBSET (1..length)
      BY <1>1
    <3>4. fold[1..(n + 1)] = 10 * fold[1..n] + digits[n + 1]
      BY <1>2, <3>2, <3>3
    <3>5. PICK d \in 0..9 : d = digits[n + 1]
      BY <1>1
    <3>6. n \in 0..(IntegerDigits + Scale) /\ n + 1 \in 1..(IntegerDigits + Scale)
      BY <1>1, AmountsAssumption DEF Scale
    <3>7. PICK t \in Nat : t = Tens[n] /\ Tens[n + 1] = 10 * t
      <4>1. PICK k \in 1..(IntegerDigits + Scale) : k = n + 1 /\ k - 1 = n
        BY <3>6
      <4>2. Tens[k] = 10 * Tens[k - 1] /\ Tens[n] \in Nat
        BY <3>6, TensGrow
      <4> QED BY <4>1, <4>2
    <3>8. PICK m \in Nat : m = fold[1..n] /\ m < t
      BY <3>1, <3>7
    <3>9. 10 * m + d \in Nat /\ 10 * m + d < 10 * t
      BY <3>8, NextDigitBound
    <3>10. fold[1..(n + 1)] = 10 * m + d
      BY <3>4, <3>5, <3>8
    <3> QED BY <3>7, <3>9, <3>10
  <2> HIDE DEF Below
  <2> QED BY <2>1, <2>2, Induction
<1>4. length \in Below
  BY <1>1, <1>3
<1> QED BY <1>2, <1>4

\* A power of ten is at most a higher one.
LEMMA TensIncrease ==
  ASSUME NEW low \in 0..(IntegerDigits + Scale)
  PROVE  \A high \in low..(IntegerDigits + Scale) : Tens[low] <= Tens[high]
<1> DEFINE top == IntegerDigits + Scale
           Above == {n \in Nat : low + n <= top => Tens[low] <= Tens[low + n]}
<1>1. top \in Nat
  BY AmountsAssumption DEF Scale
<1>2. PICK t \in Nat : t = Tens[low]
  BY TensGrow
<1>3. \A n \in Nat : n \in Above
  <2>1. 0 \in Above
    BY <1>2
  <2>2. ASSUME NEW n \in Nat, n \in Above PROVE n + 1 \in Above
    <3> SUFFICES ASSUME low + (n + 1) <= top PROVE Tens[low] <= Tens[low + (n + 1)]
      OBVIOUS
    <3>1. PICK k \in 1..top : k = low + (n + 1) /\ k - 1 = low + n /\ k - 1 \in 0..top
      BY <1>1
    <3>2. PICK u \in Nat : u = Tens[k - 1] /\ Tens[k] = 10 * u
      BY <3>1, TensGrow
    <3>3. t <= u
      BY <1>1, <1>2, <2>2, <3>1, <3>2
    <3> QED BY <1>2, <3>1, <3>2, <3>3
  <2> HIDE DEF Above
  <2> QED BY <2>1, <2>2, Induction
<1>4. ASSUME NEW high \in low..top PROVE Tens[low] <= Tens[high]
  <2>1. PICK n \in Nat : low + n = high
    <3>1. high - low \in Nat /\ low + (high - low) = high
      BY <1>1
    <3> QED BY <3>1, Zenon
  <2>2. n \in Above /\ low + n <= top
    BY <1>1, <1>3, <2>1
  <2> QED BY <2>1, <2>2
<1> QED BY <1>4

\* Digits that the column holds, and at most two decimals, make cents that the column holds.
LEMMA CentsFit ==
  ASSUME NEW whole \in Seq(0..9), NEW fraction \in Seq(0..9),
         ~(Len(fraction) > Scale), ~(Len(Significant(whole)) > IntegerDigits)
  PROVE  Cents(whole, fraction) \in Nat /\ Cents(whole, fraction) < Tens[IntegerDigits + Scale]
<1> DEFINE front == Significant(whole)
           zeros == [i \in 1..(Scale - Len(fraction)) |-> 0]
           all == (front \o fraction) \o zeros
<1>1. front \in Seq(0..9)
  BY SignificantAreDigits
<1>2. PICK decimals \in 0..Scale : decimals = Len(fraction)
  <2>1. PICK length \in Nat : length = Len(fraction)
    OBVIOUS
  <2>2. ~(length > Scale)
    BY <2>1
  <2>3. \A k \in Nat : ~(k > 2) => k \in 0..2
    OBVIOUS
  <2> QED BY <2>1, <2>2, <2>3, Zenon DEF Scale
<1>3. PICK missing \in Nat : missing = Scale - Len(fraction) /\ missing + decimals = Scale
  <2>1. Scale - decimals \in Nat /\ (Scale - decimals) + decimals = Scale
    BY DEF Scale
  <2> QED BY <1>2, <2>1
<1>4. zeros \in Seq(0..9) /\ Len(zeros) = missing
  <2>1. zeros \in [1..missing -> 0..9]
    BY <1>3
  <2> HIDE DEF zeros
  <2> QED BY <2>1, FunctionsAreSequences
<1>5. PICK places \in Nat : places = Len(front) /\ places <= IntegerDigits
  <2>1. PICK places \in Nat : places = Len(front)
    BY <1>1
  <2>2. ~(places > IntegerDigits)
    BY <2>1
  <2>3. \A k \in Nat, most \in Nat : ~(k > most) => k <= most
    OBVIOUS
  <2>4. IntegerDigits \in Nat
    BY AmountsAssumption
  <2> HIDE DEF front
  <2> QED BY <2>1, <2>2, <2>3, <2>4, Zenon
<1> HIDE DEF front, zeros
<1>6. front \o fraction \in Seq(0..9) /\ Len(front \o fraction) = places + decimals
  BY <1>1, <1>2, <1>5, ConcatProperties
<1>7. all \in Seq(0..9) /\ Len(all) = (places + decimals) + missing
  BY <1>4, <1>6, ConcatProperties
<1> HIDE DEF all
<1>8. Len(all) = places + Scale /\ places + Scale \in 0..(IntegerDigits + Scale)
      /\ IntegerDigits + Scale \in (places + Scale)..(IntegerDigits + Scale)
  <2>1. IntegerDigits \in Nat
    BY AmountsAssumption
  <2>2. Scale = 2
    BY DEF Scale
  <2>3. Len(all) = places + Scale
    BY <1>3, <1>7, <2>2
  <2> QED BY <1>5, <2>1, <2>2, <2>3
<1>9. Number(all) \in Nat /\ Number(all) < Tens[places + Scale]
  <2>1. Len(all) <= IntegerDigits + Scale
    BY <1>5, <1>8, AmountsAssumption DEF Scale
  <2>2. Number(all) \in Nat /\ Number(all) < Tens[Len(all)]
    BY <1>7, <2>1, NumberIsBounded
  <2> QED BY <1>8, <2>2
<1>10. PICK low \in 0..(IntegerDigits + Scale) : low = places + Scale
  BY <1>8
<1>11. Tens[low] <= Tens[IntegerDigits + Scale]
  BY <1>8, <1>10, TensIncrease, Zenon
<1>12. Tens[low] \in Nat /\ Tens[IntegerDigits + Scale] \in Nat
  <2>1. IntegerDigits + Scale \in 0..(IntegerDigits + Scale)
    BY AmountsAssumption DEF Scale
  <2> QED BY <2>1, TensGrow
<1>13. Number(all) < Tens[IntegerDigits + Scale]
  BY <1>9, <1>10, <1>11, <1>12
<1>14. Cents(whole, fraction) = Number(all)
  BY DEF Cents, all, front, zeros
<1> QED BY <1>9, <1>13, <1>14

\* Whatever text a cell holds, an amount that is read from it is a whole number of cents of
\* no more digits than NUMERIC(18, 2) has, so storing it neither fails nor rounds it; what
\* would not fit is a problem of the record instead.
THEOREM AmountsFitTheColumn ==
  ASSUME NEW text \in Text
  PROVE  \A cents \in NormalizeAmount(text).value : cents \in Int /\ Size(cents) < Tens[IntegerDigits + Scale]
<1> SUFFICES ASSUME NEW cents \in NormalizeAmount(text).value
             PROVE  cents \in Int /\ Size(cents) < Tens[IntegerDigits + Scale]
  OBVIOUS
<1>1. NormalizeAmount(text).value # {}
  OBVIOUS
<1>2. PICK whole, fraction \in Seq(0..9) :
        /\ ~(Len(fraction) > Scale) /\ ~(Len(Significant(whole)) > IntegerDigits)
        /\ NormalizeAmount(text) = Reading("none", {IF text.minus THEN -Cents(whole, fraction)
                                                                ELSE Cents(whole, fraction)})
  <2>1. \A problem : Reading(problem, {}).value = {}
    BY DEF Reading
  <2> QED BY <1>1, <2>1, ReadingCases, Zenon
<1>3. PICK size \in Nat : size = Cents(whole, fraction) /\ size < Tens[IntegerDigits + Scale]
  BY <1>2, CentsFit
<1>4. cents = size \/ cents = -size
  BY <1>2, <1>3 DEF Reading
<1>5. cents \in Int /\ Size(cents) = size
  BY <1>4 DEF Size
<1> QED BY <1>3, <1>5

(***************************************************************************)
(* The verdict, field by field.                                            *)
(***************************************************************************)

\* What a cell is read as.
ProblemOf(f, raw) == NormalizeCell(f, raw[f]).problem
ValueOf(f, raw) == NormalizeCell(f, raw[f]).value

\* The amounts are all readable and do not add up.
Mismatch(raw) ==
  /\ \A f \in AmountFields : ProblemOf(f, raw) = "none"
  /\ \E gross \in ValueOf("gross_amount", raw), net \in ValueOf("net_amount", raw) :
       gross + OrZero(ValueOf("tax_amount", raw)) - OrZero(ValueOf("fee_amount", raw)) - net
         \notin (-NetTolerance)..NetTolerance

\* What the rules say of a field: its own cell decides, except for net_amount.
Says(f, code, raw, existing) ==
  \/ code = ProblemOf(f, raw) /\ code # "none"
  \/ code = "REQUIRED_FIELD_MISSING" /\ f \in RequiredFields /\ ProblemOf(f, raw) = "none" /\ ValueOf(f, raw) = {}
  \/ code = "DUPLICATE_REFERENCE" /\ f = "reference" /\ ValueOf(f, raw) \cap existing # {}
  \/ code = "ZERO_AMOUNT" /\ f = "gross_amount" /\ 0 \in ValueOf(f, raw)
  \/ code = "NEGATIVE_AMOUNT" /\ f \in {"fee_amount", "tax_amount"} /\ \E n \in ValueOf(f, raw) : n < 0
  \/ code = "NET_AMOUNT_MISMATCH" /\ f = "net_amount" /\ Mismatch(raw)
  \/ /\ code = IF f = "country" THEN "INVALID_COUNTRY_CODE" ELSE "UNSUPPORTED_CODE"
     /\ f \in EnumFields \cup {"country"} /\ ValueOf(f, raw) \notin {{}, {"sound"}}
  \/ code = "VALUE_TOO_LONG" /\ f \in BusinessFields \ (AmountFields \cup DateFields) /\ ValueOf(f, raw) = {"long"}

\* What they say of the confidence.
SaysOfConfidence(code, source, confidence, threshold) ==
  \/ code = confidence.problem /\ code # "none"
  \/ code = "CONFIDENCE_OUT_OF_RANGE" /\ source = "PDF" /\ \E c \in confidence.value : c \notin 0..100
  \/ code = "LOW_CONFIDENCE" /\ source = "PDF" /\ \E c \in confidence.value : c < threshold

\* The confidence is no column of a file.
LEMMA ConfidenceIsApart == Confidence \notin BusinessFields
BY DEF Confidence, BusinessFields, AmountFields, DateFields, TextFields, EnumFields

\* The fields that have a form error.
LEMMA Unreadable ==
  ASSUME NEW raw, NEW confidence, NEW f \in BusinessFields
  PROVE  /\ f \in FieldsOf(FormErrors(raw, confidence)) <=> ProblemOf(f, raw) # "none"
         /\ \A code : <<f, code>> \in FormErrors(raw, confidence) <=> code = ProblemOf(f, raw) /\ code # "none"
<1>1. f # Confidence
  BY ConfidenceIsApart
<1>2. \A code : <<f, code>> \in FormErrors(raw, confidence) <=> code = ProblemOf(f, raw) /\ code # "none"
  BY <1>1 DEF FormErrors, ProblemOf
<1>3. \A e \in FormErrors(raw, confidence) : e = <<e[1], e[2]>>
  BY DEF FormErrors
<1>4. f \in FieldsOf(FormErrors(raw, confidence)) <=> \E code : <<f, code>> \in FormErrors(raw, confidence)
  <2>1. ASSUME f \in FieldsOf(FormErrors(raw, confidence)) PROVE \E code : <<f, code>> \in FormErrors(raw, confidence)
    <3>1. PICK e \in FormErrors(raw, confidence) : f = e[1]
      BY <2>1 DEF FieldsOf
    <3>2. <<f, e[2]>> \in FormErrors(raw, confidence)
      BY <1>3, <3>1
    <3> QED BY <3>2
  <2>2. ASSUME NEW code, <<f, code>> \in FormErrors(raw, confidence) PROVE f \in FieldsOf(FormErrors(raw, confidence))
    <3>1. <<f, code>>[1] \in FieldsOf(FormErrors(raw, confidence))
      BY <2>2 DEF FieldsOf
    <3> QED BY <3>1
  <2> QED BY <2>1, <2>2
<1> QED BY <1>2, <1>4

\* The rules together: an error of a field is what they say of it.
LEMMA FieldErrors ==
  ASSUME NEW source, NEW raw, NEW confidence, NEW existing, NEW threshold, NEW f \in BusinessFields, NEW code
  PROVE  <<f, code>> \in ValidateRecord(source, raw, confidence, existing, threshold) <=> Says(f, code, raw, existing)
<1> DEFINE record == Normalize(raw)
           form == FormErrors(raw, confidence)
           unreadable == FieldsOf(form)
           e == <<f, code>>
<1>1. \A g \in BusinessFields : record[g] = ValueOf(g, raw)
  BY DEF Normalize, ValueOf
<1>2. \A g \in BusinessFields : g \in unreadable <=> ProblemOf(g, raw) # "none"
  BY Unreadable
<1>3. e \in form <=> code = ProblemOf(f, raw) /\ code # "none"
  BY Unreadable
<1>4. /\ RequiredFields \subseteq BusinessFields /\ EnumFields \subseteq BusinessFields
      /\ AmountFields \subseteq BusinessFields /\ f # Confidence
      /\ {"reference", "gross_amount", "fee_amount", "tax_amount", "net_amount", "country"} \subseteq BusinessFields
  BY ConfidenceIsApart
     DEF RequiredFields, BusinessFields, AmountFields, DateFields, TextFields, EnumFields
<1> HIDE DEF form, unreadable, record
<1>5. e \in CheckRequired(record, unreadable) <=>
        code = "REQUIRED_FIELD_MISSING" /\ f \in RequiredFields /\ ProblemOf(f, raw) = "none" /\ ValueOf(f, raw) = {}
  BY <1>1, <1>2, <1>4 DEF CheckRequired
<1>6. e \in CheckUniqueness(record, existing) <=>
        code = "DUPLICATE_REFERENCE" /\ f = "reference" /\ ValueOf(f, raw) \cap existing # {}
  BY <1>1, <1>4 DEF CheckUniqueness
<1>7. e \in CheckAmounts(record) <=>
        \/ code = "ZERO_AMOUNT" /\ f = "gross_amount" /\ 0 \in ValueOf(f, raw)
        \/ code = "NEGATIVE_AMOUNT" /\ f \in {"fee_amount", "tax_amount"} /\ \E n \in ValueOf(f, raw) : n < 0
  BY <1>1, <1>4 DEF CheckAmounts
<1>8. e \in CheckNetAmount(record, unreadable) <=>
        code = "NET_AMOUNT_MISMATCH" /\ f = "net_amount" /\ Mismatch(raw)
  <2>1. AmountFields \cap unreadable = {} <=> \A g \in AmountFields : ProblemOf(g, raw) = "none"
    BY <1>2, <1>4
  <2> QED BY <1>1, <1>4, <2>1 DEF CheckNetAmount, Mismatch
<1>9. e \in CheckCodes(record) <=>
        /\ code = IF f = "country" THEN "INVALID_COUNTRY_CODE" ELSE "UNSUPPORTED_CODE"
        /\ f \in EnumFields \cup {"country"} /\ ValueOf(f, raw) \notin {{}, {"sound"}}
  BY <1>1, <1>4 DEF CheckCodes
<1>10. e \in CheckLengths(record) <=>
        code = "VALUE_TOO_LONG" /\ f \in BusinessFields \ (AmountFields \cup DateFields) /\ ValueOf(f, raw) = {"long"}
  BY <1>1 DEF CheckLengths
<1>11. e \notin CheckConfidence(source, confidence.value, threshold)
  BY <1>4 DEF CheckConfidence
<1>12. ValidateRecord(source, raw, confidence, existing, threshold) =
         form \cup CheckRequired(record, unreadable) \cup CheckUniqueness(record, existing)
           \cup CheckAmounts(record) \cup CheckNetAmount(record, unreadable) \cup CheckCodes(record)
           \cup CheckLengths(record) \cup CheckConfidence(source, confidence.value, threshold)
  BY DEF ValidateRecord, form, unreadable, record
<1> HIDE DEF e
<1>13. e \in ValidateRecord(source, raw, confidence, existing, threshold) <=> Says(f, code, raw, existing)
  BY <1>3, <1>5, <1>6, <1>7, <1>8, <1>9, <1>10, <1>11, <1>12 DEF Says
<1> QED BY <1>13 DEF e

\* An error of the confidence is what is said of it.
LEMMA ConfidenceErrors ==
  ASSUME NEW source, NEW raw, NEW confidence, NEW existing, NEW threshold, NEW code
  PROVE  <<Confidence, code>> \in ValidateRecord(source, raw, confidence, existing, threshold) <=>
           SaysOfConfidence(code, source, confidence, threshold)
<1> DEFINE record == Normalize(raw)
           form == FormErrors(raw, confidence)
           unreadable == FieldsOf(form)
           e == <<Confidence, code>>
<1>1. /\ Confidence \notin RequiredFields \cup EnumFields \cup BusinessFields
      /\ Confidence \notin {"reference", "gross_amount", "fee_amount", "tax_amount", "net_amount", "country"}
  BY DEF RequiredFields, BusinessFields, AmountFields, DateFields, TextFields, EnumFields, Confidence
<1>2. e \in form <=> code = confidence.problem /\ code # "none"
  BY <1>1 DEF FormErrors
<1> HIDE DEF form, unreadable, record
<1>3. e \notin CheckRequired(record, unreadable) /\ e \notin CheckUniqueness(record, existing)
  BY <1>1 DEF CheckRequired, CheckUniqueness
<1>4. e \notin CheckAmounts(record) /\ e \notin CheckNetAmount(record, unreadable)
  BY <1>1 DEF CheckAmounts, CheckNetAmount
<1>5. e \notin CheckCodes(record) /\ e \notin CheckLengths(record)
  BY <1>1 DEF CheckCodes, CheckLengths
<1>6. e \in CheckConfidence(source, confidence.value, threshold) <=>
        \/ code = "CONFIDENCE_OUT_OF_RANGE" /\ source = "PDF" /\ \E c \in confidence.value : c \notin 0..100
        \/ code = "LOW_CONFIDENCE" /\ source = "PDF" /\ \E c \in confidence.value : c < threshold
  BY DEF CheckConfidence
<1>7. ValidateRecord(source, raw, confidence, existing, threshold) =
         form \cup CheckRequired(record, unreadable) \cup CheckUniqueness(record, existing)
           \cup CheckAmounts(record) \cup CheckNetAmount(record, unreadable) \cup CheckCodes(record)
           \cup CheckLengths(record) \cup CheckConfidence(source, confidence.value, threshold)
  BY DEF ValidateRecord, form, unreadable, record
<1> HIDE DEF e
<1>8. e \in ValidateRecord(source, raw, confidence, existing, threshold) <=>
        SaysOfConfidence(code, source, confidence, threshold)
  BY <1>2, <1>3, <1>4, <1>5, <1>6, <1>7 DEF SaysOfConfidence
<1> QED BY <1>8 DEF e

\* Every error names a field of the data dictionary, or the confidence, and a code.
LEMMA ErrorsNameFields ==
  ASSUME NEW source, NEW raw, NEW confidence, NEW existing, NEW threshold,
         NEW e \in ValidateRecord(source, raw, confidence, existing, threshold)
  PROVE  e = <<e[1], e[2]>> /\ e[1] \in BusinessFields \cup {Confidence}
<1> DEFINE record == Normalize(raw)
           form == FormErrors(raw, confidence)
           unreadable == FieldsOf(form)
           Named(S) == \A d \in S : d = <<d[1], d[2]>> /\ d[1] \in BusinessFields \cup {Confidence}
<1>1. /\ RequiredFields \subseteq BusinessFields /\ EnumFields \subseteq BusinessFields
      /\ {"reference", "gross_amount", "fee_amount", "tax_amount", "net_amount", "country"} \subseteq BusinessFields
  BY DEF RequiredFields, BusinessFields, AmountFields, DateFields, TextFields, EnumFields
<1>2. Named(form)
  BY DEF FormErrors
<1> HIDE DEF form, unreadable, record
<1>3. Named(CheckRequired(record, unreadable)) /\ Named(CheckUniqueness(record, existing))
  BY <1>1 DEF CheckRequired, CheckUniqueness
<1>4. Named(CheckAmounts(record)) /\ Named(CheckNetAmount(record, unreadable))
  BY <1>1 DEF CheckAmounts, CheckNetAmount
<1>5. Named(CheckCodes(record)) /\ Named(CheckLengths(record))
  BY <1>1 DEF CheckCodes, CheckLengths
<1>6. Named(CheckConfidence(source, confidence.value, threshold))
  BY DEF CheckConfidence
<1>7. ValidateRecord(source, raw, confidence, existing, threshold) =
         form \cup CheckRequired(record, unreadable) \cup CheckUniqueness(record, existing)
           \cup CheckAmounts(record) \cup CheckNetAmount(record, unreadable) \cup CheckCodes(record)
           \cup CheckLengths(record) \cup CheckConfidence(source, confidence.value, threshold)
  BY DEF ValidateRecord, form, unreadable, record
<1> QED BY <1>2, <1>3, <1>4, <1>5, <1>6, <1>7

\* What a cell of a record is read as.
LEMMA CellReading ==
  ASSUME NEW raw, IsRow(raw), NEW f \in BusinessFields
  PROVE  /\ ProblemOf(f, raw) \in
              {"none", "NOT_NUMERIC", "AMOUNT_SCALE_EXCEEDED", "AMOUNT_OUT_OF_RANGE", "INVALID_DATE"}
         /\ ProblemOf(f, raw) # "none" => ValueOf(f, raw) = {}
         /\ f \in AmountFields =>
              /\ ValueOf(f, raw) # {} => \E n \in Int : ValueOf(f, raw) = {n}
              /\ Blank(raw[f]) <=> ProblemOf(f, raw) = "none" /\ ValueOf(f, raw) = {}
              /\ ProblemOf(f, raw) = NormalizeAmount(raw[f]).problem
              /\ ValueOf(f, raw) = NormalizeAmount(raw[f]).value
         /\ f \in DateFields =>
              /\ ProblemOf(f, raw) = "none" <=> raw[f] \in {"absent", "sound", "respelled"}
              /\ ProblemOf(f, raw) = "none" => (ValueOf(f, raw) = {} <=> raw[f] = "absent")
         /\ f \notin AmountFields \cup DateFields =>
              /\ ProblemOf(f, raw) = "none"
              /\ ValueOf(f, raw) = IF raw[f] = "absent" THEN {}
                                   ELSE {IF raw[f] = "respelled" THEN "sound" ELSE raw[f]}
<1>1. CASE f \in AmountFields
  <2>1. raw[f] \in Text
    BY <1>1 DEF IsRow
  <2>2. f \notin DateFields
    BY <1>1 DEF AmountFields, DateFields
  <2>3. ProblemOf(f, raw) = NormalizeAmount(raw[f]).problem /\ ValueOf(f, raw) = NormalizeAmount(raw[f]).value
    BY <1>1, <2>2 DEF ProblemOf, ValueOf, NormalizeCell
  <2>4. /\ ProblemOf(f, raw) \in {"none", "NOT_NUMERIC", "AMOUNT_SCALE_EXCEEDED", "AMOUNT_OUT_OF_RANGE"}
        /\ ProblemOf(f, raw) # "none" => ValueOf(f, raw) = {}
        /\ ValueOf(f, raw) # {} => \E n \in Int : ValueOf(f, raw) = {n}
        /\ Blank(raw[f]) <=> ProblemOf(f, raw) = "none" /\ ValueOf(f, raw) = {}
    BY <2>1, <2>3, AmountReading
  <2> QED BY <1>1, <2>2, <2>3, <2>4
<1>2. CASE f \in DateFields
  <2>1. f \notin AmountFields /\ raw[f] \in Classes
    BY <1>2 DEF IsRow, AmountFields, DateFields
  <2>2. NormalizeCell(f, raw[f]) = NormalizeDate(raw[f])
    BY <1>2, <2>1 DEF NormalizeCell
  <2> QED BY <1>2, <2>1, <2>2 DEF ProblemOf, ValueOf, NormalizeDate, Reading
<1>3. CASE f \notin AmountFields \cup DateFields
  <2>1. NormalizeCell(f, raw[f]) = Reading("none", NormalizeText(raw[f]))
    BY <1>3 DEF NormalizeCell
  <2> QED BY <1>3, <2>1 DEF ProblemOf, ValueOf, NormalizeText, Reading
<1> QED BY <1>1, <1>2, <1>3

(***************************************************************************)
(* What follows for a whole record.                                        *)
(***************************************************************************)

\* The same cell, and for net_amount the same amounts, give the same errors.
LEMMA FieldsAreLocal ==
  ASSUME NEW raw, NEW other, NEW existing, NEW f \in BusinessFields, raw[f] = other[f],
         f = "net_amount" => \A g \in AmountFields : raw[g] = other[g]
  PROVE  \A code : Says(f, code, raw, existing) <=> Says(f, code, other, existing)
<1>1. ProblemOf(f, raw) = ProblemOf(f, other) /\ ValueOf(f, raw) = ValueOf(f, other)
  BY DEF ProblemOf, ValueOf
<1>2. f = "net_amount" => (Mismatch(raw) <=> Mismatch(other))
  <2> SUFFICES ASSUME f = "net_amount" PROVE Mismatch(raw) <=> Mismatch(other)
    OBVIOUS
  <2>1. \A g \in AmountFields : ProblemOf(g, raw) = ProblemOf(g, other) /\ ValueOf(g, raw) = ValueOf(g, other)
    BY DEF ProblemOf, ValueOf
  <2>2. {"gross_amount", "net_amount", "fee_amount", "tax_amount"} \subseteq AmountFields
    BY DEF AmountFields
  <2> QED BY <2>1, <2>2 DEF Mismatch
<1> QED BY <1>1, <1>2 DEF Says

\* A field that is missing has no other error, and is not one that could not be read.
LEMMA MissingIsAll ==
  ASSUME NEW raw, IsRow(raw), NEW existing, NEW f \in BusinessFields, NEW code,
         Says(f, "REQUIRED_FIELD_MISSING", raw, existing), Says(f, code, raw, existing)
  PROVE  code = "REQUIRED_FIELD_MISSING"
<1>1. ProblemOf(f, raw) \in {"none", "NOT_NUMERIC", "AMOUNT_SCALE_EXCEEDED", "AMOUNT_OUT_OF_RANGE", "INVALID_DATE"}
  BY CellReading
<1>2. ProblemOf(f, raw) = "none" /\ ValueOf(f, raw) = {}
  BY <1>1 DEF Says
<1>3. ~Mismatch(raw) \/ f # "net_amount"
  BY <1>2 DEF Mismatch
<1> QED BY <1>2, <1>3 DEF Says

\* Amounts that do not add up were all read.
LEMMA MismatchedAreRead ==
  ASSUME NEW raw, IsRow(raw), NEW existing, Says("net_amount", "NET_AMOUNT_MISMATCH", raw, existing)
  PROVE  \A f \in AmountFields : ProblemOf(f, raw) = "none"
<1>1. "net_amount" \in BusinessFields
  BY DEF BusinessFields, AmountFields
<1>2. ProblemOf("net_amount", raw) # "NET_AMOUNT_MISMATCH"
  BY <1>1, CellReading
<1> QED BY <1>2 DEF Says, Mismatch

\* A field has no error but one of those Verdicts tells apart.
Clean(f, raw, existing) ==
  \A code : Says(f, code, raw, existing) =>
    f = "reference" /\ code \in {"REQUIRED_FIELD_MISSING", "DUPLICATE_REFERENCE"}

\* The readings of the amounts are added as numbers.
LEMMA AddingUp ==
  ASSUME NEW raw, IsRow(raw), \A f \in AmountFields : ProblemOf(f, raw) = "none"
  PROVE  Mismatch(raw) <=> ~AddsUp(raw)
<1>1. \A f \in AmountFields :
        /\ ValueOf(f, raw) = NormalizeAmount(raw[f]).value
        /\ ValueOf(f, raw) # {} => \E n \in Int : ValueOf(f, raw) = {n}
  BY CellReading DEF BusinessFields
<1>2. {"gross_amount", "net_amount", "fee_amount", "tax_amount"} \subseteq AmountFields
  BY DEF AmountFields
<1>3. ASSUME NEW f \in AmountFields PROVE OrZero(ValueOf(f, raw)) \in Int
  <2>1. CASE ValueOf(f, raw) = {}
    BY <2>1 DEF OrZero
  <2>2. CASE ValueOf(f, raw) # {}
    <3>1. PICK n \in Int : ValueOf(f, raw) = {n}
      BY <1>1, <2>2
    <3> QED BY <3>1 DEF OrZero
  <2> QED BY <2>1, <2>2
<1> DEFINE gross == ValueOf("gross_amount", raw)
           net == ValueOf("net_amount", raw)
<1>4. PICK tax \in Int : tax = OrZero(ValueOf("tax_amount", raw))
  BY <1>2, <1>3
<1>5. PICK fee \in Int : fee = OrZero(ValueOf("fee_amount", raw))
  BY <1>2, <1>3
<1>6. gross \subseteq Int /\ net \subseteq Int
  BY <1>1, <1>2
<1> HIDE DEF gross, net
<1>7. Mismatch(raw) <=> \E g \in gross, n \in net : g + tax - fee - n \notin (-1)..1
  BY <1>4, <1>5 DEF Mismatch, NetTolerance, gross, net
<1>8. AddsUp(raw) <=> \A g \in gross, n \in net : g + tax \in (n + fee - 1)..(n + fee + 1)
  <2>1. /\ NormalizeAmount(raw["gross_amount"]).value = gross /\ NormalizeAmount(raw["net_amount"]).value = net
        /\ OrZero(NormalizeAmount(raw["tax_amount"]).value) = tax
        /\ OrZero(NormalizeAmount(raw["fee_amount"]).value) = fee
    BY <1>1, <1>2, <1>4, <1>5 DEF gross, net
  <2> QED BY <2>1 DEF AddsUp
<1>9. \A g \in gross, n \in net : g + tax - fee - n \in (-1)..1 <=> g + tax \in (n + fee - 1)..(n + fee + 1)
  BY <1>6
<1> QED BY <1>7, <1>8, <1>9

\* A reference has such an error exactly when it is too long.
LEMMA CleanReference ==
  ASSUME NEW raw, IsRow(raw), NEW existing
  PROVE  Clean("reference", raw, existing) <=> raw["reference"] # "long"
<1> DEFINE f == "reference"
<1>1. f \in BusinessFields /\ f \notin AmountFields \cup DateFields \cup EnumFields
  BY DEF BusinessFields, AmountFields, DateFields, TextFields, EnumFields
<1>2. /\ ProblemOf(f, raw) = "none"
      /\ ValueOf(f, raw) = IF raw[f] = "absent" THEN {} ELSE {IF raw[f] = "respelled" THEN "sound" ELSE raw[f]}
  BY <1>1, CellReading
<1>3. ValueOf(f, raw) = {"long"} <=> raw[f] = "long"
  BY <1>2
<1>4. \A code : Says(f, code, raw, existing) <=>
        \/ code = "REQUIRED_FIELD_MISSING" /\ f \in RequiredFields /\ ValueOf(f, raw) = {}
        \/ code = "DUPLICATE_REFERENCE" /\ ValueOf(f, raw) \cap existing # {}
        \/ code = "VALUE_TOO_LONG" /\ ValueOf(f, raw) = {"long"}
  BY <1>1, <1>2 DEF Says
<1> QED BY <1>3, <1>4 DEF Clean

\* A required field is there.
Present(f, raw) ==
  f \in RequiredFields => IF f \in AmountFields THEN ~Blank(raw[f]) ELSE raw[f] # "absent"

\* Any other field has none exactly when the data dictionary accepts what it holds, and
\* net_amount when the amounts add up as well.
LEMMA CleanAmount ==
  ASSUME NEW raw, IsRow(raw), NEW existing, NEW f \in AmountFields
  PROVE  Clean(f, raw, existing) <=>
           Acceptable(f, raw[f]) /\ Present(f, raw) /\ (f = "net_amount" => ~Mismatch(raw))
<1>1. f \in BusinessFields /\ f \notin DateFields \cup EnumFields \cup {"reference", "country"}
  BY DEF BusinessFields, AmountFields, DateFields, TextFields, EnumFields
<1>2. /\ ProblemOf(f, raw) \in
           {"none", "NOT_NUMERIC", "AMOUNT_SCALE_EXCEEDED", "AMOUNT_OUT_OF_RANGE", "INVALID_DATE"}
      /\ ValueOf(f, raw) # {} => \E n \in Int : ValueOf(f, raw) = {n}
      /\ Blank(raw[f]) <=> ProblemOf(f, raw) = "none" /\ ValueOf(f, raw) = {}
      /\ ProblemOf(f, raw) = NormalizeAmount(raw[f]).problem
      /\ ValueOf(f, raw) = NormalizeAmount(raw[f]).value
  BY <1>1, CellReading
<1>3. \A code : Says(f, code, raw, existing) <=>
        \/ code = ProblemOf(f, raw) /\ code # "none"
        \/ code = "REQUIRED_FIELD_MISSING" /\ f \in RequiredFields /\ Blank(raw[f])
        \/ code = "ZERO_AMOUNT" /\ f = "gross_amount" /\ 0 \in ValueOf(f, raw)
        \/ code = "NEGATIVE_AMOUNT" /\ f \in {"fee_amount", "tax_amount"} /\ \E n \in ValueOf(f, raw) : n < 0
        \/ code = "NET_AMOUNT_MISMATCH" /\ f = "net_amount" /\ Mismatch(raw)
  BY <1>1, <1>2 DEF Says
<1>4. Clean(f, raw, existing) <=>
        /\ ProblemOf(f, raw) = "none"
        /\ ~(f \in RequiredFields /\ Blank(raw[f]))
        /\ ~(f = "gross_amount" /\ 0 \in ValueOf(f, raw))
        /\ ~(f \in {"fee_amount", "tax_amount"} /\ \E n \in ValueOf(f, raw) : n < 0)
        /\ ~(f = "net_amount" /\ Mismatch(raw))
  BY <1>1, <1>3 DEF Clean
<1>5. 0 \in ValueOf(f, raw) <=> ValueOf(f, raw) = {0}
  BY <1>2
<1>6. (\E n \in ValueOf(f, raw) : n < 0) <=> ~(\A n \in ValueOf(f, raw) : n >= 0)
  BY <1>2
<1>7. Acceptable(f, raw[f]) <=>
        /\ ProblemOf(f, raw) = "none"
        /\ f = "gross_amount" => ValueOf(f, raw) # {0}
        /\ f \in {"fee_amount", "tax_amount"} => \A n \in ValueOf(f, raw) : n >= 0
  BY <1>1, <1>2 DEF Acceptable
<1> QED BY <1>4, <1>5, <1>6, <1>7 DEF Present

\* The same of a date, a code or a text.
LEMMA CleanOther ==
  ASSUME NEW raw, IsRow(raw), NEW existing, NEW f \in BusinessFields, f \notin AmountFields, f # "reference"
  PROVE  Clean(f, raw, existing) <=> Acceptable(f, raw[f]) /\ Present(f, raw)
<1>1. f # "net_amount" /\ f \notin {"gross_amount", "fee_amount", "tax_amount"} /\ raw[f] \in Classes
  BY DEF AmountFields, IsRow
<1>2. CASE f \in DateFields
  <2>1. f \notin EnumFields \cup {"country"}
    BY <1>2 DEF DateFields, EnumFields
  <2>2. /\ ProblemOf(f, raw) = "none" <=> raw[f] \in {"absent", "sound", "respelled"}
        /\ ProblemOf(f, raw) = "none" => (ValueOf(f, raw) = {} <=> raw[f] = "absent")
    BY <1>2, CellReading
  <2>3. ProblemOf(f, raw) \in
              {"none", "NOT_NUMERIC", "AMOUNT_SCALE_EXCEEDED", "AMOUNT_OUT_OF_RANGE", "INVALID_DATE"}
    BY CellReading
  <2>4. \A code : Says(f, code, raw, existing) <=>
          \/ code = ProblemOf(f, raw) /\ code # "none"
          \/ code = "REQUIRED_FIELD_MISSING" /\ f \in RequiredFields /\ ProblemOf(f, raw) = "none" /\ ValueOf(f, raw) = {}
    BY <1>1, <1>2, <2>1 DEF Says
  <2>5. Clean(f, raw, existing) <=>
          ProblemOf(f, raw) = "none" /\ ~(f \in RequiredFields /\ ValueOf(f, raw) = {})
    BY <2>3, <2>4 DEF Clean
  <2>6. Acceptable(f, raw[f]) <=> raw[f] \in {"absent", "sound", "respelled"}
    BY <1>2 DEF Acceptable
  <2> QED BY <2>2, <2>5, <2>6 DEF Present
<1>3. CASE f \notin DateFields
  <2>1. /\ ProblemOf(f, raw) = "none"
        /\ ValueOf(f, raw) = IF raw[f] = "absent" THEN {} ELSE {IF raw[f] = "respelled" THEN "sound" ELSE raw[f]}
    BY <1>3, CellReading
  <2>2. /\ ValueOf(f, raw) = {} <=> raw[f] = "absent"
        /\ ValueOf(f, raw) = {"long"} <=> raw[f] = "long"
        /\ ValueOf(f, raw) = {"sound"} <=> raw[f] \in {"sound", "respelled"}
    BY <2>1
  <2>3. \A code : Says(f, code, raw, existing) <=>
          \/ code = "REQUIRED_FIELD_MISSING" /\ f \in RequiredFields /\ raw[f] = "absent"
          \/ /\ code = IF f = "country" THEN "INVALID_COUNTRY_CODE" ELSE "UNSUPPORTED_CODE"
             /\ f \in EnumFields \cup {"country"} /\ raw[f] \notin {"absent", "sound", "respelled"}
          \/ code = "VALUE_TOO_LONG" /\ raw[f] = "long"
    BY <1>1, <1>3, <2>1, <2>2 DEF Says
  <2>4. Clean(f, raw, existing) <=>
          /\ ~(f \in RequiredFields /\ raw[f] = "absent")
          /\ ~(f \in EnumFields \cup {"country"} /\ raw[f] \notin {"absent", "sound", "respelled"})
          /\ raw[f] # "long"
    BY <2>3 DEF Clean
  <2>5. Acceptable(f, raw[f]) <=>
          IF f \in EnumFields \cup {"country"} THEN raw[f] \in {"absent", "sound", "respelled"} ELSE raw[f] # "long"
    BY <1>3 DEF Acceptable
  <2> QED BY <2>4, <2>5 DEF Present
<1> QED BY <1>2, <1>3

\* The rules find nothing but what Verdicts tells apart exactly in the records that the data
\* dictionary accepts: the rules are complete, and none is too strict.
LEMMA RulesAreTheDictionary ==
  ASSUME NEW raw, IsRow(raw), NEW existing
  PROVE  (\A f \in BusinessFields : Clean(f, raw, existing)) <=> DetailSound(raw) /\ raw["reference"] # "long"
<1>1. /\ AmountFields \subseteq BusinessFields /\ "reference" \in BusinessFields /\ "reference" \notin AmountFields
      /\ RequiredFields \subseteq BusinessFields /\ "net_amount" \in AmountFields
  BY DEF BusinessFields, AmountFields, DateFields, TextFields, EnumFields, RequiredFields
<1>2. Acceptable("reference", raw["reference"]) <=> raw["reference"] # "long"
  BY DEF Acceptable, AmountFields, EnumFields, DateFields
<1>3. \A f \in AmountFields : Clean(f, raw, existing) <=>
           Acceptable(f, raw[f]) /\ Present(f, raw) /\ (f = "net_amount" => ~Mismatch(raw))
  BY CleanAmount
<1>4. \A f \in BusinessFields : f \notin AmountFields /\ f # "reference" =>
        (Clean(f, raw, existing) <=> Acceptable(f, raw[f]) /\ Present(f, raw))
  BY CleanOther
<1>5. Clean("reference", raw, existing) <=> raw["reference"] # "long"
  BY CleanReference
<1>6. (\A f \in AmountFields : Acceptable(f, raw[f])) => (Mismatch(raw) <=> ~AddsUp(raw))
  <2> SUFFICES ASSUME \A f \in AmountFields : Acceptable(f, raw[f]) PROVE Mismatch(raw) <=> ~AddsUp(raw)
    OBVIOUS
  <2>1. \A f \in AmountFields : f \notin DateFields /\ ProblemOf(f, raw) = NormalizeAmount(raw[f]).problem
    BY <1>1, CellReading DEF AmountFields, DateFields
  <2>2. \A f \in AmountFields : f \notin EnumFields \cup DateFields \cup {"country"}
    BY DEF AmountFields, DateFields, EnumFields
  <2>3. ASSUME NEW f \in AmountFields PROVE NormalizeAmount(raw[f]).problem = "none"
    <3>1. Acceptable(f, raw[f]) => NormalizeAmount(raw[f]).problem = "none"
      BY <2>2 DEF Acceptable
    <3> QED BY <3>1
  <2> QED BY <2>1, <2>3, AddingUp
<1>7. DetailSound(raw) <=>
        /\ \A f \in BusinessFields : Acceptable(f, raw[f])
        /\ \A f \in RequiredFields \ {"reference"} : Present(f, raw)
        /\ AddsUp(raw)
  BY DEF DetailSound, Present
<1>8. \A f \in BusinessFields : f \notin RequiredFields => Present(f, raw)
  BY DEF Present
<1> QED BY <1>1, <1>2, <1>3, <1>4, <1>5, <1>6, <1>7, <1>8

=============================================================================
