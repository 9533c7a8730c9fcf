---------------------------- MODULE IntakeProofs ----------------------------
(***************************************************************************)
(* What every run of Intake preserves, and what its rules say of every     *)
(* record, proved for any rows, any answers of the providers, any cells a  *)
(* reviewer may type and any threshold.                                    *)
(***************************************************************************)
EXTENDS Intake, RulesProofs

(***************************************************************************)
(* The chain of providers.                                                 *)
(***************************************************************************)

\* A configuration gives at most two providers, and they differ.
LEMMA ChainsAreDistinct ==
  ASSUME NEW settings \in Settings
  PROVE  /\ BuildProvider(settings) \in Seq(Names)
         /\ \A p, q \in DOMAIN BuildProvider(settings) :
              BuildProvider(settings)[p] = BuildProvider(settings)[q] => p = q
<1> DEFINE primary == settings.provider
           others == settings.keys \ {primary}
           other == CHOOSE name \in others : TRUE
<1>1. primary \in Names /\ others \subseteq Names
  BY DEF Settings, Names
<1>2. CASE others = {}
  <2>1. BuildProvider(settings) \in {<<"mock">>, <<>>, <<primary>>}
    BY <1>2 DEF BuildProvider
  <2>2. CASE BuildProvider(settings) = <<>>
    BY <2>2
  <2>3. CASE BuildProvider(settings) = <<"mock">>
    BY <2>3 DEF Names
  <2>4. CASE BuildProvider(settings) = <<primary>>
    BY <1>1, <2>4
  <2> QED BY <2>1, <2>2, <2>3, <2>4
<1>3. CASE others # {}
  <2>1. other \in others
    BY <1>3
  <2>2. other \in Names /\ other # primary
    BY <1>1, <2>1
  <2>3. \/ BuildProvider(settings) \in {<<"mock">>, <<>>}
        \/ BuildProvider(settings) = <<primary, other>>
    BY <1>3, Zenon DEF BuildProvider
  <2> HIDE DEF other
  <2>4. CASE BuildProvider(settings) \in {<<"mock">>, <<>>}
    <3>1. CASE BuildProvider(settings) = <<>>
      BY <3>1
    <3>2. CASE BuildProvider(settings) = <<"mock">>
      BY <3>2 DEF Names
    <3> QED BY <2>4, <3>1, <3>2
  <2>5. CASE BuildProvider(settings) = <<primary, other>>
    BY <1>1, <2>2, <2>5
  <2> QED BY <2>3, <2>4, <2>5
<1> QED BY <1>2, <1>3

\* The attempts a provider is given are a positive number.
LEMMA AttemptsAreCounted == AttemptsPerProvider \in Nat \ {0}
BY AttemptsAssumption DEF AttemptsPerProvider

\* Nothing has failed before the first attempt.
LEMMA ChainStarts == Unused \/ Configured => ChainInductive
<1>1. ASSUME Unused PROVE ChainInductive
  BY <1>1, AttemptsAreCounted
     DEF Unused, ChainInductive, ChainShape, NoneWasted, InOrder, Latest
<1>2. ASSUME Configured PROVE ChainInductive
  <2> USE <1>2 DEF Configured
  <2>1. /\ chain \in Seq(Names) /\ chain # <<>>
        /\ \A p, q \in DOMAIN chain : chain[p] = chain[q] => p = q
    BY ChainsAreDistinct
  <2>2. position \in DOMAIN chain
    BY <2>1
  <2>3. ChainShape
    BY <2>1, <2>2, AttemptsAreCounted DEF ChainShape
  <2>4. NoneWasted /\ InOrder /\ Latest
    BY DEF NoneWasted, InOrder, Latest, FailuresOf
  <2>5. \A p \in DOMAIN chain : ~(p < position)
    BY <2>1
  <2> QED BY <2>3, <2>4, <2>5 DEF ChainInductive
<1> QED BY <1>1, <1>2

\* A step that leaves the chain alone, and an answer.
LEMMA ChainFrame ==
  ASSUME ChainInductive, UNCHANGED chainVars \/ Answer
  PROVE  ChainInductive'
<1>1. UNCHANGED <<chain, position, attempt, failures>>
  BY DEF chainVars, Answer
<1>2. call' = call \/ (call = "calling" /\ call' = "answered")
  BY DEF chainVars, Answer
<1>3. AttemptsPerProvider' = AttemptsPerProvider /\ \A name : FailuresOf(name)' = FailuresOf(name)
  BY <1>1 DEF AttemptsPerProvider, FailuresOf
<1>4. ChainShape'
  BY <1>1, <1>2, <1>3 DEF ChainInductive, ChainShape
<1>5. NoneWasted'
  BY <1>1, <1>3 DEF ChainInductive, NoneWasted
<1>6. InOrder'
  BY <1>1, <1>3 DEF ChainInductive, InOrder
<1>7. Latest'
  BY <1>1, <1>2, <1>3 DEF ChainInductive, Latest
<1>8. \A name : Spent(name)' <=> Spent(name)
  BY <1>1, <1>3 DEF Spent
<1> QED BY <1>1, <1>2, <1>4, <1>5, <1>6, <1>7, <1>8 DEF ChainInductive

\* One more failure of the provider being tried.
LEMMA FailureRecorded ==
  ASSUME ChainInductive, call = "calling", NEW outcome \in {"permanent", "transient"}, Record(outcome),
         chain' = chain
  PROVE  /\ failures' \in Seq([provider : Names, outcome : {"permanent", "transient"}])
         /\ Len(failures') = Len(failures) + 1
         /\ \A i \in DOMAIN failures : failures'[i] = failures[i]
         /\ failures'[Len(failures')] = [provider |-> chain[position], outcome |-> outcome]
         /\ DOMAIN failures' = DOMAIN failures \cup {Len(failures')}
         /\ \A name : FailuresOf(name)' = FailuresOf(name) \cup {i \in {Len(failures')} : name = chain[position]}
<1> DEFINE new == [provider |-> chain[position], outcome |-> outcome]
<1>1. PICK old \in Seq([provider : Names, outcome : {"permanent", "transient"}]) : old = failures
  BY DEF ChainInductive, ChainShape
<1>2. chain \in Seq(Names) /\ position \in DOMAIN chain
  BY DEF ChainInductive, ChainShape
<1>3. new \in [provider : Names, outcome : {"permanent", "transient"}]
  BY <1>2
<1>4. failures' = Append(old, new)
  BY <1>1 DEF Record
<1> HIDE DEF new
<1>5. /\ failures' \in Seq([provider : Names, outcome : {"permanent", "transient"}])
      /\ Len(failures') = Len(old) + 1
      /\ \A i \in DOMAIN old : failures'[i] = old[i]
      /\ failures'[Len(failures')] = new
      /\ DOMAIN failures' = DOMAIN old \cup {Len(failures')}
  BY <1>3, <1>4
<1> USE DEF new
<1>6. \A name : FailuresOf(name)' = FailuresOf(name) \cup {i \in {Len(failures')} : name = chain[position]}
  <2> SUFFICES ASSUME NEW name
               PROVE  FailuresOf(name)' = FailuresOf(name) \cup {i \in {Len(failures')} : name = chain[position]}
    OBVIOUS
  <2>1. \A i \in DOMAIN failures' : i \in FailuresOf(name)' <=>
          i \in FailuresOf(name) \/ (i = Len(failures') /\ name = chain[position])
    BY <1>1, <1>5 DEF FailuresOf
  <2> QED BY <1>1, <1>5, <2>1 DEF FailuresOf
<1> QED BY <1>1, <1>5, <1>6

\* A provider fails once more: its failures are still the last ones, nothing is wasted and
\* the order is kept; a permanent failure, or the last attempt, spends it.
LEMMA FailureKeeps ==
  ASSUME ChainInductive, call = "calling", NEW outcome \in {"permanent", "transient"}, Record(outcome),
         chain' = chain
  PROVE  /\ failures' \in Seq([provider : Names, outcome : {"permanent", "transient"}])
         /\ NoneWasted' /\ InOrder'
         /\ \A i \in DOMAIN failures' : \E p \in 1..position : p \in DOMAIN chain /\ failures'[i].provider = chain[p]
         /\ \A name : Spent(name) => Spent(name)'
         /\ outcome = "permanent" \/ attempt = AttemptsPerProvider =>
              \A name : name = chain[position] => Spent(name)'
         /\ Len(failures') = Len(failures) + 1
         /\ \A i \in DOMAIN failures : failures'[i] = failures[i]
         /\ failures'[Len(failures')].outcome = outcome
         /\ \A name : FailuresOf(name)' = FailuresOf(name) \cup {i \in {Len(failures')} : name = chain[position]}
<1> DEFINE n == Len(failures)
           last == Len(failures')
           current == chain[position]
<1>1. /\ failures' \in Seq([provider : Names, outcome : {"permanent", "transient"}])
      /\ last = n + 1 /\ n \in Nat
      /\ \A i \in DOMAIN failures : failures'[i] = failures[i]
      /\ failures'[last].provider = current /\ failures'[last].outcome = outcome
      /\ DOMAIN failures' = DOMAIN failures \cup {last} /\ DOMAIN failures = 1..n
      /\ \A name : FailuresOf(name)' = FailuresOf(name) \cup {i \in {last} : name = current}
  BY FailureRecorded DEF ChainInductive, ChainShape
<1>2. /\ position \in DOMAIN chain /\ DOMAIN chain = 1..Len(chain) /\ Len(chain) \in Nat
      /\ attempt \in 1..AttemptsPerProvider /\ AttemptsPerProvider \in Nat \ {0}
      /\ AttemptsPerProvider' = AttemptsPerProvider
      /\ \A p, q \in DOMAIN chain : chain[p] = chain[q] => p = q
  BY AttemptsAreCounted DEF ChainInductive, ChainShape, AttemptsPerProvider
<1>3. /\ FailuresOf(current) = (n - attempt + 2)..n /\ attempt - 1 <= n
      /\ \A i \in FailuresOf(current) : failures[i].outcome = "transient"
  BY DEF ChainInductive, Latest
<1>4. NoneWasted'
  <2> SUFFICES ASSUME NEW i \in DOMAIN failures', NEW j \in DOMAIN failures',
                      i < j, failures'[i].provider = failures'[j].provider
               PROVE  failures'[i].outcome = "transient" /\ j - i < AttemptsPerProvider
    BY <1>2 DEF NoneWasted
  <2>1. CASE j \in DOMAIN failures
    <3>1. i \in DOMAIN failures
      BY <1>1, <2>1
    <3> QED BY <1>1, <2>1, <3>1 DEF ChainInductive, NoneWasted
  <2>2. CASE j = last
    <3>1. i \in DOMAIN failures
      BY <1>1, <2>2
    <3>2. i \in FailuresOf(current)
      BY <1>1, <2>2, <3>1 DEF FailuresOf
    <3> QED BY <1>1, <1>2, <1>3, <2>2, <3>1, <3>2
  <2> QED BY <1>1, <2>1, <2>2
<1>5. \A i \in DOMAIN failures' : \E p \in 1..position : p \in DOMAIN chain /\ failures'[i].provider = chain[p]
  BY <1>1, <1>2 DEF ChainInductive
<1>6. \A p \in DOMAIN chain : FailuresOf(chain[p]) # {} => p <= position
  BY <1>2 DEF ChainInductive, FailuresOf
<1>7. InOrder'
  <2> SUFFICES ASSUME NEW p \in DOMAIN chain, NEW q \in DOMAIN chain, q < p,
                      NEW i \in FailuresOf(chain[p])', NEW j \in FailuresOf(chain[q])'
               PROVE  j < i
    BY DEF InOrder
  <2>1. p # q /\ chain[p] # chain[q]
    BY <1>2
  <2>2. i \in FailuresOf(chain[p]) \/ (i = last /\ p = position)
    BY <1>1, <1>2
  <2>3. j \in FailuresOf(chain[q]) \/ (j = last /\ q = position)
    BY <1>1, <1>2
  <2>4. CASE i \in FailuresOf(chain[p]) /\ j \in FailuresOf(chain[q])
    BY <2>4 DEF ChainInductive, InOrder
  <2>5. CASE i = last /\ j \in FailuresOf(chain[q])
    BY <1>1, <2>5 DEF FailuresOf
  <2>6. CASE i \in FailuresOf(chain[p]) /\ j = last /\ q = position
    BY <1>2, <1>6, <2>6
  <2>7. CASE i = last /\ p = position /\ j = last /\ q = position
    BY <1>2, <2>7
  <2> QED BY <2>2, <2>3, <2>4, <2>5, <2>6, <2>7
<1>8. \A name : Spent(name) => Spent(name)'
  <2> SUFFICES ASSUME NEW name, Spent(name) PROVE Spent(name)'
    OBVIOUS
  <2>1. \A i \in FailuresOf(name) : i \in FailuresOf(name)' /\ failures'[i] = failures[i]
    BY <1>1 DEF FailuresOf
  <2> QED BY <1>2, <2>1 DEF Spent
<1>9. ASSUME outcome = "permanent" \/ attempt = AttemptsPerProvider, NEW name, name = current PROVE Spent(name)'
  <2>1. last \in FailuresOf(name)'
    BY <1>1, <1>9
  <2>2. CASE outcome = "permanent"
    BY <1>1, <2>1, <2>2 DEF Spent
  <2>3. CASE attempt = AttemptsPerProvider
    <3>1. n - attempt + 2 \in FailuresOf(name)'
      BY <1>1, <1>2, <1>3, <1>9, <2>1
    <3>2. last - (n - attempt + 2) = AttemptsPerProvider - 1
      BY <1>1, <1>2, <2>3
    <3> QED BY <1>2, <2>1, <3>1, <3>2 DEF Spent
  <2> QED BY <1>9, <2>2, <2>3
<1> QED BY <1>1, <1>4, <1>5, <1>7, <1>8, <1>9 DEF ChainInductive

\* Every step of the chain keeps its invariant.
LEMMA ChainKept ==
  ASSUME ChainInductive, Retry \/ FallThrough \/ GiveUp
  PROVE  ChainInductive'
<1> DEFINE current == chain[position]
<1>0. /\ call = "calling" /\ chain' = chain /\ AttemptsPerProvider' = AttemptsPerProvider
      /\ position \in DOMAIN chain /\ DOMAIN chain = 1..Len(chain) /\ Len(chain) \in Nat
      /\ attempt \in 1..AttemptsPerProvider /\ AttemptsPerProvider \in Nat \ {0}
      /\ \A p, q \in DOMAIN chain : chain[p] = chain[q] => p = q
      /\ FailuresOf(current) = (Len(failures) - attempt + 2)..Len(failures) /\ attempt - 1 <= Len(failures)
      /\ \A i \in FailuresOf(current) : failures[i].outcome = "transient"
      /\ Len(failures) \in Nat /\ DOMAIN failures = 1..Len(failures)
      /\ \A p \in DOMAIN chain : p < position => Spent(chain[p])
  BY AttemptsAreCounted DEF ChainInductive, ChainShape, Latest, AttemptsPerProvider, Retry, FallThrough, GiveUp
<1>1. CASE Retry
  <2>1. Record("transient") /\ attempt < AttemptsPerProvider /\ attempt' = attempt + 1
        /\ UNCHANGED <<chain, position, call>>
    BY <1>1 DEF Retry
  <2>2. /\ failures' \in Seq([provider : Names, outcome : {"permanent", "transient"}])
        /\ NoneWasted' /\ InOrder'
        /\ \A i \in DOMAIN failures' : \E p \in 1..position : p \in DOMAIN chain /\ failures'[i].provider = chain[p]
        /\ \A name : Spent(name) => Spent(name)'
        /\ Len(failures') = Len(failures) + 1
        /\ \A i \in DOMAIN failures : failures'[i] = failures[i]
        /\ failures'[Len(failures')].outcome = "transient"
        /\ \A name : FailuresOf(name)' = FailuresOf(name) \cup {i \in {Len(failures')} : name = current}
    BY <1>0, <2>1, FailureKeeps
  <2>3. ChainShape'
    BY <1>0, <2>1, <2>2 DEF ChainInductive, ChainShape
  <2>4. FailuresOf(current)' = FailuresOf(current) \cup {Len(failures')}
    <3>1. PICK name : name = current
      OBVIOUS
    <3>2. FailuresOf(name)' = FailuresOf(name) \cup {Len(failures')}
      BY <2>2, <3>1
    <3>3. (chain[position])' = name
      BY <2>1, <3>1
    <3> QED BY <3>1, <3>2, <3>3
  <2>5. Latest'
    <3>1. FailuresOf(current)' = (Len(failures') - attempt' + 2)..Len(failures')
      BY <1>0, <2>1, <2>2, <2>4
    <3>2. \A i \in FailuresOf(current)' : failures'[i].outcome = "transient"
      BY <1>0, <2>2, <2>4 DEF FailuresOf
    <3>3. attempt' - 1 <= Len(failures')
      BY <1>0, <2>1, <2>2
    <3> QED BY <3>1, <3>2, <3>3 DEF Latest
  <2> QED BY <1>0, <2>1, <2>2, <2>3, <2>5 DEF ChainInductive
<1>2. CASE FallThrough \/ GiveUp
  <2>1. PICK outcome \in {"permanent", "transient"} :
          Record(outcome) /\ (outcome = "permanent" \/ attempt >= AttemptsPerProvider)
    BY <1>2 DEF FallThrough, GiveUp, Exhausting
  <2>2. /\ failures' \in Seq([provider : Names, outcome : {"permanent", "transient"}])
        /\ NoneWasted' /\ InOrder'
        /\ \A i \in DOMAIN failures' : \E p \in 1..position : p \in DOMAIN chain /\ failures'[i].provider = chain[p]
        /\ \A name : Spent(name) => Spent(name)'
        /\ \A name : name = current => Spent(name)'
        /\ Len(failures') = Len(failures) + 1
    <3>1. outcome = "permanent" \/ attempt = AttemptsPerProvider
      BY <1>0, <2>1
    <3> QED BY <1>0, <2>1, <3>1, FailureKeeps
  <2>3. CASE FallThrough
    <3>1. position' = position + 1 /\ attempt' = 1 /\ call' = call /\ position + 1 \in DOMAIN chain
      BY <1>0, <2>3 DEF FallThrough
    <3>2. ChainShape'
      BY <1>0, <2>2, <3>1 DEF ChainInductive, ChainShape
    <3>3. \A i \in DOMAIN failures' : failures'[i].provider # chain[position + 1]
      BY <1>0, <2>2, <3>1
    <3>4. FailuresOf(chain[position])' = {}
      BY <1>0, <3>1, <3>3 DEF FailuresOf
    <3>5. Latest'
      BY <1>0, <2>2, <3>1, <3>4 DEF Latest
    <3>6. \A i \in DOMAIN failures' : \E p \in 1..position' : p \in DOMAIN chain' /\ failures'[i].provider = chain'[p]
      <4>1. \A p \in 1..position : p \in 1..position'
        BY <1>0, <3>1
      <4> QED BY <1>0, <2>2, <4>1
    <3>7. \A p \in DOMAIN chain : p < position' => Spent(chain[p])'
      <4> SUFFICES ASSUME NEW p \in DOMAIN chain, p < position' PROVE Spent(chain[p])'
        OBVIOUS
      <4>1. PICK name : name = chain[p]
        OBVIOUS
      <4>2. Spent(name)'
        BY <1>0, <2>2, <3>1, <4>1
      <4>3. (chain[p])' = name
        BY <1>0, <4>1
      <4> QED BY <4>2, <4>3
    <3> QED BY <1>0, <2>2, <3>1, <3>2, <3>5, <3>6, <3>7 DEF ChainInductive
  <2>4. CASE GiveUp
    <3>1. UNCHANGED <<position, attempt>> /\ call' = "failed" /\ position = Len(chain)
      BY <2>4 DEF GiveUp
    <3>2. ChainShape'
      BY <1>0, <2>2, <3>1 DEF ChainInductive, ChainShape
    <3>3. Latest'
      BY <3>1 DEF Latest
    <3>4. \A p \in DOMAIN chain : Spent(chain[p])'
      <4> SUFFICES ASSUME NEW p \in DOMAIN chain PROVE Spent(chain[p])'
        OBVIOUS
      <4>1. PICK name : name = chain[p]
        OBVIOUS
      <4>2. p < position \/ p = position
        BY <1>0, <3>1
      <4>3. Spent(name)'
        BY <1>0, <2>2, <4>1, <4>2
      <4>4. (chain[p])' = name
        BY <1>0, <4>1
      <4> QED BY <4>3, <4>4
    <3> QED BY <1>0, <2>2, <3>1, <3>2, <3>3, <3>4 DEF ChainInductive
  <2> QED BY <1>2, <2>3, <2>4
<1> QED BY <1>1, <1>2

(***************************************************************************)
(* The record.                                                             *)
(***************************************************************************)

\* A record has cells, and before there is one it has none.
LEMMA RowsHaveCells ==
  ASSUME NEW cells, IsRow(cells)
  PROVE  cells # NoCells
<1>1. "reference" \in DOMAIN cells
  BY DEF IsRow, BusinessFields, TextFields
<1>2. DOMAIN NoCells = {}
  BY DEF NoCells
<1> QED BY <1>1, <1>2

\* What a reviewer types in a field is what the field may hold.
LEMMA CorrectedRow ==
  ASSUME NEW cells, IsRow(cells), NEW change \in Changes
  PROVE  /\ DOMAIN change # {} /\ DOMAIN change \subseteq BusinessFields
         /\ IsRow([f \in BusinessFields |-> IF f \in DOMAIN change THEN change[f] ELSE cells[f]])
<1>1. DOMAIN change # {} /\ DOMAIN change \subseteq BusinessFields
  BY IntakeAssumption
<1>2. ASSUME NEW f \in DOMAIN change PROVE change[f] \in IF f \in AmountFields THEN Text ELSE Classes
  <2>1. IsRow([SoundCells EXCEPT ![f] = change[f]]) /\ DOMAIN SoundCells = BusinessFields /\ f \in BusinessFields
    BY <1>1, IntakeAssumption DEF IsRow
  <2> QED BY <2>1 DEF IsRow
<1> QED BY <1>1, <1>2 DEF IsRow

\* The boundary of the providers leaves what the fields may hold.
LEMMA ExtractedRow ==
  ASSUME NEW cells, IsRow(cells)
  PROVE  IsRow([f \in BusinessFields |-> FromProvider(f, cells[f])])
<1>1. EmptyText \in Text
  <2>1. << <<>> >> \in Seq(Seq(0..9)) /\ Len(<< <<>> >>) = 1
    BY EmptySeq
  <2>2. <<>> \in Seq(Separators) /\ Len(<<>>) = 0
    BY EmptySeq
  <2>3. EmptyText \in [minus : BOOLEAN, groups : Seq(Seq(0..9)), seps : Seq(Separators)]
    BY <2>1, <2>2 DEF EmptyText
  <2>4. Len(EmptyText.groups) = Len(EmptyText.seps) + 1
    BY <2>1, <2>2 DEF EmptyText
  <2> QED BY <2>3, <2>4 DEF Text
<1>2. ASSUME NEW f \in BusinessFields
      PROVE  FromProvider(f, cells[f]) \in IF f \in AmountFields THEN Text ELSE Classes
  BY <1>1 DEF FromProvider, AbsentCell, IsRow, Classes
<1> QED BY <1>2 DEF IsRow

\* A score that is brought back is between 0 and 1.
LEMMA ClampedScore ==
  ASSUME NEW score \in Int
  PROVE  Clamp(score) \in Thousandths
<1>1. PICK low \in Int : low = (IF score <= 1000 THEN score ELSE 1000) /\ low <= 1000
  OBVIOUS
<1>2. Min({1000, score}) = low
  BY <1>1 DEF Min
<1>3. PICK high \in Thousandths : high = IF low >= 0 THEN low ELSE 0
  BY <1>1 DEF Thousandths
<1>4. Max({0, low}) = high
  BY <1>3 DEF Max
<1>5. Clamp(score) = high
  <2>1. Clamp(score) = Max({0, Min({1000, score})})
    BY DEF Clamp
  <2> QED BY <1>2, <1>4, <2>1
<1> QED BY <1>3, <1>5

\* The score of a record is its least certain required field's.
LEMMA ScoreOfRecord ==
  ASSUME NEW certainty \in [BusinessFields -> Thousandths]
  PROVE  /\ RecordScore(certainty) \in Thousandths
         /\ \E f \in RequiredFields : RecordScore(certainty) = certainty[f]
         /\ \A f \in RequiredFields : certainty[f] >= RecordScore(certainty)
         /\ LeastScore(certainty) = RecordScore(certainty)
<1> DEFINE s == {certainty[f] : f \in RequiredFields}
<1>1. RequiredFields \subseteq BusinessFields /\ "reference" \in RequiredFields
  BY DEF RequiredFields, BusinessFields, AmountFields, DateFields, TextFields, EnumFields
<1>2. s \subseteq Thousandths /\ s # {}
  BY <1>1
<1>3. Min(s) \in s /\ \A n \in s : Min(s) <= n
  <2> HIDE DEF s
  <2>1. s \in SUBSET Nat
    BY <1>2 DEF Thousandths
  <2> QED BY <1>2, <2>1, MinOfNaturals
<1>4. RecordScore(certainty) = Min(s)
  BY DEF RecordScore
<1>5. RecordScore(certainty) \in Thousandths
  <2> HIDE DEF s
  <2>1. Min(s) \in Thousandths
    BY <1>2, <1>3, Zenon
  <2> QED BY <1>4, <2>1, Zenon
<1>6. \E f \in RequiredFields : RecordScore(certainty) = certainty[f]
  BY <1>3, <1>4
<1>7. \A f \in RequiredFields : certainty[f] >= RecordScore(certainty)
  BY <1>1, <1>2, <1>3, <1>4
<1>8. LeastScore(certainty) = RecordScore(certainty)
  <2> DEFINE P(least) == \A f \in RequiredFields : certainty[f] >= least
  <2>1. LeastScore(certainty) = CHOOSE least \in s : P(least)
    BY DEF LeastScore
  <2>2. RecordScore(certainty) \in s /\ P(RecordScore(certainty))
    BY <1>3, <1>4, <1>7
  <2>3. LeastScore(certainty) \in s /\ P(LeastScore(certainty))
    BY <2>1, <2>2, Zenon
  <2>4. PICK least \in Thousandths : least = LeastScore(certainty)
    <3> HIDE DEF s, P
    <3>1. LeastScore(certainty) \in Thousandths
      BY <1>2, <2>3, Zenon
    <3> QED BY <3>1, Zenon
  <2>5. PICK score \in Thousandths : score = RecordScore(certainty)
    BY <1>5
  <2>6. least >= score
    BY <1>7, <2>3, <2>4, <2>5
  <2>7. score >= least
    BY <1>6, <2>3, <2>4, <2>5
  <2>8. least = score
    BY <2>6, <2>7 DEF Thousandths
  <2> QED BY <2>4, <2>5, <2>8
<1> QED BY <1>5, <1>6, <1>7, <1>8

\* The two ways a confidence is written down, against a threshold.
LEMMA Roundings ==
  ASSUME NEW score \in Thousandths
  PROVE  /\ QuantizedScore(score) \in 0..100 /\ FormattedScore(score) \in 0..100
         /\ QuantizedScore(score) < Threshold <=> score < 10 * Threshold - 5
         /\ FormattedScore(score) < Threshold <=>
              score < 10 * Threshold - 5 \/ (score = 10 * Threshold - 5 /\ score \in TiesDown)
<1>1. Threshold \in 0..100
  BY IntakeAssumption
<1>2. score \in TiesDown => score % 10 = 5
  BY AmountsAssumption
<1>3. score \in Int /\ score >= 0 /\ score <= 1000
  BY DEF Thousandths
<1>4. PICK tens \in 0..100, units \in 0..9 : score = 10 * tens + units
  <2>1. score \div 10 \in 0..100 /\ score % 10 \in 0..9 /\ score = (10 * (score \div 10)) + (score % 10)
    BY <1>3
  <2> QED BY <2>1
<1>5. score \div 10 = tens /\ score % 10 = units
  BY <1>4
<1>6. (score + 5) \div 10 = IF units >= 5 THEN tens + 1 ELSE tens
  BY <1>4
<1>7. units >= 5 => tens < 100
  BY <1>3, <1>4
<1>8. QuantizedScore(score) = IF units >= 5 THEN tens + 1 ELSE tens
  BY <1>6 DEF QuantizedScore
<1>9. FormattedScore(score) = IF units >= 5 /\ score \notin TiesDown THEN tens + 1 ELSE tens
  BY <1>2, <1>5, <1>6 DEF FormattedScore
<1>10. QuantizedScore(score) \in 0..100 /\ FormattedScore(score) \in 0..100
  BY <1>4, <1>7, <1>8, <1>9
<1>11. QuantizedScore(score) < Threshold <=> score < 10 * Threshold - 5
  BY <1>1, <1>4, <1>8
<1>12. FormattedScore(score) < Threshold <=>
              score < 10 * Threshold - 5 \/ (score = 10 * Threshold - 5 /\ score \in TiesDown)
  <2>1. CASE score \in TiesDown
    BY <1>1, <1>2, <1>4, <1>5, <1>9, <2>1
  <2>2. CASE score \notin TiesDown
    BY <1>1, <1>4, <1>9, <2>2
  <2> QED BY <2>1, <2>2
<1> QED BY <1>10, <1>11, <1>12

(***************************************************************************)
(* The inductive invariant.                                                *)
(***************************************************************************)

\* The import, and a correction, leave the verdict that the cells have.
LEMMA InitInductive == Init => Inductive
<1> SUFFICES ASSUME Init PROVE Inductive
  OBVIOUS
<1>1. ChainInductive
  BY ChainStarts DEF Init
<1>2. CASE Unused /\ source = "CSV"
  <2>1. PICK row \in CsvRows : /\ source = "CSV" /\ raw = row.raw /\ scores = NoScores
                               /\ confidence = row.confidence
                               /\ errors = Verdict("CSV", row.raw, row.confidence)
    BY <1>2 DEF Init, Configured, Unused
  <2>2. IsRow(row.raw) /\ row.confidence.problem \in {"none", "NOT_NUMERIC", "AMOUNT_OUT_OF_RANGE"}
        /\ MaxCorrections \in Nat
    BY IntakeAssumption
  <2>3. corrections = 0 /\ call = "unused"
    BY <1>2 DEF Init, Unused
  <2>4. Held
    BY <2>1, <2>2, <2>3 DEF Held
  <2> QED BY <1>1, <2>4 DEF Inductive
<1>3. CASE source = "PDF"
  <2>1. Untouched
    BY <1>3 DEF Init, Untouched
  <2> QED BY <1>1, <2>1 DEF Inductive
<1> QED BY <1>2, <1>3 DEF Init

\* What a provider answered with becomes a record with its own verdict, or no record.
LEMMA ExtractedInductive ==
  ASSUME Inductive, Extracted
  PROVE  Inductive'
<1>1. ChainInductive' /\ call = "calling" /\ call' = "answered"
  BY ChainFrame DEF Inductive, Extracted, Answer
<1>2. Untouched
  BY <1>1 DEF Inductive, Held
<1>3. CASE UNCHANGED recordVars
  <2>1. Untouched'
    BY <1>2, <1>3 DEF Untouched, recordVars
  <2> QED BY <1>1, <2>1 DEF Inductive
<1>4. CASE ~UNCHANGED recordVars
  <2>1. PICK row \in PdfRows :
             /\ raw' = [f \in BusinessFields |-> FromProvider(f, row.raw[f])]
             /\ scores' = [f \in BusinessFields |-> Clamp(row.scores[f])]
             /\ confidence' = Reading("none", {QuantizedScore(RecordScore(scores'))})
             /\ errors' = Verdict("PDF", raw', confidence')
    BY <1>4 DEF Extracted
  <2>2. UNCHANGED <<source, corrections, meant>>
    BY <1>4 DEF Extracted
  <2>3. IsRow(row.raw) /\ row.scores \in [BusinessFields -> Int] /\ MaxCorrections \in Nat
    BY IntakeAssumption
  <2>4. IsRow(raw')
    BY <2>1, <2>3, ExtractedRow
  <2>5. scores' \in [BusinessFields -> Thousandths]
    <3>1. \A f \in BusinessFields : row.scores[f] \in Int
      BY <2>3
    <3>2. \A f \in BusinessFields : Clamp(row.scores[f]) \in Thousandths
      BY <3>1, ClampedScore
    <3> QED BY <2>1, <3>2
  <2>6. source' = "PDF" /\ corrections' = 0
    BY <1>2, <2>2 DEF Untouched
  <2>7. confidence' = Reading("none", {CertaintyOf(scores)'})
    BY <2>1, <2>6 DEF CertaintyOf
  <2>8. errors' = Verdict(source', raw', confidence')
    BY <2>1, <2>6
  <2>9. Held'
    BY <1>1, <2>3, <2>4, <2>5, <2>6, <2>7, <2>8 DEF Held
  <2> QED BY <1>1, <2>9 DEF Inductive
<1> QED BY <1>3, <1>4

\* A correction leaves the verdict that the cells and the confidence have after it.
LEMMA CorrectInductive ==
  ASSUME Inductive, NEW change \in Changes, Correct(change)
  PROVE  Inductive'
<1>1. ChainInductive'
  BY ChainFrame DEF Inductive, Correct
<1>2. Held
  BY DEF Inductive, Untouched, Correct
<1>3. IsRow(raw') /\ source' = source /\ call' = call
  BY <1>2, CorrectedRow DEF Correct, Held, chainVars
<1>4. corrections' = corrections + 1 /\ corrections' \in 0..MaxCorrections /\ corrections' # 0
  BY <1>2, IntakeAssumption DEF Held, Correct
<1>5. errors' = Verdict(source', raw', confidence')
  BY <1>3 DEF Correct
<1>6. CASE source = "CSV"
  <2>1. scores' = scores /\ confidence' = confidence
    BY <1>6 DEF Correct, Reviewed
  <2>2. Held'
    BY <1>2, <1>3, <1>4, <1>5, <1>6, <2>1 DEF Held
  <2> QED BY <1>1, <2>2 DEF Inductive
<1>7. CASE source = "PDF"
  <2>1. /\ scores' = [g \in BusinessFields |-> IF g \in DOMAIN change THEN 1000 ELSE scores[g]]
        /\ confidence' = Reading("none", {FormattedScore(RecordScore(scores'))})
    BY <1>7 DEF Correct, Reviewed
  <2>2. scores \in [BusinessFields -> Thousandths]
    BY <1>2, <1>7 DEF Held
  <2>3. scores' \in [BusinessFields -> Thousandths]
    BY <2>1, <2>2 DEF Thousandths
  <2>4. confidence' = Reading("none", {CertaintyOf(scores)'})
    BY <1>4, <2>1 DEF CertaintyOf
  <2>5. Held'
    BY <1>2, <1>3, <1>4, <1>5, <1>7, <2>3, <2>4 DEF Held
  <2> QED BY <1>1, <2>5 DEF Inductive
<1> QED BY <1>2, <1>6, <1>7 DEF Held

\* Every step leaves the chain in order and the record with its own verdict.
LEMMA StepInductive ==
  ASSUME Inductive, [Next]_vars
  PROVE  Inductive'
<1>1. CASE Extracted
  BY <1>1, ExtractedInductive
<1>2. CASE Attempting
  <2>1. ChainInductive' /\ call = "calling"
    BY <1>2, ChainKept DEF Attempting, Inductive, Retry, FallThrough, GiveUp
  <2>2. Untouched'
    BY <1>2, <2>1 DEF Inductive, Held, Untouched, Attempting, recordVars
  <2> QED BY <2>1, <2>2 DEF Inductive
<1>3. CASE \E change \in Changes : Correct(change)
  BY <1>3, CorrectInductive
<1>4. CASE UNCHANGED vars
  <2>1. ChainInductive'
    BY <1>4, ChainFrame DEF vars, Inductive
  <2>2. call' = call /\ UNCHANGED recordVars
    BY <1>4 DEF vars, chainVars
  <2>3. Untouched => Untouched'
    BY <2>2 DEF Untouched, recordVars
  <2>4. Held => Held'
    <3>1. source' = source /\ raw' = raw /\ scores' = scores /\ confidence' = confidence /\ errors' = errors
          /\ corrections' = corrections
      BY <2>2 DEF recordVars
    <3>2. CertaintyOf(scores)' = CertaintyOf(scores)
      BY <3>1 DEF CertaintyOf
    <3> QED BY <2>2, <3>1, <3>2 DEF Held
  <2> QED BY <2>1, <2>3, <2>4 DEF Inductive
<1> QED BY <1>1, <1>2, <1>3, <1>4 DEF Next

\* Every reachable state has its chain in order and, once there is a record, its own verdict.
THEOREM AlwaysInductive == Spec => []Inductive
<1>1. Init => Inductive
  BY InitInductive
<1>2. Inductive /\ [Next]_vars => Inductive'
  BY StepInductive
<1> QED BY <1>1, <1>2, PTL DEF Spec

(***************************************************************************)
(* What the errors of a record are.                                        *)
(***************************************************************************)

\* The errors of a field are what the rules say of it, those of the confidence what they
\* say of the confidence, and there are no others.
LEMMA ErrorsAreSaid ==
  ASSUME Held
  PROVE  /\ \A f \in BusinessFields : \A code : <<f, code>> \in errors <=> Says(f, code, raw, Existing)
         /\ \A code : <<Confidence, code>> \in errors <=> SaysOfConfidence(code, source, confidence, Threshold)
         /\ \A e \in errors : e = <<e[1], e[2]>> /\ e[1] \in BusinessFields \cup {Confidence}
<1>1. errors = ValidateRecord(source, raw, confidence, Existing, Threshold)
  BY DEF Held, Verdict
<1>2. \A f \in BusinessFields : \A code : <<f, code>> \in errors <=> Says(f, code, raw, Existing)
  BY <1>1, FieldErrors
<1>3. \A code : <<Confidence, code>> \in errors <=> SaysOfConfidence(code, source, confidence, Threshold)
  BY <1>1, ConfidenceErrors
<1>4. \A e \in errors : e = <<e[1], e[2]>> /\ e[1] \in BusinessFields \cup {Confidence}
  BY <1>1, ErrorsNameFields
<1> QED BY <1>2, <1>3, <1>4

\* The confidence of an extraction is between 0 and 1, and low exactly when its least
\* score is on the wrong side of the line.
LEMMA CertaintyIsBounded ==
  ASSUME NEW certainty \in [BusinessFields -> Thousandths]
  PROVE  /\ CertaintyOf(certainty) \in 0..100
         /\ CertaintyOf(certainty) < Threshold <=>
              \/ LeastScore(certainty) < 10 * Threshold - 5
              \/ /\ LeastScore(certainty) = 10 * Threshold - 5
                 /\ LeastScore(certainty) \in TiesDown /\ corrections # 0
<1>1. PICK score \in Thousandths : score = RecordScore(certainty)
  BY ScoreOfRecord
<1>2. LeastScore(certainty) = score
  BY <1>1, ScoreOfRecord
<1>3. CertaintyOf(certainty) = IF corrections = 0 THEN QuantizedScore(score) ELSE FormattedScore(score)
  BY <1>1 DEF CertaintyOf
<1>4. /\ QuantizedScore(score) \in 0..100 /\ FormattedScore(score) \in 0..100
      /\ QuantizedScore(score) < Threshold <=> score < 10 * Threshold - 5
      /\ FormattedScore(score) < Threshold <=>
           score < 10 * Threshold - 5 \/ (score = 10 * Threshold - 5 /\ score \in TiesDown)
  BY Roundings
<1>5. CASE corrections = 0
  BY <1>2, <1>3, <1>4, <1>5
<1>6. CASE corrections # 0
  BY <1>2, <1>3, <1>4, <1>6
<1> QED BY <1>5, <1>6

\* What is said of the confidence of an extraction: that it is low, or nothing.
LEMMA DoubtSaid ==
  ASSUME Held, source = "PDF"
  PROVE  /\ scores \in [BusinessFields -> Thousandths]
         /\ \A code : <<Confidence, code>> \in errors <=> code = "LOW_CONFIDENCE" /\ CertaintyOf(scores) < Threshold
<1>1. scores \in [BusinessFields -> Thousandths] /\ confidence = Reading("none", {CertaintyOf(scores)})
  BY DEF Held
<1>2. confidence.problem = "none" /\ confidence.value = {CertaintyOf(scores)}
  BY <1>1 DEF Reading
<1>3. CertaintyOf(scores) \in 0..100
  BY <1>1, CertaintyIsBounded
<1>4. \A code : <<Confidence, code>> \in errors <=> SaysOfConfidence(code, source, confidence, Threshold)
  BY ErrorsAreSaid
<1> QED BY <1>1, <1>2, <1>3, <1>4 DEF SaysOfConfidence

\* The codes there are.
LEMMA CodesAreKnown ==
  ASSUME Held, NEW e \in errors
  PROVE  e[2] \in Codes
<1>1. e = <<e[1], e[2]>> /\ e[1] \in BusinessFields \cup {Confidence}
  BY ErrorsAreSaid
<1>2. CASE e[1] \in BusinessFields
  <2>1. Says(e[1], e[2], raw, Existing)
    BY <1>1, <1>2, ErrorsAreSaid
  <2>2. ProblemOf(e[1], raw) \in
          {"none", "NOT_NUMERIC", "AMOUNT_SCALE_EXCEEDED", "AMOUNT_OUT_OF_RANGE", "INVALID_DATE"}
    BY <1>2, CellReading DEF Held
  <2> QED BY <2>1, <2>2 DEF Says, Codes
<1>3. CASE e[1] = Confidence
  <2>1. <<Confidence, e[2]>> \in errors
    BY <1>1, <1>3
  <2>2. SaysOfConfidence(e[2], source, confidence, Threshold)
    BY <2>1, ErrorsAreSaid
  <2>3. confidence.problem \in {"none", "NOT_NUMERIC", "AMOUNT_OUT_OF_RANGE"}
    BY DEF Held, Reading
  <2> QED BY <2>2, <2>3 DEF SaysOfConfidence, Codes
<1> QED BY <1>1, <1>2, <1>3

(***************************************************************************)
(* The theorems.                                                           *)
(***************************************************************************)

\* No call to a provider is wasted and no provider is left out, for any configuration and
\* any number of attempts.
THEOREM EveryAttemptIsWellSpent == Spec => []AttemptsWellSpent
<1>1. Inductive => AttemptsWellSpent
  <2> SUFFICES ASSUME ChainInductive PROVE AttemptsWellSpent
    BY DEF Inductive
  <2> QED BY DEF ChainInductive, AttemptsWellSpent
<1> QED BY <1>1, AlwaysInductive, PTL

\* Every variable holds what the code may put there.
THEOREM TypeCorrect == Spec => []TypeOK
<1>1. ASSUME Inductive PROVE TypeOK
  <2>1. /\ call \in {"unused", "calling", "answered", "failed"}
        /\ position \in 1..Len(chain) \/ call = "unused"
        /\ attempt \in 1..Attempts
    <3>1. ChainShape
      BY <1>1 DEF Inductive, ChainInductive
    <3>2. AttemptsPerProvider \in 1..Attempts
      BY AttemptsAssumption DEF AttemptsPerProvider
    <3> QED BY <3>1, <3>2, AttemptsAssumption DEF ChainShape
  <2>2. CASE Untouched
    <3>1. confidence.problem = "none" /\ confidence.value = {} /\ MaxCorrections \in Nat
      BY <2>2, IntakeAssumption DEF Untouched, Reading
    <3>2. source = "PDF" /\ raw = NoCells /\ scores = NoScores /\ errors = {} /\ corrections \in 0..MaxCorrections
      BY <2>2, <3>1 DEF Untouched
    <3>3. source = "PDF" => confidence.problem = "none" /\ confidence.value \subseteq 0..100
      BY <3>1
    <3>4. errors \subseteq (BusinessFields \cup {Confidence}) \X Codes
      BY <3>2
    <3> HIDE DEF NoCells, NoScores
    <3>5. source \in {"CSV", "PDF"} /\ (raw # NoCells => DOMAIN raw = BusinessFields)
      BY <3>2
    <3> QED BY <2>1, <3>2, <3>3, <3>4, <3>5 DEF TypeOK
  <2>3. CASE Held
    <3>1. DOMAIN raw = BusinessFields /\ source \in {"CSV", "PDF"} /\ corrections \in 0..MaxCorrections
          /\ (scores = NoScores \/ scores \in [BusinessFields -> Thousandths])
      BY <2>3 DEF Held, IsRow
    <3>2. source = "PDF" => confidence.problem = "none" /\ confidence.value \subseteq 0..100
      <4> SUFFICES ASSUME source = "PDF" PROVE confidence.problem = "none" /\ confidence.value \subseteq 0..100
        OBVIOUS
      <4>1. scores \in [BusinessFields -> Thousandths] /\ confidence = Reading("none", {CertaintyOf(scores)})
        BY <2>3 DEF Held
      <4>2. CertaintyOf(scores) \in 0..100
        BY <4>1, CertaintyIsBounded
      <4> QED BY <4>1, <4>2 DEF Reading
    <3>3. \A e \in errors : e \in (BusinessFields \cup {Confidence}) \X Codes
      <4> TAKE e \in errors
      <4>1. e = <<e[1], e[2]>> /\ e[1] \in BusinessFields \cup {Confidence}
        BY <2>3, ErrorsAreSaid
      <4>2. e[2] \in Codes
        BY <2>3, CodesAreKnown
      <4> QED BY <4>1, <4>2
    <3> QED BY <2>1, <3>1, <3>2, <3>3 DEF TypeOK
  <2> QED BY <1>1, <2>2, <2>3 DEF Inductive
<1> QED BY <1>1, AlwaysInductive, PTL

\* A field that is there but unreadable is not reported as missing too, and an amount
\* nobody could read never makes the others look inconsistent.
THEOREM NoSecondHand == Spec => []NoSecondHandErrors
<1>1. ASSUME Held PROVE NoSecondHandErrors
  <2>1. ASSUME NEW e1 \in errors, NEW e2 \in errors, e1[1] = e2[1], e1[2] = "REQUIRED_FIELD_MISSING"
        PROVE  e1 = e2
    <3>1. e1 = <<e1[1], e1[2]>> /\ e2 = <<e1[1], e2[2]>> /\ e1[1] \in BusinessFields \cup {Confidence}
      BY <1>1, <2>1, ErrorsAreSaid
    <3>2. e1[1] # Confidence
      <4> SUFFICES ASSUME e1[1] = Confidence PROVE FALSE
        OBVIOUS
      <4>1. <<Confidence, "REQUIRED_FIELD_MISSING">> \in errors
        BY <2>1, <3>1
      <4>2. SaysOfConfidence("REQUIRED_FIELD_MISSING", source, confidence, Threshold)
        BY <1>1, <4>1, ErrorsAreSaid
      <4>3. confidence.problem \in {"none", "NOT_NUMERIC", "AMOUNT_OUT_OF_RANGE"}
        BY <1>1 DEF Held, Reading
      <4> QED BY <4>2, <4>3 DEF SaysOfConfidence
    <3>3. PICK f \in BusinessFields : f = e1[1]
      BY <3>1, <3>2
    <3>4. Says(f, "REQUIRED_FIELD_MISSING", raw, Existing) /\ Says(f, e2[2], raw, Existing)
      BY <1>1, <2>1, <3>1, <3>3, ErrorsAreSaid
    <3>5. e2[2] = "REQUIRED_FIELD_MISSING"
      BY <1>1, <3>4, MissingIsAll DEF Held
    <3> QED BY <2>1, <3>1, <3>5
  <2>2. ASSUME <<"net_amount", "NET_AMOUNT_MISMATCH">> \in errors
        PROVE  \A f \in AmountFields : NormalizeAmount(raw[f]).problem = "none"
    <3>1. "net_amount" \in BusinessFields /\ AmountFields \subseteq BusinessFields
      BY DEF BusinessFields, AmountFields
    <3>2. Says("net_amount", "NET_AMOUNT_MISMATCH", raw, Existing)
      BY <1>1, <2>2, <3>1, ErrorsAreSaid
    <3>3. \A f \in AmountFields : ProblemOf(f, raw) = "none"
      BY <1>1, <3>2, MismatchedAreRead DEF Held
    <3>4. \A f \in AmountFields : ProblemOf(f, raw) = NormalizeAmount(raw[f]).problem
      BY <1>1, <3>1, CellReading DEF Held
    <3> QED BY <3>3, <3>4
  <2> QED BY <2>1, <2>2 DEF NoSecondHandErrors
<1>2. Untouched => NoSecondHandErrors
  BY DEF Untouched, NoSecondHandErrors
<1>3. Inductive => NoSecondHandErrors
  BY <1>1, <1>2 DEF Inductive
<1> QED BY <1>3, AlwaysInductive, PTL

\* A required field the model was unsure about and nobody touched still blocks approval,
\* and nothing else does, wherever the threshold is.
THEOREM DoubtIsExact == Spec => []DoubtBlocks
<1>1. ASSUME Held, source = "PDF"
      PROVE  LET least == LeastScore(scores)
                 line  == 10 * Threshold - 5
             IN  (<<Confidence, "LOW_CONFIDENCE">> \in errors) <=>
                   (least < line \/ (least = line /\ line \in TiesDown /\ corrections > 0))
  <2>1. scores \in [BusinessFields -> Thousandths]
        /\ (<<Confidence, "LOW_CONFIDENCE">> \in errors <=> CertaintyOf(scores) < Threshold)
    BY <1>1, DoubtSaid
  <2>2. CertaintyOf(scores) < Threshold <=>
              \/ LeastScore(scores) < 10 * Threshold - 5
              \/ /\ LeastScore(scores) = 10 * Threshold - 5
                 /\ LeastScore(scores) \in TiesDown /\ corrections # 0
    BY <2>1, CertaintyIsBounded
  <2>3. corrections # 0 <=> corrections > 0
    BY <1>1, IntakeAssumption DEF Held
  <2> QED BY <2>1, <2>2, <2>3
<1>2. Inductive => DoubtBlocks
  <2> SUFFICES ASSUME Inductive, raw # NoCells, source = "PDF"
               PROVE  LET least == LeastScore(scores)
                          line  == 10 * Threshold - 5
                      IN  (<<Confidence, "LOW_CONFIDENCE">> \in errors) <=>
                            (least < line \/ (least = line /\ line \in TiesDown /\ corrections > 0))
    BY Zenon DEF DoubtBlocks
  <2>1. Held
    BY DEF Inductive, Untouched
  <2> QED BY <1>1, <2>1
<1> QED BY <1>2, AlwaysInductive, PTL

\* The verdict on a record of which nothing is said is that it is valid.
LEMMA NothingSaid ==
  ASSUME NEW from, NEW cells, NEW certainty,
         \A f \in BusinessFields : \A code : ~Says(f, code, cells, Existing),
         \A code : ~SaysOfConfidence(code, from, certainty, Threshold)
  PROVE  Verdict(from, cells, certainty) = {}
<1> SUFFICES ASSUME NEW e \in ValidateRecord(from, cells, certainty, Existing, Threshold) PROVE FALSE
  BY DEF Verdict
<1>1. e = <<e[1], e[2]>> /\ e[1] \in BusinessFields \cup {Confidence}
  BY ErrorsNameFields
<1>2. CASE e[1] \in BusinessFields
  <2>1. <<e[1], e[2]>> \in ValidateRecord(from, cells, certainty, Existing, Threshold)
    BY <1>1
  <2>2. Says(e[1], e[2], cells, Existing)
    BY <1>2, <2>1, FieldErrors
  <2> QED BY <1>2, <2>2
<1>3. CASE e[1] = Confidence
  <2>1. <<Confidence, e[2]>> \in ValidateRecord(from, cells, certainty, Existing, Threshold)
    BY <1>1, <1>3
  <2> QED BY <2>1, ConfidenceErrors
<1> QED BY <1>1, <1>2, <1>3

\* The sound cells have no error, whatever the source.
LEMMA SoundSaid ==
  ASSUME NEW f \in BusinessFields, NEW code
  PROVE  ~Says(f, code, SoundCells, Existing)
<1>1. ValidateRecord("CSV", SoundCells, Reading("none", {}), Existing, Threshold) = {}
  BY IntakeAssumption
<1>2. <<f, code>> \notin ValidateRecord("CSV", SoundCells, Reading("none", {}), Existing, Threshold)
  BY <1>1
<1> QED BY <1>2, FieldErrors

\* The fields to look at are closed under what the errors of one say of another: after them,
\* no field has an error.
LEMMA RepairedCells ==
  ASSUME Held, NEW looked, FieldsOf(errors) \subseteq looked, NEW repaired,
         LET touched == WithAmounts(looked) \ {Confidence}
         IN  \A f \in BusinessFields : repaired[f] = IF f \in touched THEN SoundCells[f] ELSE raw[f]
  PROVE  \A f \in BusinessFields : \A code : ~Says(f, code, repaired, Existing)
<1> DEFINE touched == WithAmounts(looked) \ {Confidence}
<1>1. \A f \in BusinessFields : repaired[f] = IF f \in touched THEN SoundCells[f] ELSE raw[f]
  OBVIOUS
<1>2. AmountFields \subseteq BusinessFields /\ Confidence \notin BusinessFields /\ "net_amount" \in AmountFields
  BY ConfidenceIsApart DEF AmountFields, BusinessFields
<1>3. (\E f \in AmountFields : f \in touched) => \A f \in AmountFields : f \in touched
  BY <1>2 DEF WithAmounts
<1>4. \A f \in BusinessFields : f \in FieldsOf(errors) => f \in touched
  BY <1>2 DEF WithAmounts
<1> HIDE DEF touched
<1> TAKE f \in BusinessFields
<1> TAKE code
<1>5. CASE f \in touched
  <2>1. repaired[f] = SoundCells[f]
    BY <1>1, <1>5
  <2>2. f = "net_amount" => \A g \in AmountFields : repaired[g] = SoundCells[g]
    BY <1>1, <1>2, <1>3, <1>5
  <2>3. Says(f, code, repaired, Existing) <=> Says(f, code, SoundCells, Existing)
    BY <2>1, <2>2, FieldsAreLocal
  <2> QED BY <2>3, SoundSaid
<1>6. CASE f \notin touched
  <2>1. repaired[f] = raw[f]
    BY <1>1, <1>6
  <2>2. f = "net_amount" => \A g \in AmountFields : repaired[g] = raw[g]
    BY <1>1, <1>2, <1>3, <1>6
  <2>3. Says(f, code, repaired, Existing) <=> Says(f, code, raw, Existing)
    BY <2>1, <2>2, FieldsAreLocal
  <2>4. <<f, code>> \notin errors
    <3> SUFFICES ASSUME <<f, code>> \in errors PROVE FALSE
      OBVIOUS
    <3>1. <<f, code>>[1] \in FieldsOf(errors)
      BY DEF FieldsOf
    <3> QED BY <1>4, <1>6, <3>1
  <2>5. ~Says(f, code, raw, Existing)
    BY <2>4, ErrorsAreSaid
  <2> QED BY <2>3, <2>5
<1> QED BY <1>5, <1>6

\* A reviewer who has looked at every field the model was unsure of has made the record
\* certain, but for a tie of the two roundings.
LEMMA RepairedCertainty ==
  ASSUME Held, source = "PDF", NEW touched, NEW left,
         \A f \in BusinessFields : f \in Doubted => f \in touched,
         left = [f \in BusinessFields |-> IF f \in touched THEN 1000 ELSE scores[f]],
         LeastScore(left) \notin TiesDown
  PROVE  ~(FormattedScore(RecordScore(left)) < Threshold)
<1>1. /\ scores \in [BusinessFields -> Thousandths]
      /\ \A code : <<Confidence, code>> \in errors <=> code = "LOW_CONFIDENCE" /\ CertaintyOf(scores) < Threshold
  BY DoubtSaid
<1>2. left \in [BusinessFields -> Thousandths]
  BY <1>1 DEF Thousandths
<1>3. Threshold \in 0..100 /\ RequiredFields \subseteq BusinessFields
  BY IntakeAssumption DEF RequiredFields, BusinessFields, AmountFields, DateFields, TextFields, EnumFields
<1>4. PICK score \in Thousandths : score = RecordScore(left)
  BY <1>2, ScoreOfRecord
<1>5. PICK least \in RequiredFields : score = left[least]
  <2>1. \E f \in RequiredFields : RecordScore(left) = left[f]
    BY <1>2, ScoreOfRecord
  <2> QED BY <1>4, <2>1, Zenon
<1>6. score \notin TiesDown
  <2>1. LeastScore(left) = RecordScore(left)
    BY <1>2, ScoreOfRecord
  <2> QED BY <1>4, <2>1, Zenon
<1>7. PICK own \in Thousandths : own = scores[least] /\ score = IF least \in touched THEN 1000 ELSE own
  <2>1. least \in BusinessFields
    BY <1>3
  <2>2. scores[least] \in Thousandths
    BY <1>1, <2>1
  <2>3. left[least] = IF least \in touched THEN 1000 ELSE scores[least]
    BY <2>1
  <2> QED BY <1>5, <2>2, <2>3
<1>8. score >= 10 * Threshold - 5
  <2>1. CASE least \in touched
    BY <1>3, <1>7, <2>1
  <2>2. CASE least \notin touched /\ Confidence \in FieldsOf(errors)
    <3>1. least \notin Doubted
      BY <1>3, <2>2
    <3>2. ~(own < 10 * Threshold)
      BY <1>3, <1>7, <2>2, <3>1 DEF Doubted
    <3> QED BY <1>3, <1>7, <2>2, <3>2 DEF Thousandths
  <2>3. CASE least \notin touched /\ Confidence \notin FieldsOf(errors)
    <3>1. <<Confidence, "LOW_CONFIDENCE">> \notin errors
      <4> SUFFICES ASSUME <<Confidence, "LOW_CONFIDENCE">> \in errors PROVE FALSE
        OBVIOUS
      <4>1. <<Confidence, "LOW_CONFIDENCE">>[1] \in FieldsOf(errors)
        BY DEF FieldsOf
      <4> QED BY <2>3, <4>1
    <3>2. ~(CertaintyOf(scores) < Threshold)
      BY <1>1, <3>1
    <3>3. ~(LeastScore(scores) < 10 * Threshold - 5)
      BY <1>1, <3>2, CertaintyIsBounded
    <3>4. PICK lowest \in Thousandths : lowest = LeastScore(scores)
      BY <1>1, ScoreOfRecord
    <3>5. LeastScore(scores) = RecordScore(scores) /\ \A f \in RequiredFields : scores[f] >= RecordScore(scores)
      BY <1>1, ScoreOfRecord
    <3>6. own >= lowest
      BY <1>7, <3>4, <3>5
    <3> QED BY <1>3, <1>7, <2>3, <3>3, <3>4, <3>6 DEF Thousandths
  <2> QED BY <2>1, <2>2, <2>3
<1>9. FormattedScore(score) < Threshold <=>
        score < 10 * Threshold - 5 \/ (score = 10 * Threshold - 5 /\ score \in TiesDown)
  BY Roundings
<1>10. ~(score < 10 * Threshold - 5)
  BY <1>3, <1>8 DEF Thousandths
<1> QED BY <1>4, <1>6, <1>9, <1>10

\* When there is no field to look at, the confidence was not reported either.
LEMMA QuietCertainty ==
  ASSUME Held, source = "PDF", \A f \in BusinessFields : f \notin Doubted
  PROVE  \A code : ~SaysOfConfidence(code, source, confidence, Threshold)
<1>1. /\ scores \in [BusinessFields -> Thousandths]
      /\ \A code : <<Confidence, code>> \in errors <=> code = "LOW_CONFIDENCE" /\ CertaintyOf(scores) < Threshold
  BY DoubtSaid
<1>2. \A code : <<Confidence, code>> \in errors <=> SaysOfConfidence(code, source, confidence, Threshold)
  BY ErrorsAreSaid
<1>3. ~(CertaintyOf(scores) < Threshold)
  <2> SUFFICES ASSUME CertaintyOf(scores) < Threshold PROVE FALSE
    OBVIOUS
  <2>1. <<Confidence, "LOW_CONFIDENCE">> \in errors
    BY <1>1
  <2>2. <<Confidence, "LOW_CONFIDENCE">>[1] \in FieldsOf(errors)
    BY <2>1 DEF FieldsOf
  <2>3. PICK lowest \in Thousandths : lowest = RecordScore(scores) /\ lowest = LeastScore(scores)
    BY <1>1, ScoreOfRecord
  <2>4. PICK f \in RequiredFields : lowest = scores[f]
    BY <1>1, <2>3, ScoreOfRecord
  <2>5. Threshold \in 0..100 /\ RequiredFields \subseteq BusinessFields
    BY IntakeAssumption DEF RequiredFields, BusinessFields, AmountFields, DateFields, TextFields, EnumFields
  <2>6. lowest < 10 * Threshold - 5 \/ lowest = 10 * Threshold - 5
    BY <1>1, <2>3, CertaintyIsBounded
  <2>7. lowest < 10 * Threshold
    BY <2>5, <2>6 DEF Thousandths
  <2>8. f \in Doubted
    BY <2>2, <2>4, <2>5, <2>7 DEF Doubted
  <2> QED BY <2>4, <2>5, <2>8
<1> QED BY <1>1, <1>2, <1>3

\* The reviewer sees every error at once, and none is a dead end: correcting what is
\* reported leaves a valid record.
THEOREM NothingIsADeadEnd == Spec => []NoDeadEnd
<1> DEFINE touched == WithAmounts(FieldsOf(errors) \cup Doubted) \ {Confidence}
           repaired == [f \in BusinessFields |-> IF f \in touched THEN SoundCells[f] ELSE raw[f]]
           left == IF source = "PDF" THEN [f \in BusinessFields |-> IF f \in touched THEN 1000 ELSE scores[f]] ELSE NoScores
           certain == IF source = "PDF" /\ touched # {} THEN Reading("none", {FormattedScore(RecordScore(left))}) ELSE confidence
           Repairable == \/ Verdict(source, repaired, certain) = {}
                         \/ source = "CSV" /\ confidence.problem # "none"
                         \/ source = "PDF" /\ LeastScore(left) \in TiesDown
<1>1. NoDeadEnd <=> (raw # NoCells => Repairable)
  BY DEF NoDeadEnd
<1>2. ASSUME Held PROVE Repairable
  <2>1. \A f \in BusinessFields : repaired[f] = IF f \in touched THEN SoundCells[f] ELSE raw[f]
    OBVIOUS
  <2>2. \A f \in BusinessFields : f \in Doubted => f \in touched
    BY ConfidenceIsApart DEF WithAmounts
  <2>3. \A f \in BusinessFields : \A code : ~Says(f, code, repaired, Existing)
    <3> DEFINE looked == FieldsOf(errors) \cup Doubted
    <3>1. \A f \in BusinessFields : repaired[f] = IF f \in WithAmounts(looked) \ {Confidence} THEN SoundCells[f] ELSE raw[f]
      OBVIOUS
    <3>2. FieldsOf(errors) \subseteq looked
      OBVIOUS
    <3> HIDE DEF repaired, touched, looked
    <3> QED BY <1>2, <3>1, <3>2, RepairedCells
  <2> HIDE DEF repaired
  <2>4. ASSUME \A code : ~SaysOfConfidence(code, source, certain, Threshold) PROVE Repairable
    <3> HIDE DEF touched, left, certain
    <3> QED BY <2>3, <2>4, NothingSaid
  <2> HIDE DEF touched
  <2>5. CASE source = "CSV"
    <3>1. certain = confidence
      BY <2>5
    <3>2. confidence.problem = "none" => \A code : ~SaysOfConfidence(code, source, confidence, Threshold)
      BY <2>5 DEF SaysOfConfidence
    <3> HIDE DEF left, certain
    <3> QED BY <2>4, <2>5, <3>1, <3>2
  <2>6. CASE source = "PDF" /\ touched = {}
    <3>1. certain = confidence
      BY <2>6
    <3>2. \A code : ~SaysOfConfidence(code, source, confidence, Threshold)
      BY <1>2, <2>2, <2>6, QuietCertainty
    <3> HIDE DEF left, certain
    <3> QED BY <2>4, <3>1, <3>2
  <2>7. CASE source = "PDF" /\ touched # {} /\ LeastScore(left) \notin TiesDown
    <3>1. left = [f \in BusinessFields |-> IF f \in touched THEN 1000 ELSE scores[f]]
      BY <2>7
    <3>2. certain = Reading("none", {FormattedScore(RecordScore(left))})
      BY <2>7
    <3> HIDE DEF left, certain
    <3>3. ~(FormattedScore(RecordScore(left)) < Threshold)
      BY <1>2, <2>2, <2>7, <3>1, RepairedCertainty
    <3>4. FormattedScore(RecordScore(left)) \in 0..100
      <4>1. scores \in [BusinessFields -> Thousandths]
        BY <1>2, <2>7 DEF Held
      <4>2. left \in [BusinessFields -> Thousandths]
        BY <3>1, <4>1 DEF Thousandths
      <4>3. RecordScore(left) \in Thousandths
        BY <4>2, ScoreOfRecord
      <4> QED BY <4>3, Roundings
    <3>5. \A code : ~SaysOfConfidence(code, source, certain, Threshold)
      BY <3>2, <3>3, <3>4 DEF SaysOfConfidence, Reading
    <3> QED BY <2>4, <3>5
  <2> HIDE DEF left, certain
  <2> QED BY <1>2, <2>5, <2>6, <2>7 DEF Held
<1>3. Inductive => NoDeadEnd
  <2> HIDE DEF Repairable
  <2> QED BY <1>1, <1>2 DEF Inductive, Untouched
<1> QED BY <1>3, AlwaysInductive, PTL

\* A correction changes the errors of the fields it changes, of net_amount when one of them
\* is an amount, and of an extraction's confidence: no other error comes or goes.
THEOREM CorrectionsAreLocal == Spec => CorrectionIsLocal
<1> DEFINE changed == {f \in BusinessFields : raw'[f] # raw[f]}
           allowed == changed \cup (IF changed \cap AmountFields = {} THEN {} ELSE {"net_amount"})
                              \cup (IF source = "PDF" THEN {Confidence} ELSE {})
           Local == FieldsOf((errors \ errors') \cup (errors' \ errors)) \subseteq allowed
<1>1. ASSUME Held, UNCHANGED <<raw, errors>> PROVE Local
  <2>1. changed = {} /\ (errors \ errors') \cup (errors' \ errors) = {}
    BY <1>1
  <2>2. FieldsOf({}) = {}
    BY DEF FieldsOf
  <2> HIDE DEF changed, allowed
  <2> QED BY <2>1, <2>2
<1>2. ASSUME Inductive, Held, NEW change \in Changes, Correct(change) PROVE Local
  <2>1. Inductive' /\ raw' # NoCells /\ source' = source
    <3>1. Inductive' /\ source' = source
      BY <1>2, CorrectInductive DEF Correct
    <3>2. IsRow(raw')
      BY <1>2, CorrectedRow DEF Held, Correct
    <3> QED BY <3>1, <3>2, RowsHaveCells
  <2>2. Held'
    BY <2>1 DEF Inductive, Untouched
  <2>6. ASSUME NEW e \in (errors \ errors') \cup (errors' \ errors) PROVE e[1] \in allowed
    <3>1. e = <<e[1], e[2]>> /\ e[1] \in BusinessFields \cup {Confidence}
      <4>1. CASE e \in errors
        BY <1>2, <4>1, ErrorsAreSaid
      <4>2. CASE e \in errors'
        <5>1. errors' = ValidateRecord(source', raw', confidence', Existing, Threshold)
          BY <2>2 DEF Held, Verdict
        <5> QED BY <4>2, <5>1, ErrorsNameFields
      <4> QED BY <2>6, <4>1, <4>2
    <3>2. CASE e[1] = Confidence
      <4> SUFFICES ASSUME source # "PDF" PROVE FALSE
        BY <3>2
      <4>1. confidence' = confidence
        BY <1>2 DEF Correct, Reviewed
      <4>2. /\ errors = ValidateRecord(source, raw, confidence, Existing, Threshold)
            /\ errors' = ValidateRecord(source, raw', confidence, Existing, Threshold)
        BY <1>2, <2>1, <2>2, <4>1 DEF Held, Verdict
      <4>3. <<Confidence, e[2]>> \in errors <=> <<Confidence, e[2]>> \in errors'
        BY <4>2, ConfidenceErrors
      <4> QED BY <2>6, <3>1, <3>2, <4>3
    <3>3. CASE e[1] \in BusinessFields
      <4> SUFFICES ASSUME e[1] \notin allowed PROVE FALSE
        OBVIOUS
      <4>1. PICK g \in BusinessFields : g = e[1]
        BY <3>3
      <4>2. raw'[g] = raw[g]
        BY <4>1
      <4>3. g = "net_amount" => \A h \in AmountFields : raw'[h] = raw[h]
        BY <4>1 DEF BusinessFields
      <4>4. /\ errors = ValidateRecord(source, raw, confidence, Existing, Threshold)
            /\ errors' = ValidateRecord(source, raw', confidence', Existing, Threshold)
        BY <1>2, <2>1, <2>2 DEF Held, Verdict
      <4>5. Says(g, e[2], raw', Existing) <=> Says(g, e[2], raw, Existing)
        BY <4>2, <4>3, FieldsAreLocal
      <4>6. <<g, e[2]>> \in errors <=> <<g, e[2]>> \in errors'
        BY <4>4, <4>5, FieldErrors
      <4> QED BY <2>6, <3>1, <4>1, <4>6
    <3> QED BY <3>1, <3>2, <3>3
  <2>7. FieldsOf((errors \ errors') \cup (errors' \ errors)) \subseteq allowed
    <3> HIDE DEF allowed
    <3> QED BY <2>6 DEF FieldsOf
  <2> QED BY <2>7
<1>3. ASSUME Inductive, [Next]_vars, raw # NoCells PROVE Local
  <2>1. Held
    BY <1>3 DEF Inductive, Untouched
  <2>2. CASE \E change \in Changes : Correct(change)
    BY <1>2, <1>3, <2>1, <2>2
  <2>3. CASE Attempting \/ UNCHANGED vars
    <3>1. UNCHANGED <<raw, errors>>
      BY <2>3 DEF Attempting, vars, recordVars
    <3> HIDE DEF Local
    <3> QED BY <1>1, <2>1, <3>1
  <2>4. ~Extracted
    BY <2>1 DEF Held, Extracted, Answer
  <2> HIDE DEF Local
  <2> QED BY <1>3, <2>2, <2>3, <2>4 DEF Next
<1>4. Inductive /\ [Next]_vars => [raw # NoCells => Local]_vars
  BY <1>3
<1> QED BY <1>4, AlwaysInductive, PTL DEF Spec, CorrectionIsLocal

(***************************************************************************)
(* The refinement of Verdicts.                                             *)
(***************************************************************************)

\* The abstraction of an error, case by case.
LEMMA Abstracted ==
  ASSUME NEW f, NEW code
  PROVE  /\ AbstractCode(<<f, code>>) = "REQUIRED_FIELD_MISSING" <=> f = "reference" /\ code = "REQUIRED_FIELD_MISSING"
         /\ AbstractCode(<<f, code>>) = "DUPLICATE_REFERENCE" <=> code = "DUPLICATE_REFERENCE"
         /\ AbstractCode(<<f, code>>) = "LOW_CONFIDENCE" <=> code = "LOW_CONFIDENCE"
         /\ AbstractCode(<<f, code>>) = "FLAWED_DETAIL" <=>
              /\ code \notin {"DUPLICATE_REFERENCE", "LOW_CONFIDENCE"}
              /\ ~(f = "reference" /\ code = "REQUIRED_FIELD_MISSING")
         /\ AbstractCode(<<f, code>>) \in V!ErrorCodes
<1>1. <<f, code>>[1] = f /\ <<f, code>>[2] = code
  OBVIOUS
<1>2. <<f, code>> = <<"reference", "REQUIRED_FIELD_MISSING">> <=> f = "reference" /\ code = "REQUIRED_FIELD_MISSING"
  OBVIOUS
<1>3. CASE f = "reference" /\ code = "REQUIRED_FIELD_MISSING"
  <2>1. AbstractCode(<<f, code>>) = "REQUIRED_FIELD_MISSING"
    BY <1>3 DEF AbstractCode
  <2> QED BY <1>3, <2>1 DEF V!ErrorCodes
<1>4. CASE code \in {"DUPLICATE_REFERENCE", "LOW_CONFIDENCE"}
  <2>1. AbstractCode(<<f, code>>) = code
    BY <1>4 DEF AbstractCode
  <2> QED BY <1>4, <2>1 DEF V!ErrorCodes
<1>5. CASE /\ code \notin {"DUPLICATE_REFERENCE", "LOW_CONFIDENCE"}
           /\ ~(f = "reference" /\ code = "REQUIRED_FIELD_MISSING")
  <2>1. AbstractCode(<<f, code>>) = "FLAWED_DETAIL"
    BY <1>2, <1>5 DEF AbstractCode
  <2> QED BY <1>5, <2>1 DEF V!ErrorCodes
<1> QED BY <1>3, <1>4, <1>5

\* The reference is missing, or a duplicate, when its cell says so.
LEMMA ReferenceSaid ==
  ASSUME NEW cells, IsRow(cells)
  PROVE  /\ Says("reference", "REQUIRED_FIELD_MISSING", cells, Existing) <=> cells["reference"] = "absent"
         /\ Says("reference", "DUPLICATE_REFERENCE", cells, Existing) <=> cells["reference"] = "taken"
<1>1. /\ "reference" \in BusinessFields /\ "reference" \in RequiredFields
      /\ "reference" \notin AmountFields \cup DateFields \cup EnumFields
  BY DEF BusinessFields, AmountFields, DateFields, TextFields, EnumFields, RequiredFields
<1>2. /\ ProblemOf("reference", cells) = "none"
      /\ ValueOf("reference", cells) =
           IF cells["reference"] = "absent" THEN {}
           ELSE {IF cells["reference"] = "respelled" THEN "sound" ELSE cells["reference"]}
  BY <1>1, CellReading
<1>3. ValueOf("reference", cells) \cap Existing # {} <=> cells["reference"] = "taken"
  BY <1>2 DEF Existing
<1> QED BY <1>1, <1>2, <1>3 DEF Says

\* No other field says of a record that it is a duplicate or that it is uncertain.
LEMMA FieldsSayNoMore ==
  ASSUME NEW cells, IsRow(cells), NEW f \in BusinessFields
  PROVE  /\ Says(f, "DUPLICATE_REFERENCE", cells, Existing) => f = "reference"
         /\ ~Says(f, "LOW_CONFIDENCE", cells, Existing)
<1>1. ProblemOf(f, cells) \in
        {"none", "NOT_NUMERIC", "AMOUNT_SCALE_EXCEEDED", "AMOUNT_OUT_OF_RANGE", "INVALID_DATE"}
  BY CellReading
<1> QED BY <1>1 DEF Says

\* The levels Verdicts works with decide as the scores do whether an extraction is in doubt.
LEMMA LevelsOfCertainty ==
  ASSUME scores \in [BusinessFields -> Thousandths]
  PROVE  V!Quantized(AbstractConfidence) = "low" <=> CertaintyOf(scores) < Threshold
<1> DEFINE found == {Level(scores[f]) : f \in RequiredFields}
           line == 10 * Threshold - 5
           least == LeastScore(scores)
<1>1. /\ line \in Int
      /\ \E f \in RequiredFields : scores[f] = least
      /\ \A f \in RequiredFields : scores[f] \in Thousandths /\ scores[f] >= least
  <2>1. RequiredFields \subseteq BusinessFields
    BY DEF RequiredFields, BusinessFields, AmountFields, DateFields, TextFields, EnumFields
  <2>2. Threshold \in 0..100
    BY IntakeAssumption
  <2> QED BY <2>1, <2>2, ScoreOfRecord
<1>2. scores # NoScores
  <2>1. DOMAIN scores # {}
    BY DEF BusinessFields, TextFields
  <2>2. DOMAIN NoScores = {}
    BY DEF NoScores
  <2> QED BY <2>1, <2>2
<1>3. \A f \in RequiredFields :
        Level(scores[f]) = IF scores[f] < line THEN "low"
                           ELSE IF scores[f] = line /\ line \in TiesDown THEN "tie" ELSE "high"
  <2> TAKE f \in RequiredFields
  <2> QED BY <1>1, Roundings DEF Level
<1>4. PICK g \in RequiredFields : scores[g] = least
  BY <1>1
<1>5. least \in Int /\ \A f \in RequiredFields : scores[f] \in Int /\ least <= scores[f]
  <2> HIDE DEF least, line, found
  <2>1. least \in Int
    <3>1. scores[g] \in Thousandths
      BY <1>1
    <3>2. scores[g] \in Int
      BY <3>1 DEF Thousandths
    <3> QED BY <1>4, <3>2
  <2>2. ASSUME NEW f \in RequiredFields PROVE scores[f] \in Int /\ least <= scores[f]
    <3>1. scores[f] \in Thousandths /\ scores[f] >= least
      BY <1>1
    <3>2. scores[f] \in Int
      BY <3>1 DEF Thousandths
    <3> QED BY <2>1, <3>1, <3>2
  <2> QED BY <2>1, <2>2
<1>6. /\ "low" \in found <=> \E f \in RequiredFields : scores[f] < line
      /\ "tie" \in found <=> line \in TiesDown /\ \E f \in RequiredFields : scores[f] = line
  <2> HIDE DEF line
  <2>1. \A f \in RequiredFields : scores[f] \in Int /\ line \in Int
    BY <1>1, <1>5
  <2> QED BY <1>3, <2>1
<1>7. "low" \in found <=> least < line
  <2> HIDE DEF found, line, least
  <2> QED BY <1>1, <1>4, <1>5, <1>6
<1>8. "low" \notin found => ("tie" \in found <=> least = line /\ line \in TiesDown)
  <2> HIDE DEF found, line, least
  <2> QED BY <1>1, <1>4, <1>5, <1>6
<1>9. V!RecordConfidence([f \in RequiredFields |-> Level(scores[f])]) =
        IF "low" \in found THEN "low" ELSE IF "tie" \in found THEN "tie" ELSE "high"
  BY DEF V!RecordConfidence
<1>10. CertaintyOf(scores) < Threshold <=> least < line \/ (least = line /\ line \in TiesDown /\ corrections # 0)
  BY CertaintyIsBounded
<1> HIDE DEF found, line, least
<1> QED BY <1>2, <1>7, <1>8, <1>9, <1>10 DEF AbstractConfidence, V!Quantized, V!Formatted

\* What is said of a confidence, seen through the abstraction: that it could not be read,
\* or that it is low.
LEMMA CertaintySaid ==
  ASSUME Held
  PROVE  /\ <<Confidence, "LOW_CONFIDENCE">> \in errors <=> source = "PDF" /\ V!Quantized(AbstractConfidence) = "low"
         /\ \A code : <<Confidence, code>> \in errors =>
              code = "LOW_CONFIDENCE" \/ (code = confidence.problem /\ code \in {"NOT_NUMERIC", "AMOUNT_OUT_OF_RANGE"})
         /\ confidence.problem # "none" =>
              <<Confidence, confidence.problem>> \in errors /\ confidence.problem \in {"NOT_NUMERIC", "AMOUNT_OUT_OF_RANGE"}
<1>1. \A code : <<Confidence, code>> \in errors <=> SaysOfConfidence(code, source, confidence, Threshold)
  BY ErrorsAreSaid
<1>2. source = "PDF" => (V!Quantized(AbstractConfidence) = "low" <=> CertaintyOf(scores) < Threshold)
  BY LevelsOfCertainty DEF Held
<1>3. confidence.problem \in {"none", "NOT_NUMERIC", "AMOUNT_OUT_OF_RANGE"}
  BY DEF Held, Reading
<1>4. source = "PDF" => CertaintyOf(scores) \in 0..100 /\ confidence.value = {CertaintyOf(scores)}
  <2> SUFFICES ASSUME source = "PDF" PROVE CertaintyOf(scores) \in 0..100 /\ confidence.value = {CertaintyOf(scores)}
    OBVIOUS
  <2>1. scores \in [BusinessFields -> Thousandths] /\ confidence = Reading("none", {CertaintyOf(scores)})
    BY DEF Held
  <2>2. CertaintyOf(scores) \in 0..100
    BY <2>1, CertaintyIsBounded
  <2>3. confidence.value = {CertaintyOf(scores)}
    BY <2>1 DEF Reading
  <2> QED BY <2>2, <2>3
<1> QED BY <1>1, <1>2, <1>3, <1>4 DEF SaysOfConfidence

\* An error is a flaw of the detail exactly when the record has one.
LEMMA FlawsAreSaid ==
  ASSUME Held
  PROVE  (\E e \in errors : AbstractCode(e) = "FLAWED_DETAIL") <=> AbstractDetail = "flawed"
<1>1. IsRow(raw)
  BY DEF Held
<1>2. AbstractDetail = "flawed" <=>
        (\E f \in BusinessFields : ~Clean(f, raw, Existing)) \/ confidence.problem # "none"
  BY <1>1, RulesAreTheDictionary DEF AbstractDetail
<1>3. ASSUME NEW f \in BusinessFields, ~Clean(f, raw, Existing)
      PROVE  \E e \in errors : AbstractCode(e) = "FLAWED_DETAIL"
  <2>1. PICK code : /\ Says(f, code, raw, Existing)
                    /\ ~(f = "reference" /\ code \in {"REQUIRED_FIELD_MISSING", "DUPLICATE_REFERENCE"})
    BY <1>3 DEF Clean
  <2>2. code \notin {"DUPLICATE_REFERENCE", "LOW_CONFIDENCE"}
    BY <1>1, <2>1, FieldsSayNoMore
  <2>3. <<f, code>> \in errors
    BY <2>1, ErrorsAreSaid
  <2>4. AbstractCode(<<f, code>>) = "FLAWED_DETAIL"
    BY <2>1, <2>2, Abstracted
  <2> QED BY <2>3, <2>4
<1>4. ASSUME confidence.problem # "none"
      PROVE  \E e \in errors : AbstractCode(e) = "FLAWED_DETAIL"
  <2>1. <<Confidence, confidence.problem>> \in errors /\ confidence.problem \in {"NOT_NUMERIC", "AMOUNT_OUT_OF_RANGE"}
    BY <1>4, CertaintySaid
  <2>2. AbstractCode(<<Confidence, confidence.problem>>) = "FLAWED_DETAIL"
    BY <2>1, Abstracted
  <2> QED BY <2>1, <2>2
<1>5. ASSUME NEW e \in errors, AbstractCode(e) = "FLAWED_DETAIL"
      PROVE  (\E f \in BusinessFields : ~Clean(f, raw, Existing)) \/ confidence.problem # "none"
  <2>1. e = <<e[1], e[2]>> /\ e[1] \in BusinessFields \cup {Confidence}
    BY ErrorsAreSaid
  <2>2. PICK f, code : e = <<f, code>> /\ f \in BusinessFields \cup {Confidence}
    BY <2>1
  <2>3. /\ code \notin {"DUPLICATE_REFERENCE", "LOW_CONFIDENCE"}
        /\ ~(f = "reference" /\ code = "REQUIRED_FIELD_MISSING")
    BY <1>5, <2>2, Abstracted
  <2>4. CASE f = Confidence
    <3>1. <<Confidence, code>> \in errors
      BY <2>2, <2>4
    <3>2. code = confidence.problem /\ code \in {"NOT_NUMERIC", "AMOUNT_OUT_OF_RANGE"}
      BY <2>3, <3>1, CertaintySaid
    <3> QED BY <3>2
  <2>5. CASE f \in BusinessFields
    <3>1. Says(f, code, raw, Existing)
      BY <2>2, <2>5, ErrorsAreSaid
    <3> QED BY <2>3, <2>5, <3>1 DEF Clean
  <2> QED BY <2>2, <2>4, <2>5
<1> QED BY <1>2, <1>3, <1>4, <1>5

\* The fifteen rules together say of a record what the data dictionary says of it, no more
\* and no less: its errors are those Verdicts computes from its reference and one other
\* field, whatever the cells.
THEOREM VerdictsAreAbstracted == Spec => []RefinesVerdicts
<1> DEFINE Seen(code) == \E e \in errors : AbstractCode(e) = code
           payload == [reference |-> AbstractReference, detail |-> AbstractDetail, confidence |-> AbstractConfidence]
           computed == V!Validate(source, payload, Existing)
<1>1. ASSUME Held PROVE {AbstractCode(e) : e \in errors} = computed
  <2>1. IsRow(raw) /\ raw["reference"] \in Classes
    BY <1>1 DEF Held, IsRow, BusinessFields, TextFields, AmountFields
  <2>2. "reference" \in BusinessFields
    BY DEF BusinessFields, TextFields
  <2>3. ASSUME NEW e \in errors PROVE \E f, code : f \in BusinessFields \cup {Confidence} /\ e = <<f, code>>
    BY <1>1, ErrorsAreSaid
  <2>4. Seen("REQUIRED_FIELD_MISSING") <=> AbstractReference = "none"
    <3>1. Seen("REQUIRED_FIELD_MISSING") <=> <<"reference", "REQUIRED_FIELD_MISSING">> \in errors
      <4>1. ASSUME NEW e \in errors, AbstractCode(e) = "REQUIRED_FIELD_MISSING"
            PROVE  <<"reference", "REQUIRED_FIELD_MISSING">> \in errors
        <5>1. PICK f, code : f \in BusinessFields \cup {Confidence} /\ e = <<f, code>>
          BY <2>3
        <5>2. f = "reference" /\ code = "REQUIRED_FIELD_MISSING"
          BY <4>1, <5>1, Abstracted
        <5> QED BY <5>1, <5>2
      <4>2. AbstractCode(<<"reference", "REQUIRED_FIELD_MISSING">>) = "REQUIRED_FIELD_MISSING"
        BY Abstracted
      <4> QED BY <4>1, <4>2
    <3>2. <<"reference", "REQUIRED_FIELD_MISSING">> \in errors <=> raw["reference"] = "absent"
      BY <1>1, <2>1, <2>2, ErrorsAreSaid, ReferenceSaid
    <3>3. AbstractReference = "none" <=> raw["reference"] = "absent"
      BY <2>1 DEF AbstractReference, Classes
    <3> HIDE DEF Seen
    <3> QED BY <3>1, <3>2, <3>3
  <2>5. Seen("DUPLICATE_REFERENCE") <=> AbstractReference \in Existing
    <3>1. Seen("DUPLICATE_REFERENCE") <=> <<"reference", "DUPLICATE_REFERENCE">> \in errors
      <4>1. ASSUME NEW e \in errors, AbstractCode(e) = "DUPLICATE_REFERENCE"
            PROVE  <<"reference", "DUPLICATE_REFERENCE">> \in errors
        <5>1. PICK f, code : f \in BusinessFields \cup {Confidence} /\ e = <<f, code>>
          BY <2>3
        <5>2. code = "DUPLICATE_REFERENCE"
          BY <4>1, <5>1, Abstracted
        <5>3. f # Confidence
          <6> SUFFICES ASSUME f = Confidence PROVE FALSE
            OBVIOUS
          <6>1. <<Confidence, "DUPLICATE_REFERENCE">> \in errors
            BY <5>1, <5>2
          <6> QED BY <1>1, <6>1, CertaintySaid
        <5>4. Says(f, "DUPLICATE_REFERENCE", raw, Existing)
          BY <1>1, <5>1, <5>2, <5>3, ErrorsAreSaid
        <5>5. f = "reference"
          BY <2>1, <5>1, <5>3, <5>4, FieldsSayNoMore
        <5> QED BY <5>1, <5>2, <5>5
      <4>2. AbstractCode(<<"reference", "DUPLICATE_REFERENCE">>) = "DUPLICATE_REFERENCE"
        BY Abstracted
      <4> QED BY <4>1, <4>2
    <3>2. <<"reference", "DUPLICATE_REFERENCE">> \in errors <=> raw["reference"] = "taken"
      BY <1>1, <2>1, <2>2, ErrorsAreSaid, ReferenceSaid
    <3>3. AbstractReference \in Existing <=> raw["reference"] = "taken"
      BY <2>1 DEF AbstractReference, Existing
    <3> HIDE DEF Seen
    <3> QED BY <3>1, <3>2, <3>3
  <2>6. Seen("LOW_CONFIDENCE") <=> source = "PDF" /\ V!Quantized(AbstractConfidence) = "low"
    <3>1. Seen("LOW_CONFIDENCE") <=> <<Confidence, "LOW_CONFIDENCE">> \in errors
      <4>1. ASSUME NEW e \in errors, AbstractCode(e) = "LOW_CONFIDENCE"
            PROVE  <<Confidence, "LOW_CONFIDENCE">> \in errors
        <5>1. PICK f, code : f \in BusinessFields \cup {Confidence} /\ e = <<f, code>>
          BY <2>3
        <5>2. code = "LOW_CONFIDENCE"
          BY <4>1, <5>1, Abstracted
        <5>3. f \notin BusinessFields
          BY <1>1, <2>1, <5>1, <5>2, ErrorsAreSaid, FieldsSayNoMore
        <5> QED BY <5>1, <5>2, <5>3
      <4>2. AbstractCode(<<Confidence, "LOW_CONFIDENCE">>) = "LOW_CONFIDENCE"
        BY Abstracted
      <4> QED BY <4>1, <4>2
    <3> HIDE DEF Seen
    <3> QED BY <1>1, <3>1, CertaintySaid
  <2>7. Seen("FLAWED_DETAIL") <=> AbstractDetail = "flawed"
    BY <1>1, FlawsAreSaid
  <2>8. \A code \in {AbstractCode(e) : e \in errors} : code \in V!ErrorCodes
    BY <2>3, Abstracted
  <2>9. \A code : code \in {AbstractCode(e) : e \in errors} <=> Seen(code)
    OBVIOUS
  <2>10. V!ErrorCodes = {"REQUIRED_FIELD_MISSING", "DUPLICATE_REFERENCE", "FLAWED_DETAIL", "LOW_CONFIDENCE"}
    BY DEF V!ErrorCodes
  <2>11. computed = {code \in V!ErrorCodes :
                       \/ code = "REQUIRED_FIELD_MISSING" /\ AbstractReference = "none"
                       \/ code = "DUPLICATE_REFERENCE" /\ AbstractReference \in Existing
                       \/ code = "FLAWED_DETAIL" /\ AbstractDetail = "flawed"
                       \/ code = "LOW_CONFIDENCE" /\ source = "PDF" /\ V!Quantized(AbstractConfidence) = "low"}
    BY DEF V!Validate, V!NoReference
  <2> HIDE DEF Seen, computed
  <2>12. \A code \in V!ErrorCodes : Seen(code) <=> code \in computed
    BY <2>4, <2>5, <2>6, <2>7, <2>10, <2>11
  <2>13. \A code \in computed : code \in V!ErrorCodes
    BY <2>11
  <2> QED BY <2>8, <2>9, <2>12, <2>13
<1>2. Inductive => RefinesVerdicts
  BY <1>1 DEF Inductive, Untouched, RefinesVerdicts
<1> QED BY <1>2, AlwaysInductive, PTL

(***************************************************************************)
(* What an author meant.                                                   *)
(***************************************************************************)

\* The cell of a row that is not corrected stays what its author wrote.
LEMMA MeantStaysWritten == Inductive /\ MeantIsWritten /\ [Next]_vars => MeantIsWritten'
<1> DEFINE Known == source = "CSV" /\ \E cents \in meant : meant = {cents} /\ Writes(raw["gross_amount"], cents)
<1> SUFFICES ASSUME Inductive, MeantIsWritten, [Next]_vars PROVE MeantIsWritten'
  OBVIOUS
<1>1. meant = {} \/ Known
  BY DEF MeantIsWritten
<1>2. CASE Extracted
  <2>1. meant' = meant /\ source = "PDF"
    BY <1>2 DEF Extracted, recordVars, Inductive, Untouched, Held, Answer
  <2> QED BY <1>1, <2>1 DEF MeantIsWritten
<1>3. CASE Attempting \/ UNCHANGED vars
  <2>1. UNCHANGED <<source, raw, meant>>
    BY <1>3 DEF Attempting, vars, recordVars
  <2> QED BY <1>1, <2>1 DEF MeantIsWritten
<1>4. ASSUME NEW change \in Changes, Correct(change) PROVE MeantIsWritten'
  <2>1. CASE "gross_amount" \in DOMAIN change
    BY <1>4, <2>1 DEF Correct, MeantIsWritten
  <2>2. CASE "gross_amount" \notin DOMAIN change
    <3>1. source' = source /\ meant' = meant
      BY <1>4, <2>2 DEF Correct
    <3>2. raw'["gross_amount"] = raw["gross_amount"]
      <4>1. "gross_amount" \in BusinessFields
        BY DEF BusinessFields, AmountFields
      <4> QED BY <1>4, <2>2, <4>1 DEF Correct
    <3> QED BY <1>1, <3>1, <3>2 DEF MeantIsWritten
  <2> QED BY <2>1, <2>2
<1> QED BY <1>2, <1>3, <1>4 DEF Next

\* An amount that its author wrote in any of the usual ways, of as many digits as the
\* column holds, is read as that amount: no style is misread, however the rules for marks
\* and groups of three meet in it.
THEOREM AmountsAreReadAsWritten == Spec => []ReadAsWritten
<1>1. Init => MeantIsWritten
  <2> SUFFICES ASSUME Init PROVE MeantIsWritten
    OBVIOUS
  <2>1. CASE \E row \in CsvRows : source = "CSV" /\ raw = row.raw /\ meant = row.meant
    <3>1. PICK row \in CsvRows : source = "CSV" /\ raw = row.raw /\ meant = row.meant
      BY <2>1
    <3>2. row.meant = {} \/ \E cents \in row.meant : row.meant = {cents} /\ Writes(row.raw["gross_amount"], cents)
      BY IntakeAssumption
    <3> QED BY <3>1, <3>2, Zenon DEF MeantIsWritten
  <2>2. CASE meant = {}
    BY <2>2 DEF MeantIsWritten
  <2> QED BY <2>1, <2>2 DEF Init
<1>2. MeantIsWritten => ReadAsWritten
  <2> SUFFICES ASSUME MeantIsWritten, meant # {} PROVE NormalizeAmount(raw["gross_amount"]) = Reading("none", meant)
    BY DEF ReadAsWritten
  <2>1. PICK cents \in meant : meant = {cents} /\ Writes(raw["gross_amount"], cents)
    BY DEF MeantIsWritten
  <2>2. NormalizeAmount(raw["gross_amount"]) = Reading("none", {cents})
    BY <2>1, ReadingOfWriting, Zenon
  <2> QED BY <2>1, <2>2, Zenon
<1> QED BY <1>1, <1>2, AlwaysInductive, MeantStaysWritten, PTL DEF Spec

=============================================================================
