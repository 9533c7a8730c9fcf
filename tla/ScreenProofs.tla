---------------------------- MODULE ScreenProofs ----------------------------
(***************************************************************************)
(* What every run of Screen preserves, proved for any page size, any batch *)
(* and any number of events.                                               *)
(*                                                                         *)
(* The argument: every write either happens where the page is about to     *)
(* hear of it (Awaited) or excuses the keys it leaves behind; hearing of   *)
(* it marks every page held and fetches the one on screen again; a marked  *)
(* page is fetched when it is opened.  So a page that is neither excused   *)
(* nor awaited is up to date, marked, or being fetched (UpToDate), and     *)
(* when nothing is under way the one on screen can only be up to date.     *)
(***************************************************************************)
EXTENDS Screen, FiniteSetTheorems, TLAPS

(***************************************************************************)
(* The pages the server answers with.                                      *)
(***************************************************************************)

\* So many numbers in a row.
LEMMA Interval ==
  ASSUME NEW a \in Int, NEW b \in Int, NEW n \in Nat, b - a + 1 = n
  PROVE  IsFiniteSet(a..b) /\ Cardinality(a..b) = n
<1>1. CASE a > b
  <2>1. n = 0
    BY <1>1
  <2> QED BY <1>1, <2>1, FS_Interval
<1>2. CASE ~(a > b)
  BY <1>2, FS_Interval
<1> QED BY <1>1, <1>2

\* Places are numbers, and no two records have the same.
LEMMA PlacesAreDistinct ==
  ASSUME NEW n \in Nat, NEW found \in SUBSET (1..n)
  PROVE  /\ \A r \in found : Place(found, r) \in Nat
         /\ \A q, r \in found : Place(found, q) = Place(found, r) => q = r
<1>1. IsFiniteSet(found)
  <2>1. IsFiniteSet(1..n)
    BY FS_Interval
  <2> QED BY <2>1, FS_Subset
<1>2. ASSUME NEW r \in found
      PROVE  IsFiniteSet({q \in found : q <= r}) /\ Place(found, r) \in Nat
  <2>1. {q \in found : q <= r} \in SUBSET found
    OBVIOUS
  <2> QED BY <1>1, <2>1, FS_Subset, FS_CardinalityType DEF Place
<1>3. ASSUME NEW q \in found, NEW r \in found, q < r PROVE Place(found, q) # Place(found, r)
  <2>0. \A p \in found : p <= q => p <= r
    BY <1>3
  <2>1. {p \in found : p <= q} \in SUBSET {p \in found : p <= r}
    BY <2>0
  <2>2. r \in {p \in found : p <= r} /\ r \notin {p \in found : p <= q}
    BY <1>3
  <2>3. {p \in found : p <= q} # {p \in found : p <= r}
    BY <2>2
  <2>4. Cardinality({p \in found : p <= q}) # Cardinality({p \in found : p <= r})
    BY <1>2, <2>1, <2>3, FS_Subset
  <2> QED BY <2>4 DEF Place
<1>4. \A q, r \in found : q # r => q < r \/ r < q
  OBVIOUS
<1> QED BY <1>2, <1>3, <1>4

\* The total is that of records there are, and a page has no more than the limit.
LEMMA PageShape ==
  ASSUME NEW rows \in Seq(Statuses), Len(rows) <= MaxRows, NEW k \in Keys
  PROVE  /\ Cardinality(Filtered(rows, k[1])) \in 0..MaxRows
         /\ \A total \in 0..MaxRows :
              /\ Page(Items(rows, k), total) \in Pages
              /\ RowsOf(Page(Items(rows, k), total)) \subseteq DOMAIN rows
<1> DEFINE found == Filtered(rows, k[1])
           items == Items(rows, k)
           from == k[2] + 1
           to == k[2] + PageSize
           place == [item \in items |-> Place(found, item[1])]
<1>0. /\ MaxRows \in Nat /\ k[2] \in Nat /\ PageSize \in Nat \ {0}
      /\ Len(rows) \in Nat /\ DOMAIN rows = 1..Len(rows)
      /\ found \in SUBSET (1..Len(rows))
  BY ScreenAssumption DEF MaxRows, Keys, Offsets, Filtered
<1>1. Cardinality(found) \in 0..MaxRows
  <2>1. IsFiniteSet(1..Len(rows)) /\ Cardinality(1..Len(rows)) = Len(rows)
    <3>1. PICK n \in Nat : n = Len(rows)
      BY <1>0
    <3>2. IsFiniteSet(1..n) /\ Cardinality(1..n) = IF 1 > n THEN 0 ELSE n - 1 + 1
      BY FS_Interval
    <3>3. IsFiniteSet(1..n) /\ Cardinality(1..n) = n
      BY <3>2
    <3> QED BY <3>1, <3>3
  <2>2. IsFiniteSet(found) /\ Cardinality(found) <= Len(rows)
    BY <1>0, <2>1, FS_Subset
  <2>3. Cardinality(found) \in Nat
    BY <2>2, FS_CardinalityType
  <2> QED BY <1>0, <2>2, <2>3
<1>2. /\ items \subseteq (1..MaxRows) \X Statuses
      /\ \A item \in items : /\ item[1] \in DOMAIN rows /\ item[1] \in found
                             /\ item = <<item[1], rows[item[1]]>>
                             /\ Place(found, item[1]) \in from..to
  BY <1>0 DEF Items
<1>3. place \in Injection(items, from..to)
  <2>1. place \in [items -> from..to]
    BY <1>2
  <2>2. ASSUME NEW a \in items, NEW b \in items, Place(found, a[1]) = Place(found, b[1]) PROVE a = b
    <3>1. a[1] = b[1]
      BY <1>0, <1>2, <2>2, PlacesAreDistinct
    <3> QED BY <1>2, <3>1
  <2>3. \A a, b \in DOMAIN place : place[a] = place[b] => a = b
    BY <2>2
  <2> HIDE DEF place
  <2> QED BY <2>1, <2>3 DEF Injection, IsInjective
<1>4. IsFiniteSet(from..to) /\ Cardinality(from..to) = PageSize
  <2>1. from \in Int /\ to \in Int /\ to - from + 1 = PageSize
    BY <1>0
  <2> HIDE DEF from, to
  <2> QED BY <1>0, <2>1, Interval
<1>5. Cardinality(items) <= PageSize
  BY <1>3, <1>4, FS_Injection
<1> HIDE DEF items
<1>6. ASSUME NEW total \in 0..MaxRows
      PROVE  /\ Page(items, total) \in Pages
             /\ RowsOf(Page(items, total)) \subseteq DOMAIN rows
  BY <1>2, <1>5 DEF Page, Pages, RowsOf
<1> QED BY <1>1, <1>6 DEF items

(***************************************************************************)
(* Shapes.                                                                 *)
(***************************************************************************)

\* What a reader may rely on: the table is never longer than the keys allow for.
LEMMA TableFits ==
  ASSUME Inductive
  PROVE  table \in Seq(Statuses) /\ Len(table) <= MaxRows
BY ScreenAssumption DEF Inductive, Shapes, OneUpload, MaxRows

\* A key's request and its data have a shape if nothing about them changed.
LEMMA ShapeFrame ==
  ASSUME Shapes, UNCHANGED <<table, cache, fetch>>
  PROVE  /\ DOMAIN fetch' = Keys /\ DOMAIN cache' = Keys
         /\ \A k \in Keys : FetchShape(k)' /\ CacheShape(k)'
BY DEF Shapes, FetchShape, CacheShape

\* The first page is a page.
LEMMA InitInductive == Init => Inductive
<1> SUFFICES ASSUME Init PROVE Inductive
  OBVIOUS
<1> USE DEF Init
<1>1. Key \in Keys
  BY ScreenAssumption DEF Key, Keys, Offsets, MaxRows
<1>2. Shapes
  BY <1>1, ScreenAssumption DEF Shapes, FetchShape, CacheShape, JobStates, Key, Keys
<1>3. OneUpload /\ SelectionWasOnScreen
  BY DEF OneUpload, SelectionWasOnScreen, Sent, Idle
<1>4. \A k \in Keys : UpToDate(k)
  BY DEF UpToDate, Sent, Idle
<1> QED BY <1>2, <1>3, <1>4 DEF Inductive

\* The server's own steps.
LEMMA ServerShapes ==
  ASSUME Inductive,
         \/ ListJobs \/ Start \/ Settle \/ Correct \/ AcceptUpload
         \/ WriteElsewhere \/ DeleteElsewhere \/ Orphan
  PROVE  Shapes' /\ OneUpload'
<1> USE DEF Inductive
<1>1. CASE ListJobs
  <2>1. UNCHANGED <<table, cache, fetch>>
    BY <1>1 DEF ListJobs, serverVars, cacheVars
  <2> QED BY <1>1, <2>1, ShapeFrame DEF ListJobs, Shapes, OneUpload, serverVars, pageVars, cacheVars, JobStates
<1>2. CASE Start
  <2>1. UNCHANGED <<table, cache, fetch>>
    BY <1>2 DEF Start, cacheVars
  <2> QED BY <1>2, <2>1, ShapeFrame DEF Start, Shapes, OneUpload, pageVars, cacheVars, jobVars, JobStates
<1>3. CASE AcceptUpload
  <2>1. UNCHANGED <<table, cache, fetch>>
    BY <1>3 DEF AcceptUpload, cacheVars
  <2> QED BY <1>3, <2>1, ShapeFrame DEF AcceptUpload, Shapes, OneUpload, pageVars, cacheVars, jobVars, JobStates, Sent
<1>4. CASE Settle \/ WriteElsewhere \/ Correct
  <2>1. table' \in Seq(Statuses) /\ DOMAIN table \subseteq DOMAIN table'
    <3>0. PICK rows \in Seq(Statuses) : rows = table
      BY DEF Shapes
    <3>1. CASE Settle
      <4>1. table' = rows \/ \E status \in Statuses : table' = Append(rows, status)
        BY <3>0, <3>1 DEF Settle
      <4> QED BY <3>0, <4>1
    <3>2. CASE WriteElsewhere
      <4>1. \E r \in DOMAIN rows : \E status \in Statuses : table' = [rows EXCEPT ![r] = status]
        BY <3>0, <3>2 DEF WriteElsewhere
      <4> QED BY <3>0, <4>1
    <3>3. CASE Correct
      <4>1. DOMAIN table' = DOMAIN rows /\ \A r \in DOMAIN rows : table'[r] \in Statuses
        BY <3>0, <3>3 DEF Correct
      <4>2. table' = [r \in 1..Len(rows) |-> table'[r]]
        BY <3>0, <3>3 DEF Correct
      <4> QED BY <3>0, <4>1, <4>2
    <3> QED BY <1>4, <3>1, <3>2, <3>3
  <2>2. UNCHANGED <<pageVars, cacheVars, jobVars, upload>>
    BY <1>4 DEF Settle, WriteElsewhere, Correct
  <2>3. \A k \in Keys : FetchShape(k)' /\ CacheShape(k)'
    BY <2>1, <2>2 DEF Shapes, FetchShape, CacheShape, cacheVars
  <2>4. job' \in JobStates /\ excused' \subseteq Keys /\ UNCHANGED <<orphaned, deleted>>
    BY <1>4 DEF Settle, WriteElsewhere, Correct, Shapes, Read, JobStates
  <2>5. \/ correction' \in {Idle, <<"answered">>}
        \/ \E ticked \in SUBSET DOMAIN table : correction' = <<"sent", ticked>>
    BY <1>4 DEF Settle, WriteElsewhere, Correct, Shapes
  <2>6. Shapes'
    BY <2>1, <2>2, <2>3, <2>4, <2>5 DEF Shapes, pageVars, cacheVars, jobVars
  <2>7. Len(table') = Len(Initial) \/ (Len(table') = MaxRows /\ job' = "SUCCEEDED")
    <3>1. CASE Settle
      BY <3>1, ScreenAssumption DEF Settle, OneUpload, MaxRows, Shapes
    <3>2. CASE WriteElsewhere \/ Correct
      BY <3>2 DEF WriteElsewhere, Correct, OneUpload, Shapes
    <3> QED BY <1>4, <3>1, <3>2
  <2>8. upload' = Sent => job' = "none"
    BY <1>4, <2>2 DEF Settle, WriteElsewhere, Correct, OneUpload
  <2> QED BY <2>6, <2>7, <2>8 DEF OneUpload
<1>5. CASE DeleteElsewhere \/ Orphan
  <2>1. UNCHANGED <<table, job, pageVars, cacheVars, jobVars, correction, upload, excused>>
    BY <1>5 DEF DeleteElsewhere, Orphan
  <2>2. orphaned' \in BOOLEAN /\ deleted' \in BOOLEAN
    BY <1>5 DEF DeleteElsewhere, Orphan, Shapes
  <2>3. \A k \in Keys : FetchShape(k)' /\ CacheShape(k)'
    BY <2>1, ShapeFrame DEF cacheVars
  <2> QED BY <2>1, <2>2, <2>3 DEF Shapes, OneUpload, pageVars, cacheVars, jobVars
<1> QED BY <1>1, <1>2, <1>3, <1>4, <1>5

\* The two statements of a listing.
LEMMA ListingShapes ==
  ASSUME Inductive, NEW k \in Keys, CountRecords(k) \/ ListRecords(k)
  PROVE  Shapes' /\ OneUpload'
<1> USE DEF Inductive
<1>1. UNCHANGED <<serverVars, pageVars, cache, stale, jobVars, correction, upload>>
  BY DEF CountRecords, ListRecords
<1>2. PICK new : /\ fetch' = [fetch EXCEPT ![k] = new]
                 /\ \/ \E n \in 0..MaxRows : new = <<"counted", n>>
                    \/ \E page \in Pages : new = <<"answered", page>> /\ RowsOf(page) \subseteq DOMAIN table
  <2>1. CASE CountRecords(k)
    BY <2>1, TableFits, PageShape DEF CountRecords
  <2>2. CASE ListRecords(k)
    <3>1. fetch[k][2] \in 0..MaxRows
      BY <2>2 DEF ListRecords, Shapes, FetchShape, Idle, Sent, Failed
    <3> DEFINE page == Page(IF deleted THEN {} ELSE Items(table, k), fetch[k][2])
    <3>2. page \in Pages /\ RowsOf(page) \subseteq DOMAIN table
      <4>1. Cardinality({}) <= PageSize
        BY FS_EmptySet, ScreenAssumption
      <4>2. CASE deleted
        BY <3>1, <4>1, <4>2 DEF Page, Pages, RowsOf
      <4> QED BY <3>1, <4>2, TableFits, PageShape
    <3>3. fetch' = [fetch EXCEPT ![k] = <<"answered", page>>]
      BY <2>2 DEF ListRecords
    <3> QED BY <3>2, <3>3
  <2> QED BY <2>1, <2>2
<1>3. \A j \in Keys : FetchShape(j)' /\ CacheShape(j)'
  BY <1>1, <1>2 DEF Shapes, FetchShape, CacheShape, serverVars
<1>4. excused' \subseteq Keys
  BY DEF CountRecords, ListRecords, Shapes
<1> QED BY <1>1, <1>2, <1>3, <1>4 DEF Shapes, OneUpload, serverVars, pageVars, jobVars

\* Requests may be sent, answered, lost or dropped without a change of shape.
LEMMA RequestShapes ==
  ASSUME Shapes, UNCHANGED <<table, cache>>, DOMAIN fetch' = Keys,
         \A k \in Keys : fetch'[k] \in {fetch[k], Idle, Sent, Failed}
  PROVE  \A k \in Keys : FetchShape(k)' /\ CacheShape(k)'
BY DEF Shapes, FetchShape, CacheShape

\* An answer, or its loss.
LEMMA AnswerShapes ==
  ASSUME Inductive, NEW k \in Keys, ReceiveRecords(k) \/ LoseRecords(k)
  PROVE  Shapes' /\ OneUpload'
<1> USE DEF Inductive
<1>1. CASE LoseRecords(k)
  <2>1. \A j \in Keys : FetchShape(j)' /\ CacheShape(j)'
    BY <1>1, RequestShapes DEF LoseRecords, Shapes, serverVars
  <2> QED BY <1>1, <2>1 DEF LoseRecords, Shapes, OneUpload, serverVars, pageVars, jobVars
<1>2. CASE ReceiveRecords(k)
  <2>1. PICK page \in Pages : fetch[k] = <<"answered", page>> /\ RowsOf(page) \subseteq DOMAIN table
    BY <1>2 DEF ReceiveRecords, Shapes, FetchShape, Idle, Sent, Failed
  <2>2. cache' = [cache EXCEPT ![k] = {page}] /\ fetch' = [fetch EXCEPT ![k] = Idle] /\ UNCHANGED table
    BY <1>2, <2>1 DEF ReceiveRecords, serverVars
  <2>3. \A j \in Keys : FetchShape(j)' /\ CacheShape(j)'
    BY <2>1, <2>2 DEF Shapes, FetchShape, CacheShape
  <2>4. \A j \in Keys : cache[j] # {} \/ j = k => cache'[j] # {}
    BY <2>2 DEF Shapes
  <2>5. last' \subseteq {j \in Keys : cache'[j] # {}} /\ stale' \subseteq {j \in Keys : cache'[j] # {}}
    BY <1>2, <2>4 DEF ReceiveRecords, Shapes
  <2> QED BY <1>2, <2>2, <2>3, <2>5 DEF ReceiveRecords, Shapes, OneUpload, serverVars, jobVars
<1> QED BY <1>1, <1>2

\* The polling, and what sends a mutation.
LEMMA RequestsShapes ==
  ASSUME Inductive, Poll \/ LosePoll \/ SendUpload \/ LoseCorrection \/ Apply
  PROVE  Shapes' /\ OneUpload'
<1> USE DEF Inductive
<1>1. UNCHANGED <<serverVars, pageVars, cacheVars, jobs>>
  BY DEF Poll, LosePoll, SendUpload, LoseCorrection, Apply, jobVars
<1>2. \A k \in Keys : FetchShape(k)' /\ CacheShape(k)'
  BY <1>1, ShapeFrame DEF serverVars, cacheVars
<1>3. poll' \in {Idle, Sent} \/ \E state \in JobStates : poll' = <<"answered", state>>
  BY DEF Poll, LosePoll, SendUpload, LoseCorrection, Apply, jobVars, Shapes
<1>4. \/ correction' \in {Idle, <<"answered">>}
      \/ \E ticked \in SUBSET DOMAIN table : correction' = <<"sent", ticked>>
  <2>1. CASE Apply
    <3>1. {s[1] : s \in selected} \in SUBSET DOMAIN table
      BY DEF Shapes
    <3> QED BY <2>1, <3>1 DEF Apply
  <2>2. CASE Poll \/ LosePoll \/ SendUpload
    BY <2>2 DEF Poll, LosePoll, SendUpload, Shapes
  <2>3. CASE LoseCorrection
    BY <2>3 DEF LoseCorrection
  <2> QED BY <2>1, <2>2, <2>3
<1>5. excused' \subseteq Keys
  BY DEF Poll, LosePoll, SendUpload, LoseCorrection, Apply, Shapes, Read
<1>6. Shapes'
  BY <1>1, <1>2, <1>3, <1>4, <1>5 DEF Shapes, serverVars, pageVars, cacheVars
<1>7. OneUpload'
  BY <1>1 DEF OneUpload, serverVars, Poll, LosePoll, SendUpload, LoseCorrection, Apply
<1> QED BY <1>6, <1>7

\* What is refused because the batch is gone.
LEMMA RefusalShapes ==
  ASSUME Inductive, RefuseNotFound
  PROVE  Shapes' /\ OneUpload'
<1> USE DEF Inductive
<1>1. UNCHANGED <<serverVars, pageVars, cache, stale, jobs, excused>>
  BY DEF RefuseNotFound
<1>2. DOMAIN fetch' = Keys /\ \A k \in Keys : fetch'[k] \in {fetch[k], Idle, Sent, Failed}
  BY DEF RefuseNotFound, Shapes
<1>3. \A k \in Keys : FetchShape(k)' /\ CacheShape(k)'
  BY <1>1, <1>2, RequestShapes DEF serverVars
<1>4. poll' \in {poll, Idle} /\ correction' \in {correction, Idle} /\ upload' \in {upload, Idle}
  BY DEF RefuseNotFound
<1>5. Shapes'
  BY <1>1, <1>2, <1>3, <1>4 DEF Shapes, serverVars, pageVars
<1>6. OneUpload'
  BY <1>1, <1>4 DEF OneUpload, serverVars, Idle, Sent
<1> QED BY <1>5, <1>6

\* An invalidation leaves every shape as it was.
LEMMA InvalidationShapes ==
  ASSUME Shapes, InvalidateRecords, UNCHANGED <<table, cache>>
  PROVE  /\ DOMAIN fetch' = Keys /\ DOMAIN cache' = Keys
         /\ \A k \in Keys : FetchShape(k)' /\ CacheShape(k)'
         /\ stale' \subseteq {k \in Keys : cache'[k] # {}} /\ excused' \subseteq Keys
<1>1. DOMAIN fetch' = Keys /\ \A k \in Keys : fetch'[k] \in {fetch[k], Idle, Sent, Failed}
  BY DEF InvalidateRecords, Refetched, Shapes
<1>2. \A k \in Keys : FetchShape(k)' /\ CacheShape(k)'
  BY <1>1, RequestShapes
<1> QED BY <1>1, <1>2 DEF InvalidateRecords, Shapes

\* What is heard of: the jobs, a correction, an upload.
LEMMA NewsShapes ==
  ASSUME Inductive, ReceiveJobs \/ Corrected \/ Uploaded
  PROVE  Shapes' /\ OneUpload'
<1> USE DEF Inductive
<1>0. UNCHANGED <<serverVars, filter, offset, last, cache>>
  BY DEF ReceiveJobs, Corrected, Uploaded, pageVars
<1>1. /\ DOMAIN fetch' = Keys /\ DOMAIN cache' = Keys
      /\ \A k \in Keys : FetchShape(k)' /\ CacheShape(k)'
      /\ stale' \subseteq {k \in Keys : cache'[k] # {}} /\ excused' \subseteq Keys
  <2>1. CASE InvalidateRecords
    BY <1>0, <2>1, InvalidationShapes DEF serverVars
  <2>2. CASE UNCHANGED <<fetch, stale, excused>>
    <3>1. \A k \in Keys : FetchShape(k)' /\ CacheShape(k)'
      BY <1>0, <2>2, ShapeFrame DEF serverVars
    <3> QED BY <1>0, <2>2, <3>1 DEF Shapes
  <2> QED BY <2>1, <2>2 DEF ReceiveJobs, Corrected, Uploaded, InvalidateBatch
<1>2. /\ jobs' \in JobStates \cup {"unknown"}
      /\ poll' \in {Idle, Sent} \/ \E state \in JobStates : poll' = <<"answered", state>>
  <2>1. CASE ReceiveJobs
    BY <2>1 DEF ReceiveJobs, Shapes, Idle, Sent, Failed
  <2>2. CASE Corrected \/ Uploaded
    BY <2>2 DEF Corrected, Uploaded, InvalidateBatch, Refetched, Shapes
  <2> QED BY <2>1, <2>2
<1>3. /\ selected' \subseteq selected
      /\ correction' \in {correction, Idle} /\ upload' \in {upload, Idle}
  BY DEF ReceiveJobs, Corrected, Uploaded, pageVars
<1>4. Shapes'
  BY <1>0, <1>1, <1>2, <1>3 DEF Shapes, serverVars
<1>5. OneUpload'
  BY <1>0, <1>3 DEF OneUpload, serverVars, Idle, Sent
<1> QED BY <1>4, <1>5

\* What is on screen is data the cache holds.
LEMMA OnScreenIsHeld ==
  ASSUME Shapes, NEW k \in OnScreen
  PROVE  k \in Keys /\ Shown(k) \in Pages /\ RowsOf(Shown(k)) \subseteq DOMAIN table
<1>1. k \in Keys /\ cache[k] # {}
  BY DEF Shapes, OnScreen, Key, Keys
<1>2. PICK page \in Pages : cache[k] = {page} /\ RowsOf(page) \subseteq DOMAIN table
  BY <1>1 DEF Shapes, CacheShape
<1>3. Shown(k) = page
  BY <1>2 DEF Shown
<1> QED BY <1>1, <1>2, <1>3

\* The controls lead to an offset that a page may have.
LEMMA TargetsAreOffsets ==
  ASSUME Shapes, NEW n \in Targets
  PROVE  (IF n < 0 THEN 0 ELSE n) \in Offsets
<1>1. PICK k \in OnScreen : \/ n = k[2] - PageSize /\ k[2] # 0
                            \/ n = k[2] + PageSize /\ n < Shown(k).total
  BY DEF Targets
<1>2. k \in Keys /\ Shown(k).total \in 0..MaxRows
  BY <1>1, OnScreenIsHeld DEF Pages
<1>3. MaxRows \in Nat \ {0} /\ PageSize \in Nat \ {0}
  BY ScreenAssumption DEF MaxRows
<1>4. k[2] \in 0..(MaxRows - 1)
  BY <1>2 DEF Keys, Offsets
<1>5. PICK i \in 0..k[2] : k[2] = PageSize * i
  BY <1>2 DEF Keys, Offsets
<1>6. CASE n = k[2] - PageSize /\ k[2] # 0
  <2>1. i # 0
    BY <1>3, <1>5, <1>6
  <2>2. n = PageSize * (i - 1) /\ i - 1 \in Nat
    BY <1>3, <1>4, <1>5, <1>6, <2>1
  <2>3. i - 1 <= PageSize * (i - 1)
    BY <1>3, <2>2
  <2>4. n \in 0..(MaxRows - 1) /\ i - 1 \in 0..n
    BY <1>3, <1>4, <1>6, <2>2, <2>3
  <2> QED BY <2>2, <2>4 DEF Offsets
<1>7. CASE n = k[2] + PageSize /\ n < Shown(k).total
  <2>1. n = PageSize * (i + 1) /\ i + 1 \in Nat
    BY <1>3, <1>4, <1>5, <1>7
  <2>2. i + 1 <= PageSize * (i + 1)
    BY <1>3, <2>1
  <2>3. n \in 0..(MaxRows - 1) /\ i + 1 \in 0..n
    BY <1>2, <1>3, <1>4, <1>7, <2>1, <2>2
  <2> QED BY <2>1, <2>3 DEF Offsets
<1> QED BY <1>1, <1>6, <1>7

\* Opening a page leaves every shape as it was.
LEMMA OpenShapes ==
  ASSUME Inductive, NEW k \in Keys, Open(k), selected' = {},
         UNCHANGED <<serverVars, cache, stale, jobVars, correction, upload, excused>>
  PROVE  Shapes' /\ OneUpload'
<1> USE DEF Inductive
<1>1. DOMAIN fetch' = Keys /\ \A j \in Keys : fetch'[j] \in {fetch[j], Idle, Sent, Failed}
  BY DEF Open, Shapes
<1>2. \A j \in Keys : FetchShape(j)' /\ CacheShape(j)'
  BY <1>1, RequestShapes DEF serverVars
<1>3. filter' \in Filters /\ offset' \in Offsets /\ last' \subseteq {j \in Keys : cache[j] # {}}
  BY DEF Open, Keys, Shapes
<1> QED BY <1>1, <1>2, <1>3 DEF Shapes, OneUpload, serverVars, jobVars

\* A change of filter or of page opens one.
LEMMA ChangeOpens ==
  ASSUME Inductive, ChangePage \/ \E f \in Filters : ChangeFilters(f)
  PROVE  /\ \E k \in Keys : Open(k)
         /\ selected' = {}
         /\ UNCHANGED <<serverVars, cache, stale, jobVars, correction, upload, excused>>
<1>1. CASE ChangePage
  <2>1. PICK n \in Targets : Open(<<filter, IF n < 0 THEN 0 ELSE n>>)
    BY <1>1 DEF ChangePage
  <2>2. <<filter, IF n < 0 THEN 0 ELSE n>> \in Keys
    BY TargetsAreOffsets DEF Inductive, Shapes, Keys
  <2> QED BY <1>1, <2>1, <2>2 DEF ChangePage
<1>2. ASSUME NEW f \in Filters, ChangeFilters(f)
      PROVE  <<f, 0>> \in Keys /\ Open(<<f, 0>>) /\ selected' = {}
             /\ UNCHANGED <<serverVars, cache, stale, jobVars, correction, upload, excused>>
  <2>1. 0 \in Offsets
    BY ScreenAssumption DEF Offsets, MaxRows
  <2> QED BY <1>2, <2>1 DEF ChangeFilters, Keys
<1> QED BY <1>1, <1>2

\* Ticks.
LEMMA TickShapes ==
  ASSUME Inductive, Toggle \/ SelectAllOnThisPage
  PROVE  /\ Shapes' /\ OneUpload' /\ SelectionWasOnScreen'
         /\ UNCHANGED <<serverVars, filter, offset, last, cacheVars, jobVars, correction, upload, excused>>
<1> USE DEF Inductive
<1>1. UNCHANGED <<serverVars, filter, offset, last, cacheVars, jobVars, correction, upload, excused>>
  BY DEF Toggle, SelectAllOnThisPage
<1>2. OnScreen = {Key}
  BY DEF Toggle, SelectAllOnThisPage
<1>3. Key \in Keys /\ RowsOf(Shown(Key)) \subseteq DOMAIN table
  BY <1>2, OnScreenIsHeld
<1>4. selected' \subseteq selected \cup (RowsOf(Shown(Key)) \X {Key})
  <2>1. CASE Toggle
    <3>1. PICK r \in RowsOf(Shown(Key)) :
            selected' = IF <<r, Key>> \in selected THEN selected \ {<<r, Key>>} ELSE selected \cup {<<r, Key>>}
      BY <2>1 DEF Toggle
    <3>2. selected' \subseteq selected \cup {<<r, Key>>}
      BY <3>1
    <3> QED BY <3>2
  <2>2. CASE SelectAllOnThisPage
    BY <2>2 DEF SelectAllOnThisPage
  <2> QED BY <2>1, <2>2
<1>5. \A k \in Keys : FetchShape(k)' /\ CacheShape(k)'
  BY <1>1, ShapeFrame DEF serverVars, cacheVars
<1>6. selected' \subseteq (DOMAIN table) \X Keys
  BY <1>3, <1>4 DEF Shapes
<1>7. Shapes'
  BY <1>1, <1>5, <1>6 DEF Shapes, serverVars, cacheVars, jobVars
<1>8. OneUpload'
  BY <1>1 DEF OneUpload, serverVars
<1>9. SelectionWasOnScreen'
  BY <1>1, <1>4 DEF SelectionWasOnScreen, Key
<1> QED BY <1>1, <1>7, <1>8, <1>9

(***************************************************************************)
(* Ticks and keys.                                                         *)
(***************************************************************************)

\* No step leaves a tick behind that was made under another key.
LEMMA TicksKept ==
  ASSUME Inductive, [Next]_vars
  PROVE  SelectionWasOnScreen'
<1> USE DEF Inductive
<1>1. CASE UNCHANGED <<filter, offset>> /\ selected' \subseteq selected
  BY <1>1 DEF SelectionWasOnScreen, Key
<1>2. CASE selected' = {}
  BY <1>2 DEF SelectionWasOnScreen
<1>3. CASE Toggle \/ SelectAllOnThisPage
  BY <1>3, TickShapes
<1>4. CASE ChangePage \/ \E f \in Filters : ChangeFilters(f)
  BY <1>2, <1>4, ChangeOpens
<1>5. CASE Server
  BY <1>1, <1>5 DEF Server, ListJobs, Start, Settle, Correct, AcceptUpload, RefuseNotFound, WriteElsewhere,
                    DeleteElsewhere, Orphan, CountRecords, ListRecords, pageVars
<1>6. CASE Apply \/ SendUpload
  BY <1>1, <1>6 DEF Apply, SendUpload, pageVars
<1>7. CASE Answers
  BY <1>1, <1>7 DEF Answers, ReceiveJobs, LosePoll, Poll, Corrected, LoseCorrection, Uploaded, ReceiveRecords,
                    LoseRecords, pageVars
<1>8. CASE UNCHANGED vars
  BY <1>1, <1>8 DEF vars, pageVars
<1> QED BY <1>3, <1>4, <1>5, <1>6, <1>7, <1>8 DEF Next, Reviewer

\* Every step keeps the shapes.
LEMMA ShapesKept ==
  ASSUME Inductive, [Next]_vars
  PROVE  Shapes' /\ OneUpload'
<1>1. CASE Server
  BY <1>1, ServerShapes, ListingShapes, RefusalShapes DEF Server
<1>2. CASE Reviewer
  <2>1. CASE ChangePage \/ \E f \in Filters : ChangeFilters(f)
    BY <2>1, ChangeOpens, OpenShapes
  <2> QED BY <1>2, <2>1, TickShapes, RequestsShapes DEF Reviewer
<1>3. CASE Answers
  BY <1>3, NewsShapes, RequestsShapes, AnswerShapes DEF Answers
<1>4. CASE UNCHANGED vars
  <2>1. UNCHANGED <<table, cache, fetch>>
    BY <1>4 DEF vars, serverVars, cacheVars
  <2>2. \A k \in Keys : FetchShape(k)' /\ CacheShape(k)'
    BY <2>1, ShapeFrame DEF Inductive
  <2>3. Shapes'
    BY <1>4, <2>2 DEF Inductive, Shapes, vars, serverVars, pageVars, cacheVars, jobVars
  <2> QED BY <1>4, <2>3 DEF Inductive, OneUpload, vars, serverVars
<1> QED BY <1>1, <1>2, <1>3, <1>4 DEF Next

(***************************************************************************)
(* What the cache holds and what the server would answer.                  *)
(***************************************************************************)

\* A key nothing happened to is as up to date as it was, unless an invalidation that was
\* awaited no longer is.
LEMMA UpToDateFrame ==
  ASSUME NEW k \in Keys, UpToDate(k), table' = table, filter' = filter, offset' = offset,
         cache'[k] = cache[k], fetch'[k] = fetch[k], k \in stale' <=> k \in stale,
         k \in excused => k \in excused', Awaited => Awaited', deleted' = deleted
  PROVE  UpToDate(k)'
BY DEF UpToDate, Current, Key

\* After a write the page hears nothing of, a key is excused unless there is nothing to be
\* out of date.
LEMMA UnreadIsUpToDate ==
  ASSUME Shapes, NEW k \in Keys, UNCHANGED <<cache, fetch, stale>>, excused' = Read
  PROVE  UpToDate(k)'
<1>1. CASE k \in Read
  BY <1>1 DEF UpToDate
<1>2. CASE k \notin Read
  <2>1. cache'[k] = {} /\ k \notin stale' /\ fetch'[k][1] \notin {"counted", "answered"}
    BY <1>2 DEF Read, Shapes
  <2> QED BY <2>1 DEF UpToDate
<1> QED BY <1>1, <1>2

\* While an invalidation is to come, or when the batch is gone, nothing is promised.
LEMMA AwaitedIsUpToDate ==
  ASSUME NEW k \in Keys, (Awaited \/ deleted)'
  PROVE  UpToDate(k)'
BY DEF UpToDate

\* An invalidation makes every key up to date, marked or fetched again, and excuses those
\* whose answer was already computed and is not dropped.
LEMMA InvalidationUpdates ==
  ASSUME Shapes, NEW k \in Keys, InvalidateRecords, UNCHANGED <<table, cache, filter, offset>>
  PROVE  UpToDate(k)'
<1> SUFFICES ASSUME k \notin excused'
             PROVE  /\ fetch'[k][1] \notin {"counted", "answered"}
                    /\ cache'[k] = {} \/ k \in stale'
                    /\ k = Key' /\ k \in stale' => InFlight(fetch'[k])
  BY DEF UpToDate
<1>1. k = Key \/ fetch'[k] = fetch[k]
  BY DEF InvalidateRecords, Shapes
<1>2. k = Key => fetch'[k] = Refetched(fetch[k], cache[k] # {})
  BY DEF InvalidateRecords, Shapes
<1>3. fetch'[k] \in {fetch[k], Sent}
  BY <1>1, <1>2 DEF Refetched
<1>4. ~(fetch[k][1] \in {"counted", "answered"} /\ fetch'[k] = fetch[k])
  BY DEF InvalidateRecords
<1>5. fetch'[k][1] \notin {"counted", "answered"}
  BY <1>3, <1>4 DEF Sent
<1>6. cache'[k] = {} \/ k \in stale'
  BY DEF InvalidateRecords
<1>7. ASSUME k = Key', k \in stale' PROVE InFlight(fetch'[k])
  <2>1. k = Key /\ cache[k] # {}
    BY <1>7 DEF Key, InvalidateRecords
  <2>2. fetch'[k] = Sent
    BY <1>2, <2>1 DEF Refetched
  <2> QED BY <2>2 DEF InFlight, Sent, Idle, Failed
<1> QED BY <1>5, <1>6, <1>7

\* Opening a page fetches what is marked.
LEMMA OpeningUpdates ==
  ASSUME Inductive, NEW j \in Keys, NEW k \in Keys, Open(j),
         UNCHANGED <<serverVars, cache, stale, jobVars, correction, upload, excused>>
  PROVE  UpToDate(k)'
<1> SUFFICES ASSUME k \notin excused', ~Awaited', ~deleted'
             PROVE  /\ fetch'[k][1] = "counted" => fetch'[k][2] = Cardinality(Filtered(table', k[1]))
                    /\ fetch'[k][1] = "answered" => fetch'[k][2] = Current(k)'
                    /\ cache'[k] \in {{}, {Current(k)'}} \/ k \in stale' \/ InFlight(fetch'[k])
                    /\ k = Key' /\ k \in stale' => InFlight(fetch'[k])
  BY DEF UpToDate
<1>1. /\ fetch[k][1] = "counted" => fetch[k][2] = Cardinality(Filtered(table, k[1]))
      /\ fetch[k][1] = "answered" => fetch[k][2] = Current(k)
      /\ cache[k] \in {{}, {Current(k)}} \/ k \in stale \/ InFlight(fetch[k])
      /\ k = Key /\ k \in stale => InFlight(fetch[k])
  BY DEF Inductive, UpToDate, Awaited, jobVars, serverVars
<1>2. Current(k)' = Current(k) /\ cache'[k] = cache[k] /\ stale' = stale /\ table' = table
  BY DEF Current, serverVars
<1>3. Key' = j
  BY DEF Open, Key, Keys
<1>4. CASE fetch'[k] = fetch[k] /\ (k = j => k = Key \/ k \notin stale \/ InFlight(fetch[k]))
  BY <1>1, <1>2, <1>3, <1>4
<1>5. CASE fetch'[k] = Sent
  BY <1>5 DEF Sent, InFlight, Idle, Failed
<1>6. \/ fetch'[k] = Sent
      \/ fetch'[k] = fetch[k] /\ (k = j => k = Key \/ k \notin stale \/ InFlight(fetch[k]))
  BY DEF Open, Inductive, Shapes
<1> QED BY <1>4, <1>5, <1>6

\* The total, the page, and their arrival or loss.
LEMMA AnswersUpdate ==
  ASSUME Inductive, NEW j \in Keys, NEW k \in Keys,
         CountRecords(j) \/ ListRecords(j) \/ ReceiveRecords(j) \/ LoseRecords(j)
  PROVE  UpToDate(k)'
<1>0. /\ UNCHANGED <<table, deleted, filter, offset, jobs, correction>>
      /\ Current(k)' = Current(k) /\ Awaited' = Awaited /\ Key' = Key
  BY DEF CountRecords, ListRecords, ReceiveRecords, LoseRecords, serverVars, pageVars, jobVars, Current, Awaited, Key
<1>1. UpToDate(k)
  BY DEF Inductive
<1>2. CASE k # j
  <2>1. /\ cache'[k] = cache[k] /\ fetch'[k] = fetch[k]
        /\ k \in stale' <=> k \in stale
        /\ k \in excused => k \in excused'
    BY <1>2 DEF CountRecords, ListRecords, ReceiveRecords, LoseRecords, Inductive, Shapes
  <2> QED BY <1>0, <1>1, <2>1, UpToDateFrame
<1>3. CASE k = j
  <2>1. CASE CountRecords(j)
    <3>1. fetch'[k] = <<"counted", Cardinality(Filtered(table, k[1]))>>
      BY <1>3, <2>1 DEF CountRecords, Inductive, Shapes
    <3> QED BY <1>0, <3>1 DEF UpToDate, InFlight, Idle, Failed
  <2>2. CASE ListRecords(j)
    <3>1. /\ ~deleted => fetch'[k] = <<"answered", Page(Items(table, k), fetch[k][2])>>
          /\ fetch[k][1] = "counted"
      BY <1>3, <2>2 DEF ListRecords, Inductive, Shapes
    <3>2. ASSUME k \notin excused, ~Awaited, ~deleted PROVE fetch'[k][2] = Current(k)
      BY <1>1, <3>1, <3>2 DEF UpToDate, Current
    <3>3. ~deleted => InFlight(fetch'[k]) /\ fetch'[k][1] = "answered"
      BY <3>1 DEF InFlight, Idle, Failed
    <3>4. excused' = excused
      BY <2>2 DEF ListRecords
    <3> QED BY <1>0, <3>2, <3>3, <3>4 DEF UpToDate
  <2>3. CASE ReceiveRecords(j)
    <3>1. cache'[k] = {fetch[k][2]} /\ fetch[k][1] = "answered" /\ fetch'[k] = Idle /\ k \notin stale'
      BY <1>3, <2>3 DEF ReceiveRecords, Inductive, Shapes
    <3>2. excused' = excused
      BY <2>3 DEF ReceiveRecords
    <3> QED BY <1>0, <1>1, <3>1, <3>2 DEF UpToDate, Idle
  <2>4. CASE LoseRecords(j)
    BY <1>3, <2>4 DEF LoseRecords, UpToDate
  <2> QED BY <2>1, <2>2, <2>3, <2>4
<1> QED BY <1>2, <1>3

\* Every step keeps every key up to date as far as the page can know.
LEMMA UpToDateKept ==
  ASSUME Inductive, [Next]_vars, NEW k \in Keys
  PROVE  UpToDate(k)'
<1>1. UpToDate(k) /\ Shapes
  BY DEF Inductive
<1>2. CASE UNCHANGED <<table, deleted, filter, offset, cache, fetch, stale, excused, jobs, correction>>
  <2>1. Awaited' = Awaited
    BY <1>2 DEF Awaited
  <2> QED BY <1>1, <1>2, <2>1, UpToDateFrame
<1>3. CASE ListJobs \/ Start \/ AcceptUpload \/ Orphan \/ Toggle \/ SelectAllOnThisPage \/ SendUpload \/ Poll
           \/ LosePoll \/ UNCHANGED vars
  BY <1>2, <1>3 DEF ListJobs, Start, AcceptUpload, Orphan, Toggle, SelectAllOnThisPage, SendUpload, Poll, LosePoll, vars,
                    serverVars, pageVars, cacheVars, jobVars
<1>4. CASE Settle
  <2>1. CASE IsRunning(jobs)
    <3>1. Awaited'
      BY <1>4, <2>1 DEF Settle, Awaited, IsRunning, jobVars
    <3> QED BY <3>1, AwaitedIsUpToDate
  <2>2. CASE ~IsRunning(jobs)
    <3>1. excused' = Read /\ UNCHANGED <<cache, fetch, stale>>
      BY <1>4, <2>2 DEF Settle, IsRunning, cacheVars
    <3> QED BY <1>1, <3>1, UnreadIsUpToDate
  <2> QED BY <2>1, <2>2
<1>5. CASE WriteElsewhere
  BY <1>1, <1>5, UnreadIsUpToDate DEF WriteElsewhere, cacheVars
<1>6. CASE Correct
  BY <1>6, AwaitedIsUpToDate DEF Correct, Awaited
<1>7. CASE \E j \in Keys : CountRecords(j) \/ ListRecords(j) \/ ReceiveRecords(j) \/ LoseRecords(j)
  BY <1>7, AnswersUpdate
<1>8. CASE ChangePage \/ \E f \in Filters : ChangeFilters(f)
  BY <1>8, ChangeOpens, OpeningUpdates
<1>9. CASE Apply
  <2>1. Awaited => Awaited'
    BY <1>9 DEF Apply, Awaited, Idle, jobVars
  <2> QED BY <1>1, <1>9, <2>1, UpToDateFrame DEF Apply, serverVars, pageVars, cacheVars
<1>10. CASE LoseCorrection
  <2>1. CASE correction = <<"answered">>
    BY <1>1, <1>10, <2>1, UnreadIsUpToDate DEF LoseCorrection, cacheVars
  <2>2. CASE correction # <<"answered">>
    <3>1. Awaited => Awaited'
      BY <1>10, <2>2 DEF LoseCorrection, Awaited, jobVars
    <3> QED BY <1>1, <1>10, <2>2, <3>1, UpToDateFrame DEF LoseCorrection, serverVars, pageVars, cacheVars
  <2> QED BY <2>1, <2>2
<1>11. CASE Corrected \/ Uploaded
  BY <1>1, <1>11, InvalidationUpdates DEF Corrected, Uploaded, InvalidateBatch, serverVars, pageVars
<1>12. CASE ReceiveJobs
  <2>1. CASE IsRunning(jobs')
    BY <2>1, AwaitedIsUpToDate DEF Awaited
  <2>2. CASE IsRunning(jobs) /\ ~IsRunning(jobs')
    BY <1>1, <1>12, <2>2, InvalidationUpdates DEF ReceiveJobs, serverVars, pageVars
  <2>3. CASE ~IsRunning(jobs) /\ ~IsRunning(jobs')
    <3>1. UNCHANGED <<table, deleted, filter, offset, cache, fetch, stale, excused, correction>>
      BY <1>12, <2>3 DEF ReceiveJobs, serverVars, pageVars
    <3>2. Awaited => Awaited'
      BY <2>3, <3>1 DEF Awaited
    <3> QED BY <1>1, <3>1, <3>2, UpToDateFrame
  <2> QED BY <2>1, <2>2, <2>3
<1>13. CASE DeleteElsewhere \/ RefuseNotFound
  <2>1. deleted'
    BY <1>13 DEF DeleteElsewhere, RefuseNotFound, serverVars
  <2> QED BY <2>1, AwaitedIsUpToDate
<1> QED BY <1>3, <1>4, <1>5, <1>6, <1>7, <1>8, <1>9, <1>10, <1>11, <1>12, <1>13 DEF Next, Server, Reviewer, Answers

(***************************************************************************)
(* Theorems.                                                               *)
(***************************************************************************)

\* Every reachable state satisfies the inductive invariant.
THEOREM AlwaysInductive == Spec => []Inductive
<1>1. ASSUME Inductive, [Next]_vars PROVE Inductive'
  <2>1. Shapes' /\ OneUpload'
    BY <1>1, ShapesKept
  <2>2. SelectionWasOnScreen'
    BY <1>1, TicksKept
  <2>3. \A k \in Keys : UpToDate(k)'
    BY <1>1, UpToDateKept
  <2> QED BY <2>1, <2>2, <2>3 DEF Inductive
<1> QED BY InitInductive, <1>1, PTL DEF Spec

\* What the variables hold (TypeOK): above all, a cache never holds two answers for one
\* key, and no answer has more records than the page size, whatever the batch, the filter
\* and the order of the requests.
THEOREM TypeCorrect == Spec => []TypeOK
<1>1. ASSUME Inductive PROVE TypeOK
  <2> USE <1>1 DEF Inductive
  <2>1. table \in Seq(Statuses) /\ Len(table) <= MaxRows
    BY TableFits
  <2>2. \A k \in Keys : cache[k] \subseteq Pages /\ Cardinality(cache[k]) <= 1
    <3> SUFFICES ASSUME NEW k \in Keys PROVE cache[k] \subseteq Pages /\ Cardinality(cache[k]) <= 1
      OBVIOUS
    <3>1. CASE cache[k] = {}
      <4>1. Cardinality(cache[k]) = 0
        BY <3>1, FS_EmptySet
      <4> QED BY <3>1, <4>1
    <3>2. CASE \E page \in Pages : cache[k] = {page}
      <4>1. Cardinality(cache[k]) = 1
        BY <3>2, FS_Singleton
      <4> QED BY <3>2, <4>1
    <3> QED BY <3>1, <3>2 DEF Shapes, CacheShape
  <2>3. \A k \in Keys : \/ fetch[k] \in {Idle, Sent, Failed}
                        \/ fetch[k][1] = "counted" /\ fetch[k][2] \in 0..MaxRows
                        \/ fetch[k][1] = "answered" /\ fetch[k][2] \in Pages
    BY DEF Shapes, FetchShape
  <2>4. Key \in Keys /\ last \subseteq Keys /\ stale \subseteq Keys /\ excused \subseteq Keys
    BY DEF Shapes, Key, Keys
  <2>5. /\ job \in {"none", "PENDING", "PROCESSING", "SUCCEEDED", "FAILED"}
        /\ orphaned \in BOOLEAN /\ deleted \in BOOLEAN
        /\ jobs \in {"unknown", "none", "PENDING", "PROCESSING", "SUCCEEDED", "FAILED"}
        /\ selected \subseteq (DOMAIN table) \X Keys
    BY DEF Shapes, JobStates
  <2> QED BY <2>1, <2>2, <2>3, <2>4, <2>5 DEF TypeOK
<1> QED BY AlwaysInductive, <1>1, PTL

\* What is ticked was ticked under the filter and at the offset the page has now
\* (SelectionWasOnScreen): a bulk correction never reaches a record the reviewer ticked on
\* a page since left, however answers, corrections and page changes interleave.
THEOREM SelectionIsOfThisScreen == Spec => []SelectionWasOnScreen
<1>1. Inductive => SelectionWasOnScreen
  BY DEF Inductive
<1> QED BY AlwaysInductive, <1>1, PTL

\* When nothing is under way any more the page on screen is the one the server would
\* answer with (QuietPageIsCurrent), for any batch, page size and number of events, but
\* for the keys that nothing could have told the page about.
THEOREM QuietPagesAreCurrent == Spec => []QuietPageIsCurrent
<1>1. ASSUME Inductive PROVE QuietPageIsCurrent
  <2> SUFFICES ASSUME Quiet, ~deleted, cache[Key] # {}, Key \notin excused PROVE cache[Key] = {Current(Key)}
    BY DEF QuietPageIsCurrent
  <2>1. Key \in Keys /\ UpToDate(Key)
    BY <1>1 DEF Inductive, Shapes, Key, Keys
  <2>2. ~Awaited /\ ~InFlight(fetch[Key])
    BY DEF Quiet, Awaited, IsRunning, InFlight, Idle
  <2> QED BY <2>1, <2>2 DEF UpToDate
<1> QED BY AlwaysInductive, <1>1, PTL

=============================================================================
