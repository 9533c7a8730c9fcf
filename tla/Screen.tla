------------------------------- MODULE Screen -------------------------------
(***************************************************************************)
(* A batch's page in the browser and the server behind it: the pages of    *)
(* records the query cache holds, the filter and the offset, the ticks, a  *)
(* bulk correction, an upload, and the polling that notices the end of an  *)
(* extraction.                                                             *)
(*                                                                         *)
(* Records are numbered by import_sequence and keep what the filter looks  *)
(* at, their status.  The query library is modelled by what the page       *)
(* relies on: an invalidation marks every page of the batch and fetches    *)
(* the one on screen again, dropping the answer under way unless it is the *)
(* first for that page; a marked page is fetched when it is opened, and an *)
(* unmarked one may be if it is old enough.                                *)
(***************************************************************************)
EXTENDS Integers, Sequences, FiniteSets

CONSTANTS
  PageSize,        \* records of a page
  Initial,         \* the status of each record of the batch when the page is opened
  Filters,         \* what the status filter may be set to, "All" among them
  MaxEvents        \* bound: changes of filter or page, corrections, uploads, what other
                   \* reviewers do, a restart, and failed requests but for the polls, which
                   \* are not bounded; one upload at most

Statuses == {"NEEDS_REVIEW", "VALID"}

ASSUME ScreenAssumption ==
  /\ PageSize \in Nat \ {0} /\ Initial \in Seq(Statuses)
  /\ "All" \in Filters /\ Filters \subseteq Statuses \cup {"All"}
  /\ MaxEvents \in Nat

VARIABLES
  table,       \* server: the status of each record, in import order
  job,         \* server: the extraction job of the upload
  orphaned,    \* server: no task will ever settle the job
  deleted,     \* server: another reviewer has deleted the batch
  filter,      \* page: the filter
  offset,      \* page: the offset
  last,        \* page: the key whose data was on screen last, if any, for keepPreviousData
  cache,       \* query cache: for each key, the page it holds, if any
  fetch,       \* query cache: for each key, its request
  stale,       \* query cache: keys marked by an invalidation since their data came
  jobs,        \* query cache: the job as the page knows it
  poll,        \* query cache: the request for the jobs
  selected,    \* page: what is ticked, each with the key on screen when it was ticked
  correction,  \* the bulk correction under way
  upload,      \* the upload under way
  left,        \* bound: events that may still happen
  excused      \* history: keys that may be out of date and nothing on this page can know

serverVars == <<table, job, orphaned, deleted>>
pageVars == <<filter, offset, last, selected>>
cacheVars == <<cache, fetch, stale>>
jobVars == <<jobs, poll>>
vars == <<serverVars, pageVars, cacheVars, jobVars, correction, upload, left, excused>>

MaxRows == Len(Initial) + 1
Offsets == {n \in 0..(MaxRows - 1) : \E i \in 0..n : n = PageSize * i}
Keys == Filters \X Offsets
Key == <<filter, offset>>

Idle == <<"idle">>
Sent == <<"sent">>
Failed == <<"failed">>
InFlight(request) == request \notin {Idle, Failed}

(***************************************************************************)
(* The server: one page, and the total counted by a statement before it.   *)
(***************************************************************************)
\* The filter, and the place of a record among those it lets through, in import order.
Filtered(rows, f) == {r \in DOMAIN rows : f = "All" \/ rows[r] = f}
Place(found, r) == Cardinality({q \in found : q <= r})

\* Mutant of Items: the limit is forgotten.
ItemsUnlimited(rows, k) ==
  LET found == Filtered(rows, k[1])
  IN  {<<r, rows[r]>> : r \in {q \in found : Place(found, q) > k[2]}}

Items(rows, k) ==
  LET found == Filtered(rows, k[1])
  IN  {<<r, rows[r]>> : r \in {q \in found : Place(found, q) \in (k[2] + 1)..(k[2] + PageSize)}}

Page(items, total) == [items |-> items, total |-> total]

\* list_records when nothing is written between its two statements.
Current(k) == Page(Items(table, k), Cardinality(Filtered(table, k[1])))

\* The keys with an answer that a later write leaves out of date.
Read == {k \in Keys : cache[k] # {} \/ fetch[k][1] \in {"counted", "answered"}}

Spend == left > 0 /\ left' = left - 1

CountRecords(k) ==
  /\ ~deleted
  /\ fetch[k] = Sent
  /\ fetch' = [fetch EXCEPT ![k] = <<"counted", Cardinality(Filtered(table, k[1]))>>]
  /\ excused' = excused \ {k}
  /\ UNCHANGED <<serverVars, pageVars, cache, stale, jobVars, correction, upload, left>>

ListRecords(k) ==
  /\ fetch[k][1] = "counted"
  /\ LET items == IF deleted THEN {} ELSE Items(table, k)
     IN  fetch' = [fetch EXCEPT ![k] = <<"answered", Page(items, fetch[k][2])>>]
  /\ UNCHANGED <<serverVars, pageVars, cache, stale, jobVars, correction, upload, left, excused>>

ListJobs ==
  /\ ~deleted
  /\ poll = Sent
  /\ poll' = <<"answered", job>>
  /\ UNCHANGED <<serverVars, pageVars, cacheVars, jobs, correction, upload, left, excused>>

Start ==
  /\ ~orphaned /\ ~deleted
  /\ job = "PENDING"
  /\ job' = "PROCESSING"
  /\ UNCHANGED <<table, orphaned, deleted, pageVars, cacheVars, jobVars, correction, upload, left, excused>>

\* The page cannot know of an extraction it never saw running.
Settle ==
  /\ ~orphaned /\ ~deleted
  /\ job = "PROCESSING"
  /\ \/ job' = "FAILED" /\ UNCHANGED table
     \/ job' = "SUCCEEDED" /\ \E status \in Statuses : table' = Append(table, status)
  /\ excused' = IF jobs \in {"PENDING", "PROCESSING"} THEN excused ELSE Read
  /\ UNCHANGED <<orphaned, deleted, pageVars, cacheVars, jobVars, correction, upload, left>>

\* The task is lost and its job stays as it is: the server restarts, or hangs, or a
\* statement fails between the commit of the job and its outcome (Extraction has all).
Orphan ==
  /\ job \in {"PENDING", "PROCESSING"} /\ ~orphaned
  /\ Spend
  /\ orphaned' = TRUE
  /\ UNCHANGED <<table, job, deleted, pageVars, cacheVars, jobVars, correction, upload, excused>>

\* Another reviewer deletes the batch.  Nothing tells this page.
DeleteElsewhere ==
  /\ ~deleted
  /\ Spend
  /\ deleted' = TRUE
  /\ UNCHANGED <<table, job, orphaned, pageVars, cacheVars, jobVars, correction, upload, excused>>

\* _get_batch: whatever is asked of a batch that is gone is refused (404).
RefuseNotFound ==
  /\ deleted
  /\ \/ /\ \E k \in Keys : fetch[k] = Sent /\ fetch' = [fetch EXCEPT ![k] = Failed]
        /\ UNCHANGED <<poll, correction, upload>>
     \/ poll = Sent /\ poll' = Idle /\ UNCHANGED <<fetch, correction, upload>>
     \/ correction[1] = "sent" /\ correction' = Idle /\ UNCHANGED <<fetch, poll, upload>>
     \/ upload = Sent /\ upload' = Idle /\ UNCHANGED <<fetch, poll, correction>>
  /\ UNCHANGED <<serverVars, pageVars, cache, stale, jobs, left, excused>>

\* Another reviewer corrects or approves a record.
WriteElsewhere ==
  /\ ~deleted
  /\ Spend
  /\ \E r \in DOMAIN table : \E status \in Statuses \ {table[r]} : table' = [table EXCEPT ![r] = status]
  /\ excused' = Read
  /\ UNCHANGED <<job, orphaned, deleted, pageVars, cacheVars, jobVars, correction, upload>>

(***************************************************************************)
(* The query cache.                                                        *)
(***************************************************************************)
\* A request is dropped for a new one only when there is data to show meanwhile.
Refetched(request, known) == IF known \/ ~InFlight(request) THEN Sent ELSE request

\* Mutant of InvalidateRecords: only the page on screen is invalidated.
InvalidateOnScreen ==
  /\ fetch' = [fetch EXCEPT ![Key] = Refetched(@, cache[Key] # {})]
  /\ UNCHANGED stale
  /\ excused' = excused \cup {k \in Keys : fetch[k][1] \in {"counted", "answered"} /\ fetch'[k] = fetch[k]}

\* invalidateQueries on the records.  An answer computed before and not dropped clears
\* the mark when it arrives, although it is old.
InvalidateRecords ==
  /\ fetch' = [fetch EXCEPT ![Key] = Refetched(@, cache[Key] # {})]
  /\ stale' = {k \in Keys : cache[k] # {}}
  /\ excused' = excused \cup {k \in Keys : fetch[k][1] \in {"counted", "answered"} /\ fetch'[k] = fetch[k]}

\* invalidateQueries on the batch: its records and its jobs.
InvalidateBatch ==
  /\ InvalidateRecords
  /\ poll' = Refetched(poll, jobs # "unknown")
  /\ UNCHANGED jobs

ReceiveRecords(k) ==
  /\ fetch[k][1] = "answered"
  /\ cache' = [cache EXCEPT ![k] = {fetch[k][2]}]
  /\ fetch' = [fetch EXCEPT ![k] = Idle]
  /\ stale' = stale \ {k}
  /\ last' = IF k = Key THEN {k} ELSE last
  /\ UNCHANGED <<serverVars, filter, offset, selected, jobVars, correction, upload, left, excused>>

\* retry: false.  What was cached stays on screen under an error notice.
LoseRecords(k) ==
  /\ InFlight(fetch[k])
  /\ Spend
  /\ fetch' = [fetch EXCEPT ![k] = Failed]
  /\ excused' = excused \cup {k}
  /\ UNCHANGED <<serverVars, pageVars, cache, stale, jobVars, correction, upload>>

\* Mutant of IsRunning: a job that waits is not running.
IsProcessing(known) == known = "PROCESSING"

IsRunning(known) == known \in {"PENDING", "PROCESSING"}

\* refetchInterval.
Poll ==
  /\ IsRunning(jobs)
  /\ ~InFlight(poll)
  /\ poll' = Sent
  /\ UNCHANGED <<serverVars, pageVars, cacheVars, jobs, correction, upload, left, excused>>

\* useJobs, with the effect that runs when its data changes.
ReceiveJobs ==
  /\ poll[1] = "answered"
  /\ jobs' = poll[2]
  /\ poll' = Idle
  /\ IF IsRunning(jobs) /\ ~IsRunning(jobs') THEN InvalidateRecords ELSE UNCHANGED <<fetch, stale, excused>>
  /\ UNCHANGED <<serverVars, pageVars, cache, correction, upload, left>>

\* A poll fails, any number of times: what was polled before stays, and so does the
\* interval, which is decided by it.  (An answer that is lost is a request that was: the
\* listing writes nothing.)
LosePoll ==
  /\ poll = Sent
  /\ poll' = Idle
  /\ UNCHANGED <<serverVars, pageVars, cacheVars, jobs, correction, upload, left, excused>>

(***************************************************************************)
(* The page.                                                               *)
(***************************************************************************)
\* The keys whose data is on screen: its own, or the previous one while its first
\* answer is under way, or none.
OnScreen ==
  IF cache[Key] # {} THEN {Key}
  ELSE {k \in last : InFlight(fetch[Key])}

Shown(k) == CHOOSE page \in cache[k] : TRUE
RowsOf(page) == {item[1] : item \in page.items}

\* The key changes: it is fetched if it has no data, is marked, or is old.
Open(k) ==
  /\ filter' = k[1] /\ offset' = k[2]
  /\ last' = IF cache[k] # {} THEN {k} ELSE last
  /\ IF k = Key THEN UNCHANGED fetch
     ELSE \/ fetch' = [fetch EXCEPT ![k] = IF InFlight(@) THEN @ ELSE Sent]
          \/ cache[k] # {} /\ k \notin stale /\ UNCHANGED fetch

ChangeFilters(f) ==
  /\ f # filter
  /\ Spend
  /\ Open(<<f, 0>>)
  /\ selected' = {}
  /\ UNCHANGED <<serverVars, cache, stale, jobVars, correction, upload, excused>>

\* The offsets the controls lead to, when there are controls.
Targets ==
  UNION {LET total == Shown(k).total
         IN  IF total <= PageSize THEN {}
             ELSE {n \in {k[2] - PageSize} : k[2] # 0} \cup {n \in {k[2] + PageSize} : n < total} :
         k \in OnScreen}

\* Mutant of ChangePage: the ticks are kept.
ChangePageOnly ==
  /\ Spend
  /\ \E n \in Targets : Open(<<filter, IF n < 0 THEN 0 ELSE n>>)
  /\ UNCHANGED <<serverVars, selected, cache, stale, jobVars, correction, upload, excused>>

ChangePage ==
  /\ Spend
  /\ \E n \in Targets : Open(<<filter, IF n < 0 THEN 0 ELSE n>>)
  /\ selected' = {}
  /\ UNCHANGED <<serverVars, cache, stale, jobVars, correction, upload, excused>>

\* Ticks are off while the previous page stands in for this one.
Toggle ==
  /\ OnScreen = {Key}
  /\ \E r \in RowsOf(Shown(Key)) :
       selected' = IF <<r, Key>> \in selected THEN selected \ {<<r, Key>>} ELSE selected \cup {<<r, Key>>}
  /\ UNCHANGED <<serverVars, filter, offset, last, cacheVars, jobVars, correction, upload, left, excused>>

SelectAllOnThisPage ==
  /\ OnScreen = {Key}
  /\ LET all == RowsOf(Shown(Key)) \X {Key}
     IN  /\ all # {}
         /\ selected' = IF all \subseteq selected THEN {} ELSE all
  /\ UNCHANGED <<serverVars, filter, offset, last, cacheVars, jobVars, correction, upload, left, excused>>

Apply ==
  /\ correction = Idle
  /\ selected # {} /\ OnScreen # {}
  /\ Spend
  /\ correction' = <<"sent", {s[1] : s \in selected}>>
  /\ UNCHANGED <<serverVars, pageVars, cacheVars, jobVars, upload, excused>>

\* correct_records: every record is written, with the status its verdict gives it.
Correct ==
  /\ ~deleted
  /\ correction[1] = "sent"
  /\ \E status \in [correction[2] -> Statuses] :
       table' = [r \in DOMAIN table |-> IF r \in correction[2] THEN status[r] ELSE table[r]]
  /\ correction' = <<"answered">>
  /\ UNCHANGED <<job, orphaned, deleted, pageVars, cacheVars, jobVars, upload, left, excused>>

\* onSuccess of the mutation, and of the bar if it is still there.
Corrected ==
  /\ correction = <<"answered">>
  /\ correction' = Idle
  /\ InvalidateBatch
  /\ selected' = IF OnScreen # {} THEN {} ELSE selected
  /\ UNCHANGED <<serverVars, filter, offset, last, cache, upload, left>>

\* It was refused, or its answer was lost after it was written.
LoseCorrection ==
  /\ correction # Idle
  /\ Spend
  /\ correction' = Idle
  /\ excused' = IF correction = <<"answered">> THEN Read ELSE excused
  /\ UNCHANGED <<serverVars, pageVars, cacheVars, jobVars, upload>>

SendUpload ==
  /\ job = "none" /\ upload = Idle
  /\ Spend
  /\ upload' = Sent
  /\ UNCHANGED <<serverVars, pageVars, cacheVars, jobVars, correction, excused>>

AcceptUpload ==
  /\ ~deleted
  /\ upload = Sent
  /\ job' = "PENDING"
  /\ upload' = <<"answered">>
  /\ UNCHANGED <<table, orphaned, deleted, pageVars, cacheVars, jobVars, correction, left, excused>>

Uploaded ==
  /\ upload = <<"answered">>
  /\ upload' = Idle
  /\ InvalidateBatch
  /\ UNCHANGED <<serverVars, pageVars, cache, correction, left>>

Init ==
  /\ table = Initial
  /\ job = "none" /\ orphaned = FALSE /\ deleted = FALSE
  /\ filter = "All" /\ offset = 0 /\ last = {} /\ selected = {}
  /\ cache = [k \in Keys |-> {}]
  /\ fetch = [k \in Keys |-> IF k = Key THEN Sent ELSE Idle]
  /\ stale = {} /\ excused = {}
  /\ jobs = "unknown" /\ poll = Sent
  /\ correction = Idle /\ upload = Idle
  /\ left = MaxEvents

Server == \/ ListJobs \/ Start \/ Settle \/ Correct \/ AcceptUpload \/ RefuseNotFound
          \/ WriteElsewhere \/ DeleteElsewhere \/ Orphan
          \/ \E k \in Keys : CountRecords(k) \/ ListRecords(k)

Reviewer == \/ ChangePage \/ Toggle \/ SelectAllOnThisPage \/ Apply \/ SendUpload
            \/ \E f \in Filters : ChangeFilters(f)

Answers == \/ ReceiveJobs \/ LosePoll \/ Poll \/ Corrected \/ LoseCorrection \/ Uploaded
           \/ \E k \in Keys : ReceiveRecords(k) \/ LoseRecords(k)

Next == Server \/ Reviewer \/ Answers

\* The interval fires; of requests for the jobs sent again and again not all are lost;
\* and a task that is not lost ends (Extraction: WaitersAreAdmitted, EveryJobSettles).
Fairness == WF_vars(Poll) /\ SF_vars(ListJobs) /\ WF_vars(ReceiveJobs) /\ WF_vars(Start \/ Settle)

Spec == Init /\ [][Next]_vars /\ Fairness

(***************************************************************************)
(* Properties.                                                             *)
(***************************************************************************)
Pages ==
  {page \in [items : SUBSET ((1..MaxRows) \X Statuses), total : 0..MaxRows] : Cardinality(page.items) <= PageSize}

\* Every variable holds what the code may put there; no page has more records than the
\* limit the server sets to it, whatever the batch holds.
TypeOK ==
  /\ table \in Seq(Statuses) /\ Len(table) <= MaxRows
  /\ job \in {"none", "PENDING", "PROCESSING", "SUCCEEDED", "FAILED"}
  /\ orphaned \in BOOLEAN /\ deleted \in BOOLEAN
  /\ Key \in Keys /\ last \subseteq Keys
  /\ \A k \in Keys : cache[k] \subseteq Pages /\ Cardinality(cache[k]) <= 1
  /\ \A k \in Keys : \/ fetch[k] \in {Idle, Sent, Failed}
                     \/ fetch[k][1] = "counted" /\ fetch[k][2] \in 0..MaxRows
                     \/ fetch[k][1] = "answered" /\ fetch[k][2] \in Pages
  /\ jobs \in {"unknown", "none", "PENDING", "PROCESSING", "SUCCEEDED", "FAILED"}
  /\ selected \subseteq (DOMAIN table) \X Keys
  /\ stale \subseteq Keys /\ excused \subseteq Keys

\* A selection only means anything against the rows it was made on: what is ticked, and
\* would be corrected, was ticked under the filter and at the offset the page has now.
SelectionWasOnScreen == \A s \in selected : s[2] = Key

\* Nothing this page waits for.
Quiet ==
  /\ correction = Idle /\ upload = Idle
  /\ ~InFlight(poll) /\ jobs \notin {"PENDING", "PROCESSING"}
  /\ fetch[Key] = Idle

\* The table brings itself up to date: when nothing is under way any more, the page on
\* screen is the one the server would answer with, after any order of corrections,
\* uploads, filters and pages.  What the page cannot know is excused: another reviewer's
\* write, a lost answer, an extraction that ended before it was seen running, and an
\* invalidation that came while the first answer for the page was already on its way; and
\* of a batch that another reviewer deleted there is no page to show.
QuietPageIsCurrent ==
  Quiet /\ ~deleted /\ cache[Key] # {} /\ Key \notin excused => cache[Key] = {Current(Key)}

\* The inductive invariant of the proofs.  First the shapes of what the cache, its
\* requests and the mutations hold, and that pages speak of records there are.
FetchShape(k) ==
  \/ fetch[k] \in {Idle, Sent, Failed}
  \/ \E n \in 0..MaxRows : fetch[k] = <<"counted", n>>
  \/ \E page \in Pages : fetch[k] = <<"answered", page>> /\ RowsOf(page) \subseteq DOMAIN table

CacheShape(k) ==
  \/ cache[k] = {}
  \/ \E page \in Pages : cache[k] = {page} /\ RowsOf(page) \subseteq DOMAIN table

JobStates == {"none", "PENDING", "PROCESSING", "SUCCEEDED", "FAILED"}

Shapes ==
  /\ DOMAIN fetch = Keys /\ DOMAIN cache = Keys
  /\ \A k \in Keys : FetchShape(k) /\ CacheShape(k)
  /\ table \in Seq(Statuses) /\ job \in JobStates /\ orphaned \in BOOLEAN /\ deleted \in BOOLEAN
  /\ filter \in Filters /\ offset \in Offsets
  /\ last \subseteq {k \in Keys : cache[k] # {}}
  /\ jobs \in JobStates \cup {"unknown"}
  /\ poll \in {Idle, Sent} \/ \E state \in JobStates : poll = <<"answered", state>>
  /\ correction \in {Idle, <<"answered">>} \/ \E ticked \in SUBSET DOMAIN table : correction = <<"sent", ticked>>
  /\ selected \subseteq (DOMAIN table) \X Keys
  /\ stale \subseteq {k \in Keys : cache[k] # {}} /\ excused \subseteq Keys

\* One upload at most, so one record more at most.
OneUpload ==
  /\ upload = Sent => job = "none"
  /\ Len(table) = Len(Initial) \/ (Len(table) = MaxRows /\ job = "SUCCEEDED")

\* An invalidation is still to come: a correction has been answered, or the page is
\* waiting to see an extraction end.
Awaited == correction = <<"answered">> \/ IsRunning(jobs)

\* Unless one is, what the cache holds for a key is what the server would answer, or is
\* marked, or is being fetched again; and what is on its way is as good as new.
UpToDate(k) ==
  k \notin excused /\ ~Awaited /\ ~deleted =>
    /\ fetch[k][1] = "counted" => fetch[k][2] = Cardinality(Filtered(table, k[1]))
    /\ fetch[k][1] = "answered" => fetch[k][2] = Current(k)
    /\ cache[k] \in {{}, {Current(k)}} \/ k \in stale \/ InFlight(fetch[k])
    /\ k = Key /\ k \in stale => InFlight(fetch[k])

Inductive ==
  /\ Shapes
  /\ OneUpload
  /\ SelectionWasOnScreen
  /\ \A k \in Keys : UpToDate(k)

\* Polling stops: a job that the page shows as running is shown as settled one day,
\* however many polls fail in between.  It does not when the job has no task any more, or
\* the batch no job: a failed poll leaves the job on the page as it was.
PollingSettles ==
  jobs \in {"PENDING", "PROCESSING"} ~> jobs \notin {"PENDING", "PROCESSING"} \/ orphaned \/ deleted

\* Controls are left out only when there is nothing to page through: without them every
\* record that matches the filter is on screen.
HiddenControlsHideNothing ==
  Quiet /\ cache[Key] = {Current(Key)} /\ Shown(Key).total <= PageSize =>
    Cardinality(Shown(Key).items) = Shown(Key).total
=============================================================================
