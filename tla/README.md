# Verification of financial-records-import

TLA+ models of the core of the application, from the reading of an amount to the
page a reviewer works on, the TLC configurations that check them, and
machine-checked proofs of nearly every safety property. Paths are relative to the root of the repository, given as `src/...`.

Contents: [the system](#the-system) · [hard behaviours](#hard-behaviours) ·
[modules](#modules) · [runs](#runs) · [proofs](#proofs) ·
[where code and documentation disagree](#where-code-and-documentation-disagree) ·
[not modelled](#not-modelled) · [plan](#plan)

## The system

A person uploads CSV files and PDF documents into a *batch*; each line, or each
record a language model extracts, becomes a *record*. A record carries the
errors validation found and a status: `NEEDS_REVIEW` (errors), `VALID` (none),
`VALIDATED` (a person approved it). The person corrects, revalidates, approves,
and deletes batches. A FastAPI server serves a React client from PostgreSQL
(READ COMMITTED) and a directory of uploaded files.

| Component | State | Operations | What makes it correct |
|---|---|---|---|
| Verdict pipeline (`domain/`, `services/ingestion.py`, `providers/schema.py`) | none: pure functions of `raw_payload`, the extraction's scores and the references of earlier records | normalise, validate, derive the status, account for a review | import and correction give the same verdict; the first of two duplicates is the clean one; a score below the threshold blocks until its field is reviewed |
| Record service (`services/records.py`, `api/records.py`) | `financial_record`, the row lock on `import_batch`, one ORM session per request | correct, correct in bulk, revalidate, approve | requests on one batch appear to run one at a time; nothing approved carries errors; positions are gapless; bulk corrections are atomic |
| CSV import (`services/csv_import.py`) | one transaction | import | all of the file or nothing, under the batch lock |
| PDF extraction (`services/pdf_extraction.py`) | `extraction_job`, spooled files, a semaphore, Starlette's background tasks | upload, run, fail | records and job outcome agree; every job settles; permits and temporary files are not lost |
| Source documents (`services/documents.py`) | `source_document` rows, files on disk | refuse a duplicate, store, open, collect and unlink | a row always has its file; uploading again needs consent |
| Sessions (`services/auth.py`) | `refresh_token` | sign in, rotate, detect reuse, sign out | one successor per token; reuse ends the sessions |
| Browser session client (`frontend/src/lib`, `stores`, `useSessionRestore`) | the refresh cookie, the access token of each page, the refresh in flight | refresh, restore, sign in, sign out | one page never takes its own rotation for theft; a page that boots comes to a decision |
| Batch API (`api/batches.py`, `services/summary.py`) | none of its own | create, list, page, summarise, delete | pages and summary describe the same records |
| Provider chain (`providers/fallback.py`, `registry.py`) | none between calls | try, retry, fall back | the bound and order of attempts |
| Frontend data layer and pages | the query cache | poll jobs, invalidate, edit | what is shown is eventually what is stored |
| Provider adapters (`gemini.py`, `openai.py`) | a client | translate what the service did | a failure that cannot get better is not called transient |
| Tenants and access control, configuration, migrations | | | left out, see [not modelled](#not-modelled) |

They interact through four things:

* the **batch row**: `lock_batch` (`SELECT ... FOR UPDATE`) serialises imports,
  extractions, corrections and approvals of one batch; inserting a row that
  refers to the batch takes a `KEY SHARE`; deletion takes neither, and waits for
  both when its `DELETE` reaches the row;
* the **event loop**: upload handlers are coroutines that call the database
  synchronously, all other routes are threads that need the loop to begin and,
  when they raise, once more before their session is closed;
* **background tasks**: an upload that answered hands its jobs to tasks that run
  in turn, one thread per upload, past a semaphore shared by all;
* the **refresh cookie**, which all tabs of a browser share.

## Hard behaviours

`PROJECT.json` lists each hazard at its line with the properties that guard it.
In groups:

* *Check, then act.* An approval reads a status the route loaded before the
  lock; a correction merges into a payload loaded before the lock; a duplicate
  is looked for before anything is locked; a sign-out reads a token and then
  writes it; a deletion collects paths and then deletes rows.
* *Numbering.* `MAX(import_sequence) + 1` is read, and used after further
  statements.
* *Stale verdicts.* A record's verdict depends on its siblings, and a correction
  revalidates the corrected record only.
* *Two stores.* A row and a file, a job row and a file: no transaction covers
  both, and a crash may fall between them.
* *Vanishing rows.* A deletion cascades to jobs and records that threads work on.
* *Locks held too long.* A refused request keeps the batch until its session is
  closed, which takes the event loop, which an upload may keep while it waits for
  that batch.
* *Inferred meaning.* Which of `.` and `,` is decimal follows from position alone;
  a confidence is rounded in two places and two ways; a form error must silence
  some rules and no others.
* *Retries.* Two kinds of failure, two loops, and adapters that decide which is
  which.
* *Caches.* Several pages of one list, marked stale as a whole and fetched one at a
  time; a list that shrinks under an open page; polling driven by its own result.
* *Answers that get lost.* A rotation that succeeded on the server and was never
  heard of looks like theft at the next refresh.

## Modules

| Module | Models | Use |
|---|---|---|
| `Verdicts` | the pure part of import and correction | extended by `Records` and `Review` |
| `Records` | the requests on the records of one batch, statement by statement | |
| `Review` | what those requests promise: each is one atomic step | instantiated by `Records` |
| `RecordsProofs`, `ReviewProofs` | theorems about `Records`; its refinement of `Review` and what follows from it | extend `Records`, `RecordsProofs` |
| `Extraction` | uploads, jobs, tasks, permits and spooled files of one batch | |
| `Documents` | rows and files of uploaded documents, the loop and the locks | |
| `Sessions` | refresh tokens on the server, tabs and cookie in the browser | |
| `Amounts` | reading amounts and confidences, pure | extended by `Rules` |
| `Rules` | normalization and the rules of validation, field by field, pure | extended by `Intake` |
| `Providers` | the provider chain and its adapters, one extraction | extended by `Intake` |
| `Intake` | one record from its source to its errors, and its corrections | instantiates `Verdicts` |
| `Screen` | the batch page, its query cache, and the routes it calls | |
| `ExtractionProofs`, `DocumentsProofs`, `SessionsProofs`, `ScreenProofs` | theorems about the module of that name | extend it |
| `RulesProofs` | what the rules say of any record | extends `Rules` |
| `IntakeProofs` | theorems about `Providers` and `Intake` | extends `Intake`, `RulesProofs` |
| `MCRecords`, `MCExtraction`, `MCDocuments`, `MCSessions`, `MCIntake`, `MCScreen` | small instances for TLC | |

The first four state machines (`Records`, `Extraction`, `Documents`, `Sessions`) share the batch and its lock but not their variables.
Each keeps of the others what it can feel: `Extraction` and `Documents` have the
deletion of the batch, `Documents` has a *review* that holds the batch lock, and
`Records` treats the persistence of an extraction as an import.

### Verdicts

The fifteen business fields become two. `reference` is kept because its verdict
is the only one that depends on other records; `detail` stands for any other
required field and is `sound` or `flawed`. Confidence is `high`, `low` or a `tie`
against the threshold, and a CSV line may have none. A tie lies half a hundredth
below the threshold: `Quantized`, the rounding of every validation, takes it for high,
and `Formatted`, the rounding of a review's new aggregate, for low. An import
stores the aggregate with all its digits, so a tie is no doubt until another
field is reviewed, and then is one until its own field is. `Validate` applies every
rule (`validate_record`), `ReferencesBefore` compares by arrival position
(`references_before`), `NewRows` numbers the lines of one import and lets each
see the references of those before it (`persist_records`), and `Correct` merges
the change, accounts for the human review with its three early returns and
replays the verdict (`correct_in_transaction`).

### Records

State: the batch, its committed rows, the lock's holder, and for each worker
thread the request it serves, the rows its session loaded and the rows it is
about to write. A step is one statement; what is computed in memory belongs to
the step whose result it uses.

| Action | Code |
|---|---|
| `OpenRecord`, `OpenBulk`, `OpenImport`, `OpenDelete` | the route: loads the record, or only the batch |
| `LockBatch` | `lock_batch`; a batch that is gone locks nothing |
| `Refresh` | `session.refresh`, the bulk route's `SELECT`; a record that is gone ends the request |
| `Rework` | `references_before` and `revalidate` for correct, bulk, revalidate |
| `Approve` | `approve_record`: refused unless `VALID`, checked on the refreshed row |
| `ReadSequence`, `BuildRows` | the two reads of `persist_records` |
| `CommitUpdate`, `CommitImport` | flush and commit; an `UPDATE` names changed columns only |
| `Close` | `session.close()`: every refusal and every failure, a deadlock victim included |
| `DeleteRecords`, `DeleteBatch` | `delete_batch`: the record rows, then the batch row |

`Review` has the same table and four actions, `Import`, `CorrectAll`,
`ApproveOne`, `DeleteAll`, each atomic. `Records!ReviewSpec` is `Review`'s
specification under the identity mapping of `batch` and `records`, so to check or
prove it says that the lock makes every request appear to run alone.

### Extraction

State: the job rows, the records each job produced, spooled files, the queue of
tasks of each upload, the free permits, and what the tasks share with other
requests: the event loop and the batch's row lock. A task is a chain of
statements from `Acquire` to `Return` or `Raise`; each statement has its
outcomes: success, the row has cascaded away, or the database fails (`Fault`,
bounded). `LockBatch` waits for whoever holds the batch, with the permit in hand,
and keeps it to the end of the transaction (`PersistRecords`, or the rollback of
`Fail`). `Raise` drops the remaining tasks of the same upload, as Starlette does.

A handler is `Enter`, `CreateJobs`, `QueueTasks`, without an await between them; one
whose file could not be written keeps its `KEY SHARE` until `Close`. Other requests
are what they do to the lock and the loop: `RefuseReview` and `CloseReview` a refused
correction or approval, whose session the loop has to close; `BeginImport` and
`EndImport` a CSV upload, which keeps the loop while it waits for the lock.
`DeleteBatch` waits for the lock too; `Crash` may come at any moment.

### Documents

State: batch rows, document rows, files, the request that keeps the event loop,
`FOR UPDATE` and `KEY SHARE` holders. An upload brings a list of files, one for a
CSV; a document is a request and a place in its list. `RefuseDuplicate` compares
the whole list with what is stored, before any of it is; `InsertRow` and
`WriteFile` then go through it, and `Commit` makes all its rows visible. A CSV
upload takes the batch lock before it stores, a PDF upload stores without it. A
statement that fails ends its transaction at once; a request refused otherwise (a
file that cannot be written, a CSV of another structure, a record in the wrong
state) keeps its locks until `Close`, for which the loop must be free. `Crash`
keeps what was committed and what is on disk.

### Sessions

State: the token rows in insertion order with parent, revocation and expiry, the
requests under way with the cookie each was sent with, the cookie, and what each
tab shows. `Claim` is the conditional `UPDATE` of `rotate_session`, which waits
for a row another transaction has claimed; `Issue` commits claim and successor;
`BeginRevokeAll` and `RevokeAll` are the one statement that revokes every
session, split because it sees what was committed when it began. Answers come
back in any order (`Renewed`, `Expired`, `SignedOut`), get lost (`Lose`), or
reach a page that is gone (`Dropped`).

### Amounts, Rules, Providers, Intake

`Intake` is the other half of `Records`: one record, no interleaving, every field.

`Amounts` keeps of a text what `normalize_amount` looks at: a minus, groups of
digits and the separators between them. `DecimalMarks` is rules 2 and 3 of its
docstring, `NormalizeAmount` the regular expression, the scale and the range.
Values are integers in cents; `IntegerDigits` stands for the 16 digits of
`MAX_AMOUNT`. `QuantizedScore` and `FormattedScore` are the two roundings of a
confidence, half up on the decimal and `"%.2f"` on the binary number: `TiesDown`
are the thousandths the latter rounds down. `Written` is the reference: how a
person writes an amount, with no knowledge of the rules that read it, and
`Writes` says which amounts and numbers of decimals there are to write.

`Rules` has one operator per rule of `validation.py` (the two rules on single
amounts, the four on codes and the two on confidence are one each). A cell that is
not an amount is its class: absent, sound, respelled (another case, spaces or
hyphens), a word for absent, unknown, too long, taken. `DetailSound` is the data
dictionary as a person would apply it: the rules are compared with it.

`Providers` is the loop of `FallbackProvider.extract` over the chain that
`build_provider` makes of the configuration: `Retry`, `FallThrough` and `GiveUp`
are its ways on after a failure, `Translate` the classification by the adapters. A
provider that stands alone is not wrapped and gets one attempt.

`Intake` composes them. `Init` chooses a CSV row, already normalized and validated,
or a configured chain; `Extracted` is `persist_records` on what the chain
answered, past the boundary that turns words for absent into nothing and clamps
scores; `Correct` is `correct_in_transaction`, with any of the sets of fields in
`Changes`. `RefinesVerdicts` is the link to `Records`: the errors of fifteen fields,
mapped to `reference`, `detail` and `confidence`, are the errors `Verdicts!Validate`
computes for the mapped record, and its confidence is mapped with both roundings
(`Level`, `AbstractConfidence`).

### Screen

State: on the server the statuses of the records in import order, one job, whether
that job still has a task and whether the batch still exists; in the browser the filter, the offset, the ticks, and for each filter and offset the
cached page, its request, and whether an invalidation marked it.

| Action | Code |
|---|---|
| `CountRecords`, `ListRecords` | the two statements of `list_records` |
| `ListJobs`, `Correct`, `AcceptUpload` | `list_jobs`, `correct_records`, `upload_pdfs` |
| `Start`, `Settle` | the status writes of an extraction |
| `WriteElsewhere`, `DeleteElsewhere` | another reviewer |
| `RefuseNotFound` | `_get_batch`: the 404 for whatever is asked of a deleted batch |
| `Orphan` | a restart, a hang or a failed statement leaves the job without a task |
| `ChangeFilters`, `ChangePage`, `Toggle`, `SelectAllOnThisPage`, `Apply`, `SendUpload` | the handlers of the page |
| `ReceiveRecords`, `LoseRecords`, `ReceiveJobs`, `LosePoll`, `Poll` | answers, failures and the interval of the two queries, with the effect of `useJobs` |
| `Corrected`, `Uploaded`, `LoseCorrection` | the mutations' `onSuccess`, or their failure |

The query library is external and modelled by what the page relies on
(`InvalidateRecords`, `Refetched`, `Open`): an invalidation marks every page and
refetches the one on screen; a refetch drops the answer under way unless there is
no data yet; a poll that fails, lost or refused, leaves the jobs on the page as they
were, and with them the interval; a page that is opened is fetched if it is marked
and may be if it is only old (`staleTime`); the previous page stands in while the first answer is
under way (`OnScreen`).

## Runs

| Run | Instance | Distinct states | Shows |
|---|---|---|---|
| `records` | 2 threads, 2 references, at most 2 records, corrections of both fields | 199,977 | `ApprovedIsClean`, `ArrivalOrder`, `SessionIsCurrent`, `VerdictExactWhenWritten`, `BulkIsAtomic`, and the refinement `ReviewSpec` |
| `records_bulk` | 2 threads, PDF and CSV lines, at most 3 records, no correction of a reference | 1,313,016 | `VerdictsCurrent`, `FirstOccurrenceWins`, `DoubtStandsUntilReviewed` |
| `records_reference` | as `records` | violation | correcting a reference leaves later verdicts stale |
| `extraction` | 3 uploads (2, 1 and 1 files), 2 permits, one upload that fails | 125,403 | jobs and records agree, permits, jobs and spooled files are accounted for, jobs settle, waiters are admitted |
| `extraction_raises` | the same without faults | violation | a deletion makes a task raise |
| `documents` | 3 requests, each any of 9 orders (one file, two, the same twice), 1 batch, 1 fault | 398,956 | rows have files, uploading again needs consent, requests end |
| `documents_leak` | the same without faults | violation | a deletion leaves a file |
| `sessions` | 2 tabs, 2 concurrent requests, 2 tokens, 1 mishap | 210,134 | one successor, no self-inflicted reuse, reuse and sign-out revoke, restore completes |
| `sessions_revoke_all` | 2 tabs, 3 requests, 3 tokens | violation | a token survives the revocation of all |
| `intake` | 4,711 rows and texts, 77 answers, chains of 1 or 2 providers with 2 attempts, 1 correction of one, two or four fields | 201,735 | `ReadAsWritten`, `RefinesVerdicts`, `NoSecondHandErrors`, `NoDeadEnd`, `DoubtBlocks`, `AttemptsWellSpent`, `CorrectionIsLocal` |
| `screen` | 2 records and an upload of 1 more, pages of 1, 2 filters, 3 events and any number of failed polls | 1,555,738 | `SelectionWasOnScreen`, `QuietPageIsCurrent`, `PollingSettles` |
| `screen_stuck` | 2 records, pages of 1, 3 events | violation | a page left empty and without controls |

**Bounds.** Every property speaks of at most two records, two requests or two
tokens and a third party between them. Two threads give every pair of requests
every interleaving; the lock admits one at a time, so a third thread only waits
(and the theorems cover any number). Two records are enough for an order and a
duplicate, three for an extraction followed by a CSV. Two references are the one
taken and the one free. Three uploads over two permits let one wait while two
hold, and the two-file upload shows what one task does to the next. Three
requests let a deletion fall between an upload and whoever holds the batch; two
contents make a list that repeats one file of an earlier upload, or itself. Two
tokens are a token and its successor. `MaxRecords`, `MaxFaults`, `MaxTokens`,
`MaxMishaps` and `Slots` are guards of the actions they bound; none of them cuts
a request that has begun except in `BuildRows`, whose request can still `Close`.

In `intake` a text has at most three groups and every order of separators, which
is enough for one separator, two of a kind, two kinds and a repeated decimal one;
four digits before the point allow one group of thousands and, with one more, the
range error. Pairs of flaws meet every rule with every other. Scores lie on both
sides of the threshold, on its tie and outside [0, 1]. Corrections name each field
alone, the reference with a detail, two amounts, and the four amounts together.
In `screen` pages hold one
record, so two records make two pages and three make a middle one; `MaxEvents`
counts what people and the network do (page or filter changes, corrections, the
upload, foreign writes and the deletion, the loss of a task, failures other than
those of polls), and three are enough to leave a page, change what it shows, and
come back. `MaxCorrections`, `Attempts` and `MaxEvents` bound
the actions named with them.

`SYMMETRY` is used for the threads of `Records` only, whose runs check no
liveness. `CHECK_DEADLOCK FALSE` stands in every configuration because the
systems do come to rest: the batch is deleted, the process has died, a bound is
reached, all requests are done.

**Fairness.** `Records` and `Intake` have none: their properties are safety.

In `Extraction` a handler, a task and whoever has to release the lock or the loop
are each *strongly* fair: a step that waits for the row lock, the event loop or a
permit can be taken again and again but not always. PostgreSQL queues the waiters
of a row, and the event loop runs its callbacks in order, so nobody is passed over
for ever. It is one condition for all handlers and one for all tasks: that some of
them moves is enough, because they are finitely many and have finitely many steps.
No order among those who wait for a permit is assumed. In `Documents` a request
that was received is weakly fair: each takes a lock once, so finitely many others
cannot keep it from one without end. In `Sessions` each request that was sent is, and a tab that boots
sends its restoring refresh (`useSessionRestore` does so in an effect).

In `Screen` the interval fires while a job is shown as running, an answer that
arrived is delivered, and a task that was not lost ends, which is what
`WaitersAreAdmitted` and `EveryJobSettles` show of `Extraction`. Polls may fail any
number of times; only not every one of infinitely many does (strong fairness of
`ListJobs`, a lossy link). Nothing in `useJobs` gives up before.

Nobody has to upload, import, review, delete, sign in, reload, restart or crash.

Liveness is conditional where the code is:

* a job settles *unless* its batch is deleted, the process dies, a statement of
  its own upload fails, or the server hangs; a waiter is admitted unless it hangs;
* *the server hangs* (`Hung` in `Extraction` and `Documents`) when a refused request
  holds the batch that the handler on the event loop waits for: the session can be
  closed only by the loop. A task then waits in `LockBatch` for good, its permit
  with it. A request ends unless this has happened, and there is no other way;
* polling ends *unless* the batch is deleted under the page or the job's task is
  lost: then it does not, see [below](#where-code-and-documentation-disagree).

## Proofs

Every safety property and every action property of the passing runs is a theorem:
what a run shows of a small instance holds for any number of threads, uploads,
tasks, tabs, tokens, rows and records, any page size, threshold or bound, any
text of an amount and any width of its column. Each state machine has an inductive invariant,
`Inductive` in its module, which TLC checked on the run's instance before it was
proved; a proofs module has one lemma per action, with a step per conjunct the
action can disturb.

| Module | Theorem | States |
|---|---|---|
| `RecordsProofs` | `TypeCorrect`, `ApprovedRecordsAreClean`, `ArrivalPositionsAreExact`, `SessionsAreCurrent` | `TypeOK`, `ApprovedIsClean`, `ArrivalOrder`, `SessionIsCurrent` |
| `ReviewProofs` | `RecordsImplementReview` | the refinement `Spec => ReviewSpec` |
| | `VerdictsAreExactWhenWritten`, `BulkCorrectionsAreAtomic` | `VerdictExactWhenWritten`, `BulkIsAtomic` (action properties) |
| | `DoubtStands` | `DoubtStandsUntilReviewed` |
| | `StoredVerdictsAreCurrent`, `FirstOccurrenceIsTheOnlyOne` | `VerdictsCurrent`, `FirstOccurrenceWins`, if no correction names a reference |
| `ExtractionProofs` | `TypeCorrect`, `JobsAgreeWithRecords`, `PermitsAreAccounted`, `JobsAreOwned`, `SpooledFilesAreOwned` | `TypeOK`, `JobsAndRecordsAgree`, `PermitsAccounted`, `NoJobAbandoned`, `NoSpoolAbandoned` |
| `DocumentsProofs` | `TypeCorrect`, `StoredDocumentsCanBeOpened`, `ReuploadsAreForced` | `TypeOK`, `RowsHaveFiles`, `NoReuploadUnlessForced` |
| `SessionsProofs` | `TypeCorrect`, `RotationIsUnique`, `RotationRevokes`, `SignOutIsEffective`, `NoFalseAlarm` | `TypeOK`, `OneSuccessor`, `ReplacedIsRevoked`, `SignOutRevokes`, `NoSelfInflictedReuse` |
| | `ReuseIsAnswered` | `ReuseEndsSessions` (action property) |
| `ScreenProofs` | `TypeCorrect`, `SelectionIsOfThisScreen`, `QuietPagesAreCurrent` | `TypeOK`, `SelectionWasOnScreen`, `QuietPageIsCurrent` |
| `RulesProofs` | `AmountReading`, `RulesAreTheDictionary` | what a reading is, and which records the rules accept, for any cells |
| | `ReadingOfWriting` | an amount written in any of the usual ways is read as that amount |
| | `AmountsFitTheColumn` | whatever the text, a value that is read fits `NUMERIC(18, 2)` |
| `IntakeProofs` | `TypeCorrect`, `EveryAttemptIsWellSpent`, `NoSecondHand`, `DoubtIsExact`, `NothingIsADeadEnd`, `VerdictsAreAbstracted` | `TypeOK`, `AttemptsWellSpent`, `NoSecondHandErrors`, `DoubtBlocks`, `NoDeadEnd`, `RefinesVerdicts` |
| | `AmountsAreReadAsWritten` | `ReadAsWritten` |
| | `CorrectionsAreLocal` | `CorrectionIsLocal` (action property) |

**Assumptions.** All are named, in the module that declares the constant, and TLC
evaluates each on the runs of that module: `Nobody` is no worker, request or
tab; uploads are sequences of lines, orders and corrections are well formed (a CSV
upload brings one file, a PDF upload at least one);
`"none"` and `"unset"` are not references; bounds are natural numbers, `Limit`,
`Attempts` and `PageSize` at least 1; no job belongs to two uploads, and the
jobs are finitely many (`JobsAssumption`: permits are counted). Of `Intake`:
cells are what `Rules` says a record holds, a CSV's own confidence is read as
`normalize_confidence` may read it, scores are whole thousandths, the cells
that stand for a sound record make one, and where the model knows what a row's
author meant, the cell is a writing of that amount (`IntakeAssumption`); the
column has at least one digit before the point, and the thousandths that
`"%.2f"` rounds down end in 5 (`AmountsAssumption`).

### Records and Review

`ApprovedIsClean` and `ArrivalOrder` are not inductive: whether a commit keeps
the table clean depends on what the session holds, and whether that is still
true depends on who else could have written. `Inductive` adds

1. `LockDiscipline`: whoever is past `lock_batch` holds the row, as long as there
   is one. It is what excludes two writers;
2. `TargetsExist` and `SessionIsCurrent`: from the refresh to the commit, what
   the session holds is what the table holds. `Refresh` establishes it, and by 1
   no one else can break it;
3. `DraftIsSound`: what is about to be written is clean and keeps the position,
   and an import continues where the table ends;
4. `GoneIsEmpty`: without a batch there are no records. A deletion takes no
   `lock_batch`; it waits for the holder and thereby falls outside every window
   that 1-3 protect, or finds those requests unable to write.

The refinement needs more: that a draft is not only sound but *the* outcome of
its request on the table as it is now (`DraftIsOutcome`), computed several steps
earlier. `Outcomes` says so, with `Normal` for the columns that repeat the
payload. Then a commit is `Review`'s atomic step on the current table, every
other step a stutter, and the verdict written is exact.

`VerdictsCurrent` is false in general, and the run `records_reference` has the
counterexample; the two theorems state the hypothesis under which it holds,
`\A change \in Edits : change.reference = Unset`, which is what the run
`records_bulk` instantiates. It is a hypothesis of those theorems only and no
assumption of the model.

### Extraction

`JobsAndRecordsAgree` and `PermitsAccounted` say what a crash or a deletion may
leave behind; what makes them inductive is where a task can be. `TasksInOrder`:
only the first task of an answered upload runs, and no file is queued twice.
`RowsFollowTasks`: what a job's row may say follows from its task's place, and it
is absent only before its upload committed or after the batch was deleted.
`NothingStrays` and `RaisingHasCause` exclude rows, files and raising tasks
without an origin. A failed statement is held against its own upload (`faulty`), so
`NoJobAbandoned` and `NoSpoolAbandoned` say that it costs no other upload a job or a
file. Permits are counted with the cardinality of the set of tasks
that hold one.

### Documents

No lock covers the check for a duplicate; the event loop does. `LoopIsKept` says
that an upload between two awaits keeps the loop, `CheckIsCurrent` that what
`refuse_duplicate` saw of every file of the list is then still so at the commit.
`NoReuploadUnlessForced` follows for the documents of different requests, and only
for these: nothing compares the files of one list with each other.
`RowsHaveFiles` needs the order of the two stores on both ways: `FilesComeFirst` for
the upload, which has written as many files of its list as `written` counts, and
`PathsAreDeleted` for the deletion, which removes a file only after its row
(`RowsAreCommitted`: what it collected is of uploads that are over).

### Sessions

`NoSelfInflictedReuse` depends on what is in flight: `AnswerBringsToken` says a
fresh token travels in exactly one answer and nobody has it before, and, as long
as nothing was lost (`mishaps = 0`), `OneRefreshEach` and `SuccessorIsTheAnswer`
that a page has one refresh per token and that the cookie it will be sent with
next is in the answer to it. Sign-outs interleave with rotations, hence
`OrphanHasNoCookie`.

### Screen

`UpToDate` is the argument of the cache: a key is current, or marked, or being
fetched, unless an invalidation is still to come (`Awaited`), the page could
not have been told (`excused`), or the batch is gone. It is stated for every key, not only the one on
screen, because any of them can be opened next. The page a query answers with is
the set of the filtered rows whose `Place` lies in the slice.

### Rules and Intake

`FieldErrors` takes the union of the rules apart field by field: an error of a
field is what `Says` says of it, and that depends on its own cell only, or for
`net_amount` on the amounts (`FieldsAreLocal`). It yields the locality of
corrections, the absence of second-hand errors, and `RulesAreTheDictionary`: the
rules find a record without a flaw exactly if the data dictionary, written down
independently in `DetailSound`, accepts it. `VerdictsAreAbstracted` follows; it
is the licence for the two fields of `Verdicts`.

`Inductive` of `Intake` says that the errors are always the verdict on the cells
and the confidence as they are now (`Held`), whichever way they came about; the
confidence is the rounding of the least score that the import (`corrections = 0`)
or a review writes. For the chain, `ChainInductive` keeps that the providers
before the current one are spent and that the current one's failures are the last
`attempt - 1`.

An amount is read by folds over digits, so a fact about every text needs
induction over data. The library's induction theorems take an operator, which
cannot be instantiated here; `Induction` in `RulesProofs` states the principle as
a *set* of naturals closed under successor and derives it from
`NatLessThanWellFounded` and `WFMin`. What the proofs say of digits rests on it.

`ReadingOfWriting` goes the way of an amount there and back:

1. *Digits.* `DigitsOf(n, k)` has `k` digits, the first not 0 if `k` is the width of
   `n` and more than 1, and `Number` puts `n` together again (induction on `k`).
   `Grouped` cuts the digits into threes with one to three in front and loses
   none: flattened, they are the digits it was given.
2. *Layout.* `LaidOut` is what is left of `Written` once the numbers are gone: a
   group or several before the point, the decimals after it, one kind of
   separator between groups and another as the point.
3. *The mark.* For a text laid out so, `DecimalMarks` is the point and nothing
   else, by the four ways the text may be: no separator but spaces; only the
   point; the grouping mark alone, once or more; both. The two that a reader could
   take for each other are decided by the three digits that follow a grouping
   mark and the at most two that follow a point: that is why more decimals than
   `Scale` are not among the usual ways.
4. *The value.* The digits before and after the mark, padded to the scale, make
   the cents that were written, and they pass the check of the range.

`AmountsAreReadAsWritten` needs an invariant of its own, `MeantIsWritten`: what a
row's author meant is known of CSV rows only, and the cell is a writing of it until
a correction replaces it. `AmountsFitTheColumn` is the other direction, for texts
nobody would write: at most `IntegerDigits` significant digits before the point
and `Scale` after it bound the cents (`NumberIsBounded`), so a stored amount is
neither refused by the column nor rounded by it.

### What the proofs changed in the models

* `BuildProvider` and `NormalizeAmount` were written as `CASE` with overlapping
  arms, as the code's early returns suggest. The value of such a `CASE` is
  unspecified; TLC takes the first arm and never objects. They are nested `IF`s.
* `NoDeadEnd` let a reviewer correct an amount the model was unsure of without the
  other amounts. That is false for some sound cells: the one amount replaced need
  not add up with the others. Whoever touches one amount now looks at all
  (`WithAmounts`).
* The pages of `Screen` are sets with a rank (`Place`) where they were sequences
  cut out with `SelectSeq` and `SubSeq`; nothing tells them apart, and the sets
  can be reasoned about.
* Powers of ten in `Amounts` are a recursive function, `Tens`: `10^k` has no
  definition the provers could use. The space and the absent grouping mark have
  names, `Space` and `Ungrouped`, because the SMT translation rejects a string
  that is empty or blank.
* `IntakeAssumption` did not say that what an author meant is what the cell says,
  so `ReadAsWritten` held of the run's rows by their choice. `Writes` says it, for
  any row.

### Only model-checked

* Liveness: `EveryJobSettles`, `WaitersAreAdmitted`, `RequestsEnd`,
  `RestoreCompletes`, `PollingSettles`. Liveness under fairness and `ENABLED` are
  out of the prover's reach.

## Where code and documentation disagree

Each has a run whose counterexample shows it.

* **A later duplicate stays `VALID`.** Only the corrected record is revalidated,
  so giving an earlier record a later one's reference leaves both without errors
  until the later one is touched. Repository README, section 4: "only the second
  is flagged -- and stays that way when revalidated".
* **A background task can raise.** `run_extraction` says it "must never raise". A
  batch deleted under a running task takes its job row along; writing the status
  then raises outside the `try`, or inside `_fail`, and the upload's remaining
  tasks are dropped with it. Their rows are gone by then, their spooled files
  are not.
* **A deletion can leave a file.** `delete_batch` collects paths before it deletes
  and locks nothing in between.
* **A token survives reuse detection.** A rotation that commits while the revoking
  `UPDATE` runs keeps its new token.
* **A reviewer gets stuck on an empty page.** `Pagination` draws nothing when the
  total fits one page, whatever the offset. Correcting the only record of the last
  filtered page, or pressing Next before the answer to a new filter has come,
  leaves an empty table, "1 record" beside the filter, and no way back but
  changing the filter.

Seen while reading, without a run of their own: `next_import_sequence` describes
as a limitation (`services/records.py:82-91`) a race that the lock now excludes;
"nothing un-approves a record" (`api/batches.py:160`) is no longer so, since a
revalidation or correction recomputes the status of a `VALIDATED` record; a
refused CSV leaves its stored file on disk, the file being written before the
structure is checked; `if job is None` in `_fail` is not reached by a row that
cascaded away; a job that was running when the process died stays `PROCESSING`,
not `PENDING`; a refresh in flight at sign-out may set a live cookie afterwards
(`Dropped` after `SignedOut` in the model).

Further, without a run:

* *Batches contend after all.* `lock_batch` says two never do (`records.py:69`); a
  CSV upload waits for its batch on the event loop, and uploads into other batches
  wait with it (`Documents`, `loop`).
* *A lost answer ends a session.* When the answer to a refresh is lost after the
  rotation, the next refresh looks like theft and signs the page out (`Lose` in
  `Sessions`), although "a connection error ... must not end" a session
  (`apiClient.ts:45`).
* *Two roundings.* A least score of 0.695 is 0.70 at import and 0.69 after the
  correction of another field, so that correction adds `LOW_CONFIDENCE`
  (`DoubtBlocks` and, across interleaved requests, `DoubtStandsUntilReviewed` state
  the line exactly; `NoDeadEnd` excepts the tie).
* *The same file twice in one list.* `upload_pdfs` checks every file before it
  stores any, so two byte-identical files of one unforced upload both enter the
  batch. `refuse_duplicate` means to "stop a byte-identical document being imported
  into the same batch twice" (`services/documents.py:99`). The list `<<c1, c1>>` of
  `MCDocuments` does it.
* *Jobs without a task.* "One transaction for every job, so a failure part-way
  cannot leave a job persisted as PENDING with no task ever queued for it"
  (`api/batches.py:306`): the jobs are refreshed after that transaction, and a
  statement that fails there leaves all of them `PENDING` and their spooled files on
  disk (`QueueTasks`; excepted in `NoJobAbandoned` and `NoSpoolAbandoned`).
* *A task can wait for good.* It takes the batch's lock with its permit in hand; in a
  server that hangs it keeps both (`Hung`), and its job stays `PROCESSING`.
* *Polling without end.* The interval is decided by the jobs polled last. When
  another reviewer deletes the batch, every poll is a 404 and the cached job stays
  as it was; when a restart has lost the task, every poll repeats `PENDING` or
  `PROCESSING` (section 8 of the repository README names the loss, not the polling).
  "Polls only while something is actually running" (`useApi.ts:134`) is not so then.
  Without `orphaned` or without `deleted`, `PollingSettles` fails.
* *A CSV's stray confidence.* `check_confidence` ignores the column of a CSV, but
  `normalize_record` reads it whatever the source: text that is no number is a
  `NOT_NUMERIC` on a field no correction may name, and the record can never become
  `VALID` (the first exception of `NoDeadEnd`).
* *A single provider is not retried*: only a chain of two is wrapped in
  `FallbackProvider`. The same misfit of a payload is permanent for Gemini, whose
  text we parse, and transient for OpenAI, whose SDK raises.
* *A table that stays old.* An extraction that ends before any poll saw it running
  leaves the records as they were; so does an invalidation that falls into the
  first load of a page, which absorbs it; so does a correction whose answer was
  lost. These are the cases `excused` names in `Screen`; leaving any of them out of
  it makes `QuietPageIsCurrent` fail.
* *Ticks.* A tick survives a refetch that takes its row off the page, and a
  correction that succeeds clears the ticks made while it was under way.
* *Importing again.* The upload panel's "Import it again" sends all pending files
  with `force`, those already imported included (`UploadPanel.tsx:88`).
* `raw_payload` is described as the record "as extracted"; corrections are merged
  into it.

## Not modelled

* **The remote calls** of the provider adapters and their usage counts: pure I/O.
  `Extraction!Extract` takes the outcome of a call as a choice, `Providers` shows
  which outcomes there are.
* **Tenants and access control**: a filter on every query and cryptographic
  primitives, without state.
* **Reading text**: the decoding of a CSV file into rows, the spelling of dates,
  codes and countries (classes of cells in `Rules`), digits other than ASCII and
  scores in exponent notation.
* **Pages other than a batch's**: the record editor, the upload panel, the list of
  batches, the sign-in form; the summary, which is invalidated with the records
  and computed from them.
* **Configuration, logging, migrations, seed data, presentation**.
* Of what is modelled: registration and access tokens, several users, several
  server processes (the semaphore and the event loop are per process), the size of
  the thread pool, the failure of an `unlink`, leaving and reopening a batch's
  page, the removal of old entries from the query cache, the filter on the source.

## Plan

Done: the six state machines and their runs; every invariant and action property
of the passing runs as a theorem.

Next: **composition** of `Records` with the lock's `KEY SHARE` and the event loop
of `Documents`, if the state space allows.
