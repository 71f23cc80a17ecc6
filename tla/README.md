# FileBridge API in TLA+

FileBridge takes CSV and XLSX files, turns each file (or each sheet of a
workbook) into a *dataset* with columns and rows, and serves those to their
owner, to holders of an API key, or to everybody. This directory holds TLA+
specifications of it, configurations that model-check them with TLC, and
theorems about them that TLAPS proves. Paths below are relative to
`src/apps/datasets/` unless they start with `src/` or name a repository file.

## 1. Inventory

| Part | State it keeps | Operations | What makes it correct |
| --- | --- | --- | --- |
| Dataset life cycle (`views.py`, `tasks.py`, `services/ingestion.py`, `services/webhooks.py`, `models.py`) | row of the dataset (status, counts, visibility), its columns and rows, its source file, the Celery queue | upload, retry, visibility, destroy, deletion in the administration site, `ingest_dataset_file`, webhook | counts and rows belong together; nothing outlives a dataset; ready is final; pending is queued and is settled |
| Transactions of `_ingest_rows` and of a deletion | rows and locks inside PostgreSQL | delete, `bulk_create`, save, commit | all or nothing, whoever else is at it |
| Column names (`normalize_column_name`) | `seen`, shared over a header | one call per cell | distinct names, the loop ends |
| Upload request (`views.py`, `serializers.py`) | the rows and files of one batch | choice of sheets, names, sheet cap, unique `(owner, name)` | all sheets or none; every file without a row, and every row without its file, is accounted for |
| Readers: schema, rows, export, quality (`views.py`, `filters.py`, `services/quality.py`) | none; two queries per request | filters, search, quality counts, CSV | rows that are read are no older than their columns; filters find what the file holds; counts agree with it |
| Access (`permissions.py`, `authentication.py`, `services/api_keys.py`) | API keys | create, list, revoke, authenticate; query set and object permission | the two filters agree; a revoked key serves nothing more; no key outlives its dataset |
| Throttling (`throttling.py`, settings) | history of each bucket in the cache | allow, record | nobody is refused for the requests of others |
| Parsing (`services/ingestion.py`) | none | CSV, workbook, header, cells, preview | only whole files are stored or shown, and only damaged ones are refused |
| Type detection (`services/type_detection.py`) | none | `detect_column_type`, `is_valid_for_type` | detection and quality report agree |
| Webhook URL validation (`services/webhooks.py`) | none; asks the resolver twice | at the upload, before each event | a bad URL is refused before anything is stored |
| Serializers, routes, settings, administration screens | none | | |

How they meet. A web request and a Celery worker share nothing but PostgreSQL,
the file storage and the broker. The request commits the rows of the dataset,
*then* calls `ingest_dataset_file.delay()` (`views.py:214-218`, `256-258`); the
worker loads the row, reads the file, and replaces columns and rows in one
transaction that also makes the dataset ready (`services/ingestion.py:275-308`),
or saves the failure on its own (`311-314`); after either it sends the webhook
from the instance it holds in memory. A deletion removes the file, then the rows
(`views.py:82-87`). `ATOMIC_REQUESTS` is not set: outside of
`transaction.atomic()` every statement commits by itself, and every handler
works on an instance that it loaded some time before it saves. A reader asks for columns and
for rows in separate statements, after authentication, throttles and
`get_object()`, each of which saw the database, or the cache, at another moment.

What is hard, then: two attempts on one dataset (retries, messages delivered
twice), deletions that overlap an attempt at any of its steps, saves of stale
instances, a process that stops between two of these steps, and three stores of
which only one has transactions. `PROJECT.json` lists each hazard at its line.

## 2. Modules

| Module | What it is |
| --- | --- |
| `Ingestion` | the life of datasets across requests, workers, queue and storage |
| `MCIngestion` | symmetry sets; seven configurations |
| `IngestionProofs` | theorems about `Ingestion` |
| `IngestionAtomic`, `MCIngestionAtomic` | `Ingestion` with the fate of each transaction as a history variable; refines `AtomicPublish` |
| `IngestionAtomicProofs` | theorems about `IngestionAtomic` |
| `Upload`, `MCUpload` | one upload request, and others of the same owner; refines `AtomicUpload` |
| `AtomicUpload` | what the rest of the system sees of uploads, as an abstract specification |
| `UploadProofs` | theorems about `Upload` |
| `AtomicPublish` | what `Ingestion` takes for granted of the two transactions, as an abstract specification, and a theorem about it |
| `PublishTxn`, `MCPublishTxn` | those transactions statement by statement; refines `AtomicPublish` |
| `PublishTxnProofs` | theorems about `PublishTxn` |
| `Access`, `MCAccess` | a request for a dataset from authentication to its answer, and what changes meanwhile |
| `AccessProofs` | theorems about `Access` |
| `ColumnNames` | the renaming loop of a header |
| `ColumnNamesProofs` | theorems about `ColumnNames` |
| `TypeDetection` | the type of a column, as operators |
| `Tabulate`, `MCTabulate` | from a file to columns and rows, and what the quality report and row filters make of them; extends `ColumnNames` and `TypeDetection` |
| `TabulateProofs` | theorems about `Tabulate`, which implements `ColumnNames` |

An operator whose comment starts with "Mutant:" is never used by a
specification. It is a definition that follows it, with a bug one could well
make in that code (a forgotten field, a missing guard, no constraint); put in
the place of that definition it must make the property that `PROJECT.json`
names fail. This shows that each property depends on the code it is about.

### Ingestion

Each process has a program counter whose steps are its accesses to what is
shared: `rpc[r]` of a request, `tpc[t]` of an execution of the task.

| Code | Action |
| --- | --- |
| `upload`, its transaction | `Upload` |
| `.delay()` in `upload` and `retry` | `Delay` |
| `get_object()` | `GetObject`, which keeps in `seen` the fields a later save would write |
| `retry`: the check, then the save | `RetryReject`, `RetrySave` |
| `visibility`: `serializer.save()`, all fields | `VisibilitySave` |
| `perform_destroy`: the file; the transaction's deletions; its end | `Unlink`, `DeleteChildren`, `DeleteRow` |
| `DatasetAdmin` | `DeleteChildren`, `DeleteRow` without `Unlink` |
| `ingest_dataset_file`: get, open and parse | `GetDataset`, `ReadFile` |
| `_fail` | `SaveFailure` |
| `_ingest_rows`: the transaction's deletions; its end | `ClearOld`, `Publish` |
| `send_webhook` | `SendHook` |
| a process stops; a message is lost or delivered twice; a file is replaced by hand | `RequestDies`, `TaskDies`, `Redeliver`, `Edit` |

Columns, rows and counts are named by the attempt that wrote them: `stored[d]`
is the attempt whose columns and rows the database holds, `counted[d]` the one
whose `row_count` and `column_count` are in the row. A file is good (it parses),
bad (a `DatasetIngestionError`) or poison (anything else: a name too long for
its column, a NUL character, a reason longer than `failure_reason`, an error of a
reader that `_INVALID_WORKBOOK_ERRORS` does not list), and gone
once deleted, which `tasks.py` does not handle either. Some details that are not
obvious:

- `save(update_fields=...)` of a row that is gone raises; a full `save()`
  inserts it again. This is why `RetrySave`, `SaveFailure` and `Publish` test
  `Live(d)`, and `VisibilitySave` does not.
- Under READ COMMITTED the deletions of a transaction miss the columns and rows
  another one commits later (`Unseen`); inserting next to them violates the
  unique constraints, deleting their dataset violates the foreign keys.
- Celery acknowledges on delivery (its default), so a task whose worker stops is
  gone: `TaskDies` sends nothing back to the queue. `Redeliver` is what a broker
  with a visibility timeout may do.
- A webhook is sent or not (no URL, a blocked address, an error that
  `send_webhook` swallows); `hook[t]` records the event.

`Ops` selects the operations and faults of an instance, so that a property
which one operation breaks is still checked against all others.

### Upload

`Ingestion` has one step for all that an upload does before its first message.
`Upload` takes it apart, for several uploads at a time: `Check` (the form is
valid, its webhook's host resolves and to no internal address, the workbook can
be read, the sheets that are asked for exist and are not too many), then
`SaveFile` and `Insert` for each sheet (`Dataset.objects.create` stores the file
first), `Commit`, and `Delay` for each dataset. A dataset is the pair of its
upload and the position of its sheet. What a host resolves to is chosen anew by
every `Check`. Names are compared, never spelled: `SheetName` is a constant, and
in the instance for TLC it cuts names after two parts, as the code does after
100 characters, so that two sheets may get one name. An `INSERT` waits for the open
transactions that hold its key (`Waits`), and fails if one of them commits, or
if the batch itself repeats a name; then all rows of the batch are rolled back
and the answer is 400. Workbooks may list common sheets in different orders, so
uploads may wait for each other, until PostgreSQL picks a `Victim`. In no case
are the files taken back that were stored so far.

Datasets are deleted at any time after their commit. `perform_destroy` takes two
steps, `Unlink` and `DestroyRow`; it may stop between them, and a request that
found the dataset before another one deleted it may come to `Unlink` after that.
`AdminDelete` is a deletion in the administration site, or of the owner, which
leaves the file. All files of a day go to one directory, whoever uploads them,
under the name they come with unless one of that name is there (`FreePaths`): so
a name in the storage is free again after `Unlink`, and may then be that of a
file of another dataset (`path`), which what is left of the first deletion reads
or deletes in its place. `FilesAccountedFor` says that this, and a deletion
that fails after it took the file, are all that comes between a dataset and its
file, and which uploads and deletions leave a file behind. In `Ingestion` each dataset
has a file of its own.

`AtomicUpload` is what all this amounts to for others, who see committed rows
only: an upload is refused, or all of its datasets appear in one step under names
that are free then (`Appear`), and a message is sent for each, once, until it is
done or stops (`Send`, `Stop`). These three steps are `Upload`, `Delay` and
`RequestDies` of `Ingestion`. `ImplementsAtomicUpload` is the refinement: rows
count once their batch is committed, and an upload is asked for, sending, or over
(`Stage`).

### AtomicPublish and PublishTxn

`Ingestion` has a transaction in two steps: what it found to delete, and its
commit, which succeeds unless somebody committed since. `AtomicPublish` states
just that, and `PublishTxn` shows where it comes from: each `DELETE` takes a
snapshot and then waits for those who hold what it saw, each `INSERT` waits for
whoever holds the same unique key and fails if they commit, the update or
deletion of the dataset waits for its lock, foreign keys are looked up at commit
(Django declares them deferred), and a failure rolls everything back. All
columns of an attempt are one block, and so are its rows; `HeaderOnly` attempts
have no rows, which matters as `bulk_create` of nothing locks nothing. The
property `ImplementsAtomicPublish` is the refinement.

That these are the transactions of `Ingestion` is the property
`PublishesAtomically` of `IngestionAtomic`, for the dataset `Chosen`, which may be
any: `ClearOld` and `DeleteChildren` are `Begin`, `Publish` is `CommitIngest` or
`Fail`, `DeleteRow` is `CommitDestroy` or `Fail`, and everything else is a stutter
or the death of a transaction. `Ingestion` forgets how a transaction ended once
its task or request is done, so `IngestionAtomic` adds a history variable, `fate`,
which is read off the steps and never restricts them.

Statement by statement the system can also deadlock. Two transactions alone
cannot (`DeadlockNeedsThird`), as both take columns before rows, but three can,
one of which commits: two that started on different snapshots wait for each
other's deletions and insertions. PostgreSQL then makes one of them fail. That
is `Die` here, and `TaskDies` or `RequestDies` in `Ingestion`, and it leaves a
dataset pending as any other uncaught exception in the task does.

### ColumnNames

One step per branch or turn of the loop of `normalize_column_name`. Cells are
their slugs. `Suffix(s, n)` stands for `f"{s}_{n}"` and is a constant: in the
instance for TLC a slug is a sequence and the suffix is appended, so that a cell
may already be spelled like the new name of another (`a, a, a_2`). `Tabulate`
extends this module and runs it for the header of each file.

### Tabulate and TypeDetection

`preview_file()` and the `ingest_*` functions parse a file, name its columns and
detect their types by the same calls, written out twice. One pass of `Tabulate`
stands for both, and ends in `Show`, in `Store`, or in both. That the two copies
agree is an assumption of the model, not one of its results.

| Code | Action |
| --- | --- |
| `_raise_if_empty`, `_parse_csv_rows` | `RaiseIfEmpty`, `ParseCsvRows` |
| `_load_workbook` and the choice of the sheet | `LoadWorkbook` |
| the loop over `iter_rows()`, with the cap | `ReadRow`, `MalformedRow`, `EndOfSheet` |
| `normalize_column_name` for each cell of the header | `Name` |
| `detect_column_type` for each column | `DetectColumnTypes` |
| the answer of a preview; the rows of an ingestion | `Show`, `Store` |
| quality report; row filters and search | `ColumnReport`, `DuplicateRowCount`; `RowQueryset` |

A value is a pair of what it looks like once stripped (an email address, a
boolean, a number, a date, text, blank) and of an identity that tells it from
others that look the same; a cell of a workbook is a pair of its Python type and
what it holds, and `Stringify` makes a value of it. Names are slugs and suffixes
as in `ColumnNames`. The 90 percent of `type_detection.py` are compared in
integers, `10 * m >= 9 * n`. This is what the code's quotient of floats decides:
the double closest to `m / n` is the one closest to 0.9 only if the fractions are
equal, as others differ by at least `1 / (10 * n)`. A file gives away at which
row its reader fails (`badRow`), and whether the error is one of the six classes
that are handled (`fault`); the csv module and openpyxl are not modelled
beyond that. `Lookup` and `Index` are the column names that Django does not take
for a key of `data`: lookups of a `JSONField`, and what `int()` reads. `types`, `preview` and `table` hold what the functions return or
store; `Ingestion` and `PublishTxn` say how the storing may fail.

### Access

| Code | Action |
| --- | --- |
| `ApiKeyAuthentication.authenticate`: the lookup, then `save(update_fields=["last_used_at"])` | `LookUpKey`, `TouchKey` |
| `check_permissions` (`IsAuthenticated`, for what is the owner's) | `Authenticated` |
| `check_throttles`, `allow_request`: the history is read, then written back | `Refuse`, `Allow`, `Record` |
| `get_queryset` / `_readable_dataset_queryset` and `check_object_permissions` | `GetObject`, which compares `InQueryset` and `HasObjectPermission` |
| the two queries of `export` and `quality` | `QueryColumns`, `QueryRows` |
| `api-keys/`: create, revoke; the change form of its administration | `Issue`, `Revoke`, `AdminLoad`, `AdminSave` |
| `visibility`, `_ingest_rows`, the deletion of a dataset with its keys | `ChangeVisibility`, `Ingest`, `DeleteKeys`, `DeleteRow`, `DeletionFails` |

Django REST framework asks all throttles of a request even if one of them has
refused it, so a denied anonymous request still counts in the bucket that
`UserRateThrottle` keeps for its address. The cache is Django's default, in the
memory of one process: with several, each has its own rates. Histories hold
requests instead of time stamps, and `Age` lets a minute pass for one of them.
A key that a request carries is looked up once; what changes afterwards does not
reach that request. The change form of a key saves all its fields, and inserts
the row again if it was revoked since it was loaded; `restored` remembers these
keys. `late`, `revoked`, `restored`, `counted` and `old` only record what
happened.

## 3. Runs

| Run | Instance | Shows |
| --- | --- | --- |
| `ingestion_all` | 1 dataset, 3 tasks, 3 requests, everything enabled | `TypeOK`, `NoOrphanRows` |
| `ingestion_safety` | the same without visibility and administration site, with `fate` | `ReadyDescribesRows`, `ReadyAnnouncedIsReadable`, `NoLeakedFile`, `DeletedStaysDeleted`, `PublishesAtomically` |
| `ingestion_final` | the same, and nobody replaces a file | `ReadyIsFinal`, `EventsAgree` |
| `ingestion_live` | uploads, retries, replaced files, no fault; fair | `PendingIsQueued`, `PendingResolves` |
| `upload` | 3 uploads out of 7 forms: common sheets in either order, a plain name that is that of a sheet, names that are cut, too many and unknown sheets, another owner, a webhook, a large file that is no workbook; the deletion of a dataset; fair | `UploadTypeOK`, `AllSheetsOrNone`, `NameTakenOnce`, `FilesAccountedFor`, `ImplementsAtomicUpload`, `EveryUploadEnds` |
| `publish_txn` | 3 ingestions (one without rows), 2 deletions, with or without an older attempt | `TxnTypeOK`, `OneAttempt`, `DeadlockNeedsThird`, `ImplementsAtomicPublish` |
| `access` | 2 requests by 2 users, 2 keys or nobody, for one of 2 datasets; rates of 1; two ingestions | `AccessTypeOK`, `RevocationHolds`, `NoKeyWithoutDataset`, `FiltersAgree`, `RowsNoOlderThanColumns`, `RefusedOnlyWhenFull` |
| `tabulate` | all headers of up to 5 cells over a, b, a_2, a_3, a_2_2; columns of up to 10 numbers with words and gaps; small tables with short and long rows under repeated, blank, reserved, lookup and index names; cells of every type; every kind of damage around a cap of 3 rows; fair | `NamesDistinct`, `UnrepeatedKept`, `TableTypeOK` (which includes `NamesTypeOK`), `CapExact`, `CellsKept`, `QualityAgrees`, `FilterFindsCells`, `OnlyWholeFiles`, `TabulationEnds` |
| `pending_not_queued`, `visibility_lost_update`, `retry_race`, `destroy_aborts` | the smallest that suffice | disagreements, see section 5 |

Bounds. Datasets do not interact in these properties but through the requests
that upload several at once, each of which then only goes on with its own list;
one dataset and several tasks and requests is where things meet. Three tasks are
an upload and two retries or redeliveries, so two attempts overlap while a third
is over or queued; three requests are the upload and two that overlap. Each
request and task runs once, which bounds the behaviours and needs no other
bound. The proofs need none of these bounds. In `upload` a cap of 2 sheets and
three uploads let one wait for another that waits itself, and two wait for each
other while a third takes a name that one of them gives back. One of their
datasets is deleted (`MaxDeletions`), in whole, in half, twice over or around
`perform_destroy`, which is enough for the others to meet the name of its file
and its own. In `publish_txn`
five transactions are two more than the smallest deadlock takes. In `access` two
requests suffice for what one can do to another (a bucket read by both before
either writes, a key revoked between them), and rates of 1 for a full bucket;
the dataset that is not asked for is there for a key and an owner that are not
entitled; and two ingestions are the fewest of which one may replace the other
between the two queries of an answer. In `tabulate` five cells reach suffixes that collide twice, ten values
and two others lie on both sides of 90 percent and on it, and files have up to
one row more than the cap.

Deadlock checking is off in all runs, because these systems stop once all
requests and tasks are done. That nobody waits forever is instead what
`PendingResolves`, `TabulationEnds`, `EveryUploadEnds` and `DeadlockNeedsThird`
say.

Fairness. `FairSpec` of `Ingestion` makes a request that arrived go on, and a
queued task run: web server and worker are loops that serve what is there. It
does not make requests arrive, nor faults happen. `FairSpec` of `Upload` is the
same, with PostgreSQL's deadlock detection as one of the steps that happen in
the end. `FairSpec` of `Tabulate` is a sequential program that goes on while it
can, the renaming loop included. `Access` and `PublishTxn` state none: nothing in
them must happen. No safety property depends on fairness.

## 4. Proofs

`IngestionProofs` proves, for any number of datasets, tasks and requests:

| Theorem | Under | Argument |
| --- | --- | --- |
| `TypeCorrect` | nothing | inductive as it stands |
| `NoOrphans` | nothing | inductive with types: a publication needs the row, a deletion takes all it does not fail on, a full save only brings rows back |
| `DeletionIsFinal` | no visibility changes | only a full save writes the status of a row without looking for it |
| `ReadyIsDescribed`, `AnnouncedIsReadable` | no visibility changes | one inductive invariant, `DescribedInv`: counts are those of what is stored, ready needs something stored, and so does an attempt that was announced or is about to be |
| `NoFileLeaks` | no administration site | `UnlinkedInv`: a request that is past `Unlink` has taken the file, and nothing puts one there again |
| `ReadyStaysReady` | no visibility changes, no replaced files | `StableInv`: good content stays good, so nobody is about to save a failure for it, and only a failed dataset was seen by a retry about to save |
| `EventsAlwaysAgree` | the same | from the same invariant: an outcome is what the content says, and the content does not change |
| `PendingStaysQueued` | `Calm`: no faults but redelivery, no deletions or visibility changes, no poisonous content | `CalmInv`, and `QueuedInductive`: whoever overtakes a pending dataset's attempt also settles it |
| `AttemptsSettle` | `Calm` | `SettlesOn` and `TasksGoOn`: an attempt loses its role only when it is settled, and each of its steps is one less to go |

`DeletionIsFinal` and the ones after it are implications from a condition on
`Ops`, and need it: a full save, a deletion that skips the file, or a file
replaced by a bad one breaks what they say. The only assumption on constants is `ConstantsAssumption`, which
says that the distinguished values are distinct.

`PendingStaysQueued` does not cover the failures of section 2: a task that is
made the victim of a deadlock, or a worker that stops, leaves its dataset
pending. `AttemptsSettle` is the part of `PendingResolves` that needs no fairness:
once an attempt that can settle a dataset is there, it keeps that role until the
dataset is settled, by it or by one that overtakes it, and no step of anybody else
adds to the five it takes at most.

`IngestionAtomicProofs` proves `IngestionIsAtomic`, that `Ingestion` refines
`AtomicPublish` on each of its datasets while nobody changes visibility, from one
more assumption, that tasks are not requests (`ChosenAssumption`). With a full
save of a stale instance it does not: that save brings a deleted row back, outside
of any transaction. `FateInv` says that a transaction is active exactly while its
process stands before the commit, that it is about one dataset from then on, and
that an attempt told as ready is one that committed; `BornInv`, that nobody works
on a dataset before its upload. `PublishTxnProofs` has the same refinement from
below, so the two modules meet in `AtomicPublish`: what is proved about it holds
in both. `NoUpdateIsLost` is such a theorem, that of transactions which found the
same columns and rows at most one commits. It gives `NoTxnUpdateIsLost` about the
statements, and `AttemptsAreNotLost` about the tasks: of two retries or deliveries
that overlap in this way one fails, and none publishes over the other.

`UploadProofs` proves `UploadTyped`, `AllOrNone`, `NamesAreTakenOnce`,
`QueuedAreVisible`, `FilesAreAccountedFor` and
`UploadsAreAtomic` for any number of uploads and deletions, any forms and any
`SheetName`, from two assumptions: a file has at least one sheet
(`FormsAssumption`), and the limits are numbers (`MaxSheetsAssumption`). `UploadInv` says for each stage of a handler how many of
its datasets there are: none, those before `at`, or all. A step of one upload
touches nobody else's (`Others`, `OwnStep`), so that each action is about one
upload only. `NameTakenOnce` is inductive by itself. `FilesAreAccountedFor` rests
on `FileInv`: two files in the storage never share a name, none of them is of a
dataset whose file was deleted, and what a handler has saved is there unless a
file of that name was deleted. The refinement of
`AtomicUpload`, `UploadsAreAtomic`, needs besides these that exactly the messages
of the datasets before `at` were sent (`SentInv`); that the names are free when
a batch appears is `NameTakenOnce`, which covers rows that are not yet committed.

Of `EveryUploadEnds` the prover cannot have the fairness, but the rest:
`UploadsAreBounded` is that each step of an upload leaves it fewer (`StepsLeft`,
3n + 2 for n sheets), and those of others leave it as many; and
`SomeUploadGoesOn` that, unless all are over, one of them waits for nobody or is
in a set of uploads that all wait for one another, where PostgreSQL picks a victim.

`ColumnNamesProofs` proves `NamesTyped`, `NamesAreDistinct` and
`UnrepeatedIsKept` for headers of any length and *any* operator `Suffix`: names
stay apart because the loop checks its dictionary, not because of how they look.
`NamesTypeOK` already says that all names returned are keys, and this is what
makes `NamesDistinct` inductive; `UnrepeatedKept` needs `Verbatim`, that the
keys are the cells dealt with so far. That the loop ends does depend on suffixes:
`SuffixAssumption` says that they make names which differ from each other and
from the slug. Then each suffix that the loop passes over is the name of another
column before (`TakenInv`), of which there are finitely many, and
`NamingIsBounded` follows: no suffix is larger than the position of its column,
and a header of n cells takes n * n branches and turns at most.

`TabulateProofs` proves `TableTyped`, `CapIsExact`, `CellsAreKept`,
`FiltersFindCells`, `QualityReportsAgree` and `OnlyWholeFilesAreStored` for any
files, objects, cap, sample size, reserved names, lookups and index names, from
`TabulateAssumption`: the files are tables of objects, damaged in one of the ways
that are listed there, a string contains itself, and the bounds are numbers.
`OnlyWholeFilesAreStored` needs `WholeInv`: the rows read so far are sound and
within the cap, and what is past parsing has nothing wrong. `ImplementsColumnNames` shows that `Tabulate` is a
refinement of `NamesSpec` that stutters outside of `Name`, so that
`NamesAreDistinct` holds in it; `CellsAreKept` and `FiltersFindCells` rest on
that, since two columns of one name would share a cell. `TabulationIsBounded`
adds the lines of the file and five steps to those of the naming.
`QualityReportsAgree` counts: the values that a detected type rejects are all but those it was detected by
(`DetectedIsValid`), and the rows that repeat no earlier one are as many as there
are different rows (`Duplicates`).

`PublishTxnProofs` proves every property of the run `publish_txn` for any number
of ingestions and deletions, from `TxnAssumption`: the names of transactions,
tables' older attempt and nobody are distinct, and attempts without rows are
ingestions. Its invariant, `Inv`, says where a transaction may stand and what it
then inserted and holds (`StageInv`), that a `DELETE` finds committed blocks and,
once done, has deleted all of them that are still there (`FoundInv`), that what
is deleted was found, and its rows were found no earlier than its columns
(`DeletedInv`), that of two blocks with one key one replaces the other
(`PairInv`), and that columns and rows are stored together and none without the
dataset (`StoredInv`). `OneAttemptIsStored` follows at once.
`TransactionsAreAtomic`, the refinement, needs besides that no `DELETE` finds two
blocks of columns (`SingleInv`); its heart is that an `INSERT` or a commit only
fails because of a block that the transaction did not find, which was committed
since its snapshot. `DeadlocksNeedAThird` rests on `FirstInv`: while no ingestion
committed, whoever a transaction waits for is ahead of it, so that a circle of
them cannot be.

`AccessProofs` proves every property of the run `access` for any callers, keys,
datasets and rates (`AccessAssumption`: there are finitely many requests, users
and keys are distinct, and each key is issued for a dataset). `RevocationIsFinal`
needs that a key which is in nobody's hands and has no row gets one only from an
administrator. `FiltersAlwaysAgree` needs that only users own datasets, so that a
key or nobody never passes as an owner. `RowsAreNoOlder` says that columns and
rows of a dataset are of one ingestion at any time, and that what a request has
read of the columns is no newer than those. `RefusalsAreDeserved` rests on
`HistoryInv`: what a history or a copy of it holds was counted in that bucket, on
behalf of its caller.

Model-checked only: liveness (`PendingResolves`, `EveryUploadEnds`,
`TabulationEnds`), since fairness and `ENABLED` are out of reach of the prover. For
each it is proved that every step of the process concerned brings the end closer
and no other sets it back (`AttemptsSettle`, `UploadsAreBounded`,
`TabulationIsBounded`), so what TLC adds is that fair steps are there to be taken. Every other property of a passing run is
a theorem.

## 5. Where code and documents disagree

- `pending_not_queued`: `.delay()` comes after the commit and may raise. The
  dataset is pending and not queued, and cannot be retried, whereas `README.md`
  says that "a `pending` one is already queued".
- `visibility_lost_update`: `serializer.save()` writes all fields of a loaded
  instance. An ingestion that commits in between is undone in the row (status,
  counts) but not in columns and rows.
- `retry_race`: the check of `retry` is on a loaded instance, so that two
  requests may both pass it.
- `destroy_aborts`: the file goes before a transaction that may fail; a dataset
  stays without its source.

Further ones that the models state rather than refute:

- A filter `column=value` becomes `data__<column>=value` (`filters.py`). For a
  column named like a lookup of `JSONField` (`in`, `contains`, `range`, `isnull`
  ...) this is the lookup on all of `data`, not the value of the column:
  `FilterFindsCells` excludes these names (`Lookup`). For a column whose name is
  a number to `int()` (`2024`, `1_000`, or the `2024_2` of a repeated header),
  Django asks for an element of an array, which an object has none of: neither a
  filter by it nor a search in it finds anything (`Index`), and PostgreSQL raises
  an error if the number has more than 32 bits.
- `_INVALID_WORKBOOK_ERRORS` lists six classes. The sheet of a chart has no
  `iter_rows()` (`AttributeError`), and openpyxl, zipfile and zlib raise others
  for damaged or encrypted members (`ValueError`, `TypeError`, `zlib.error`,
  `RuntimeError`): a preview then answers 500, and a dataset stays pending.
- A row whose file was deleted (`destroy_aborts`), or a second deletion that
  overlaps the first, may read or delete the file of another dataset, of any
  owner, that was uploaded since under the same name on the same day
  (`FilesAccountedFor`).
- `README.md` gives an API key the schema, rows and export of its dataset;
  `_API_KEY_ELIGIBLE_ACTIONS` has `quality` and `row_detail` as well.

## 6. Not modelled

String work: how a slug is cut out of a cell, which strings look like a number
or a date, how a URL is parsed and which addresses are internal, the hash of a
key. In the models these are constants, or parts of the input. The csv module
and openpyxl beyond their outcomes. Pagination, ordering, and the quoting of
formulas in an export, which are functions of the rows that are read. Field
lengths, but for the names of columns and datasets (a value that is too long
makes content poisonous in `Ingestion`). Eager mode (tests only: everything then
runs in the request). The change form of a dataset in the administration site (a
full save, like a visibility change) and the deletion of a user (that of all its
datasets, without their files). `failure_reason` (always saved with the status),
and a name collision when a full save inserts a row again (it would raise instead
of inserting). Routes, migrations, logging and the rest of the settings declare
things and keep no state.

## 7. Plan

The order has been the importance of what can go wrong: first `Ingestion` with its
transactions and `Upload`, which write everything, and `ColumnNames`, on which
their constraints depend; then `Tabulate`, which says what they write, and
`Access`, which limits who reads it.

That order has been followed to its end: each part of section 1 with state of its
own has its module, each safety property its proof, and the seams between
`Ingestion`, `Upload` and `PublishTxn` are abstract specifications that the
modules below them are proved to implement. What could be added: throttles of several
processes, and `Ingestion`, which has an upload and its messages in its own
variables, as a refinement of `AtomicUpload` as well.
