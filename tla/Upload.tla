------------------------------- MODULE Upload --------------------------------
(***************************************************************************)
(* POST upload/ (DatasetViewSet.upload, views.py) from the validation of   *)
(* the form (serializers.py, services/webhooks.py) to the queue: one       *)
(* dataset per sheet, all created in one transaction.                      *)
(* Uploads of the same owner meet in the constraint                        *)
(* unique_owner_dataset_name: PostgreSQL makes an INSERT wait for the      *)
(* transaction in progress that holds the same key, and fails it once that *)
(* committed.  Ingestion has all of this as one step.                      *)
(*                                                                         *)
(* A dataset is the pair of its upload and of the position of its sheet.   *)
(* Deletions run at any time: by the API (perform_destroy) in two steps,   *)
(* the file and then the row, and around it (administration site, deletion *)
(* of the owner), where nothing deletes the file.                          *)
(***************************************************************************)
EXTENDS Naturals, Sequences, FiniteSets

CONSTANTS
  Request,          \* uploads
  Sheet,            \* worksheets, and what a CSV file has instead
  Forms,            \* what they may ask for: records of owner, base (the
                    \* name), format and size (of the file), available and
                    \* requested (sheets), and webhook
  SheetName(_, _),  \* f"{base_name}-{normalize_column_name(sheet)}"[:100]
  MaxSheets,        \* FILEBRIDGE_MAX_SHEETS_PER_UPLOAD
  MaxSize,          \* FILEBRIDGE_MAX_UPLOAD_SIZE_BYTES
  MaxDeletions,     \* bound: how many datasets are deleted
  Address,          \* what hosts resolve to,
  Internal          \* and those of them that no webhook may have

ASSUME MaxSheetsAssumption == MaxSheets \in Nat /\ MaxSize \in Nat

\* The format of a file is "csv", "xlsx", "broken" if its name ends in .xlsx but
\* it is no workbook, or "other".  A file has a sheet; sheet_names may be empty.
\* webhook is "none", "invalid" (not http, or without a host) or "http".
ASSUME FormsAssumption ==
  \A f \in Forms : /\ f.available \in Seq(Sheet) \ {<<>>}
                   /\ f.requested \in Seq(Sheet)

VARIABLES
  form,    \* of each upload
  pc,      \* where its handler stands
  at,      \* the sheet it deals with
  rows,    \* the datasets inserted, unless rolled back or deleted
  path,    \* the name of source_file of each dataset in the storage: that of
           \* the dataset itself or, if it took the name of a file that was
           \* deleted, of the one it was first given to
  files,   \* the datasets whose source_file is in the storage
  queue,   \* the datasets ingest_dataset_file.delay() was called for
  unlinked,  \* the datasets perform_destroy deleted the file of
  deleted    \* the datasets deleted since

vars == <<form, pc, at, rows, path, files, queue, unlinked, deleted>>

\* "rejected" by the checks, "collided" with a name, "crashed" anywhere.
Failed == {"rejected", "collided", "crashed"}

SheetsOf(f) == IF f.requested # <<>> THEN f.requested ELSE f.available

Sheets(r) == SheetsOf(form[r])

Positions(f) == 1..Len(SheetsOf(f))

Datasets(r) == {<<r, i>> : i \in Positions(form[r])}

AllDatasets == UNION {Datasets(r) : r \in Request}

Unknown(f) ==
  \E i \in DOMAIN f.requested :
    \A j \in DOMAIN f.available : f.requested[i] # f.available[j]

\* A single sheet keeps the plain name.
Name(f, i) ==
  IF Len(SheetsOf(f)) > 1 THEN SheetName(f.base, SheetsOf(f)[i]) ELSE f.base

\* The columns of unique_owner_dataset_name.
KeyOf(f, i) == <<f.owner, Name(f, i)>>

Key(d) == KeyOf(form[d[1]], d[2])

\* Whether the transaction of an upload is open.
Open(r) == pc[r] \in {"save", "insert", "commit"}

Sharing(k) == {d \in rows : Key(d) = k}

------------------------------------------------------------------------------
\* DatasetUploadSerializer
ValidFile(f) == f.format # "other" /\ f.size <= MaxSize

ValidSheets(f) == f.requested # <<>> => f.format \in {"xlsx", "broken"}

\* validate_webhook_url().  A host that cannot be resolved has no addresses.
ValidWebhook(f, addresses) ==
  \/ f.webhook = "none"
  \/ f.webhook = "http" /\ addresses # {} /\ addresses \cap Internal = {}

\* What the view checks after the serializer.
SheetsAccepted(f) ==
  f.format # "csv" => /\ f.format # "broken"
                      /\ ~Unknown(f)
                      /\ Len(SheetsOf(f)) <= MaxSheets

\* What a host resolves to may change from one upload to the next.
Check(r) ==
  /\ pc[r] = "check"
  /\ \E addresses \in SUBSET Address :
       LET f == form[r]
           accepted == /\ ValidFile(f) /\ ValidSheets(f)
                       /\ ValidWebhook(f, addresses)
                       /\ SheetsAccepted(f)
       IN  pc' = [pc EXCEPT ![r] = IF accepted THEN "save" ELSE "rejected"]
  /\ UNCHANGED <<form, at, rows, path, files, queue, unlinked, deleted>>

Paths(D) == {path[d] : d \in D}

\* Whoever uploads a file, it goes to "uploads/%Y/%m/%d/" under the name it comes
\* with, unless a file has it: then under one of its own.
FreePaths(d) ==
  LET alike == {e \in rows \cup deleted : form[e[1]].format = form[d[1]].format}
  IN  ({d} \cup Paths(alike)) \ Paths(files)

\* Dataset.objects.create() stores the file before it inserts the row.
SaveFile(r) ==
  LET d == <<r, at[r]>>
  IN  /\ pc[r] = "save"
      /\ \E p \in FreePaths(d) : path' = [path EXCEPT ![d] = p]
      /\ files' = files \cup {d}
      /\ pc' = [pc EXCEPT ![r] = "insert"]
      /\ UNCHANGED <<form, at, rows, queue, unlinked, deleted>>

\* Mutant: no constraint, but a look at the names that are committed.
OnlySeesCommitted(d) ==
  {e \in Sharing(Key(d)) : ~Open(e[1]) \/ e[1] = d[1]}

\* The datasets with the key of d.
Rivals(d) == Sharing(Key(d))

\* An INSERT waits for the transactions that may yet take its key, or not.
Waits(r, d) == \E e \in Rivals(d) : e[1] # r /\ Open(e[1])

\* Mutant: without transaction.atomic() the datasets inserted so far stay.
KeptRows(r) == rows

\* What a transaction leaves when it fails.
RolledBack(r) == rows \ Datasets(r)

Insert(r) ==
  LET d == <<r, at[r]>>
  IN  /\ pc[r] = "insert"
      /\ ~Waits(r, d)
      /\ IF Rivals(d) # {}
           THEN /\ rows' = RolledBack(r)
                /\ pc' = [pc EXCEPT ![r] = "collided"]
                /\ UNCHANGED at
           ELSE /\ rows' = rows \cup {d}
                /\ IF at[r] < Len(Sheets(r))
                     THEN /\ at' = [at EXCEPT ![r] = @ + 1]
                          /\ pc' = [pc EXCEPT ![r] = "save"]
                     ELSE /\ pc' = [pc EXCEPT ![r] = "commit"]
                          /\ UNCHANGED at
      /\ UNCHANGED <<form, path, files, queue, unlinked, deleted>>

\* Mutant: the first message is sent inside the transaction.
DelayThenCommit(r) ==
  /\ pc[r] = "commit"
  /\ queue' = queue \cup {<<r, 1>>}
  /\ at' = [at EXCEPT ![r] = 1]
  /\ pc' = [pc EXCEPT ![r] = IF <<r, 1>> \in queue THEN "delay" ELSE @]
  /\ UNCHANGED <<form, rows, path, files, unlinked, deleted>>

Commit(r) ==
  /\ pc[r] = "commit"
  /\ pc' = [pc EXCEPT ![r] = "delay"]
  /\ at' = [at EXCEPT ![r] = 1]
  /\ UNCHANGED <<form, rows, path, files, queue, unlinked, deleted>>

\* Mutant: off by one.
DelayOneMore(r) ==
  /\ pc[r] = "delay"
  /\ queue' = queue \cup {<<r, at[r]>>}
  /\ IF at[r] <= Len(Sheets(r))
       THEN at' = [at EXCEPT ![r] = @ + 1] /\ UNCHANGED pc
       ELSE pc' = [pc EXCEPT ![r] = "done"] /\ UNCHANGED at
  /\ UNCHANGED <<form, rows, path, files, unlinked, deleted>>

Delay(r) ==
  /\ pc[r] = "delay"
  /\ queue' = queue \cup {<<r, at[r]>>}
  /\ IF at[r] < Len(Sheets(r))
       THEN at' = [at EXCEPT ![r] = @ + 1] /\ UNCHANGED pc
       ELSE pc' = [pc EXCEPT ![r] = "done"] /\ UNCHANGED at
  /\ UNCHANGED <<form, rows, path, files, unlinked, deleted>>

\* Nothing is cleaned up but what the transaction inserted.
Crash(r) ==
  /\ rows' = IF Open(r) THEN RolledBack(r) ELSE rows
  /\ pc' = [pc EXCEPT ![r] = "crashed"]
  /\ UNCHANGED <<form, at, path, files, queue, unlinked, deleted>>

\* The process stops, or the storage, the database or the broker fails.
Dies(r) ==
  /\ pc[r] \notin Failed \cup {"done"}
  /\ Crash(r)

\* Whom an upload waits for.
WaitsFor(r) ==
  IF pc[r] # "insert" THEN {}
  ELSE {e[1] : e \in {f \in Rivals(<<r, at[r]>>) : Open(f[1])}} \ {r}

\* Mutant: nobody notices.
NoVictim(r) == FALSE

\* PostgreSQL makes one of the transactions that wait for each other fail.
Victim(r) ==
  /\ \E S \in SUBSET Request :
       r \in S /\ \A x \in S : WaitsFor(x) \cap S # {}
  /\ Crash(r)

Deletable(d) ==
  /\ ~Open(d[1])
  /\ Cardinality(unlinked \cup deleted \cup {d}) <= MaxDeletions

\* Mutant: perform_destroy as inherited: FileField leaves the file.
UnlinkNothing(d) ==
  /\ Deletable(d)
  /\ unlinked' = unlinked \cup {d}
  /\ UNCHANGED <<form, pc, at, rows, path, files, queue, deleted>>

\* perform_destroy deletes what is stored under the name its instance has, which
\* may have been loaded before others deleted the dataset, or its file.
Unlink(d) ==
  /\ Deletable(d)
  /\ files' = {e \in files : path[e] # path[d]}
  /\ unlinked' = unlinked \cup {d}
  /\ UNCHANGED <<form, pc, at, rows, path, queue, deleted>>

\* Then it deletes the row, which frees the name of the dataset, if the request
\* gets that far.
DestroyRow(d) ==
  /\ d \in rows \cap unlinked
  /\ rows' = rows \ {d}
  /\ deleted' = deleted \cup {d}
  /\ UNCHANGED <<form, pc, at, path, files, queue, unlinked>>

\* Deletion in the administration site, or of the owner: the row only.
AdminDelete(d) ==
  /\ d \in rows
  /\ Deletable(d)
  /\ rows' = rows \ {d}
  /\ deleted' = deleted \cup {d}
  /\ UNCHANGED <<form, pc, at, path, files, queue, unlinked>>

Init ==
  /\ form \in [Request -> Forms]
  /\ pc = [r \in Request |-> "check"]
  /\ at = [r \in Request |-> 1]
  /\ path = [d \in AllDatasets |-> d]
  /\ rows = {} /\ files = {} /\ queue = {} /\ unlinked = {} /\ deleted = {}

Step(r) ==
  Check(r) \/ SaveFile(r) \/ Insert(r) \/ Commit(r) \/ Delay(r) \/ Victim(r)

Next ==
  \/ \E r \in Request : Step(r) \/ Dies(r)
  \/ \E d \in rows \cup deleted : Unlink(d) \/ DestroyRow(d) \/ AdminDelete(d)

Spec == Init /\ [][Next]_vars

FairSpec == Spec /\ \A r \in Request : WF_vars(Step(r))

------------------------------------------------------------------------------
\* An upload deals with one of its sheets, and nobody else's datasets.
UploadTypeOK ==
  /\ form \in [Request -> Forms]
  /\ pc \in [Request -> Failed \cup
               {"check", "save", "insert", "commit", "delay", "done"}]
  /\ \A r \in Request : pc[r] \in {"save", "insert", "commit", "delay"} =>
                          at[r] \in 1..Len(Sheets(r))
  /\ path \in [AllDatasets -> AllDatasets]
  /\ rows \cup files \cup queue \cup deleted \subseteq AllDatasets
  /\ unlinked \subseteq rows \cup deleted

\* "Either all N sheets get a Dataset or none do" (views.py), whatever the
\* uploads it collides with do, and wherever it stops.
AllSheetsOrNone ==
  \A r \in Request :
    ~Open(r) => LET mine == (rows \cup deleted) \cap Datasets(r)
                IN  /\ mine \in {{}, Datasets(r)}
                    /\ pc[r] \in {"delay", "done"} => mine = Datasets(r)

\* No two datasets of an owner have the same name.
NameTakenOnce == \A d, e \in rows : Key(d) = Key(e) => d = e

\* "Only queue ingestion once every dataset row is actually committed": no task
\* looks for the row of a dataset before it can see it.
QueuedIsVisible ==
  \A d \in queue : ~Open(d[1]) /\ d \in rows \cup deleted

\* "Without this, every upload-then-delete cycle leaks a file" (perform_destroy),
\* and what it may cost, whatever overlaps:
\* - a dataset only lacks its file, or finds that of another one in its place,
\*   if perform_destroy deleted a file of that name, for a dataset that is still
\*   there or in a request that overlapped another deletion;
\* - a file without a dataset is left by an upload that collided or crashed
\*   (the rows are rolled back, the files are not), or by a deletion around
\*   perform_destroy, or is about to get its dataset.
FilesAccountedFor ==
  /\ \A d \in rows :
       \/ {e \in files : path[e] = path[d]} = {d}
       \/ path[d] \in Paths(unlinked)
  /\ \A d \in files \ rows :
       \/ pc[d[1]] \in {"collided", "crashed"}
       \/ pc[d[1]] = "insert" /\ d[2] = at[d[1]]
       \/ d \in deleted \ unlinked

\* The stage an upload is in for everyone else.
Stage(r) ==
  IF Open(r) \/ pc[r] = "check" THEN "asked"
  ELSE IF pc[r] = "delay" THEN "sending" ELSE "over"

Atomic == INSTANCE AtomicUpload WITH
  Sheets  <- Positions,
  NameOf  <- KeyOf,
  visible <- {d \in rows : ~Open(d[1])},
  stage   <- [r \in Request |-> Stage(r)]

\* However the INSERTs, failures and deletions of several uploads overlap, the
\* datasets of one appear at once, under names that are free at that moment, or
\* never; and a message for each is sent after that, once.
ImplementsAtomicUpload == Atomic!Spec

\* Every upload is answered, even if it waits for another.
EveryUploadEnds == <>(\A r \in Request : pc[r] \in Failed \cup {"done"})

==============================================================================
