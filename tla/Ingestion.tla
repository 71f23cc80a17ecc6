------------------------------ MODULE Ingestion ------------------------------
(***************************************************************************)
(* The life of a dataset, from upload to deletion, across the processes    *)
(* that write it: web requests (apps/datasets/views.py), Celery workers    *)
(* running ingest_dataset_file (apps/datasets/tasks.py, services/          *)
(* ingestion.py), the administration site and whoever repairs a source     *)
(* file by hand.  They share the row of the dataset, its columns and rows  *)
(* (PostgreSQL, READ COMMITTED, one transaction per statement unless the   *)
(* code opens one), its source file (no transaction) and the queue.        *)
(*                                                                         *)
(* The columns and rows of a dataset are named by the attempt (the task)   *)
(* that wrote them, and so are the counts saved in its row: what matters   *)
(* is which attempt they come from, not their values.  failure_reason is   *)
(* saved together with the status by every writer and is left out.         *)
(***************************************************************************)
EXTENDS FiniteSets

CONSTANTS
  Dataset,  \* primary keys, each given to at most one upload
  Task,     \* executions of ingest_dataset_file: one per queued message
  Request,  \* requests to the web process, each served once
  Good,     \* contents of a source file that parse,
  Bad,      \* that the parser rejects with a DatasetIngestionError,
  Poison,   \* and that make it, or the database, raise anything else: also the
            \* errors of readers that _INVALID_WORKBOOK_ERRORS does not list
  NoFile,   \* what the storage holds once a file was deleted
  None,     \* no attempt
  Ops       \* the operations and faults this instance exercises

Content  == Good \cup Bad \cup Poison
Detail   == {"retry", "visibility", "destroy", "admin"}
Faults   == {"requestdies", "taskdies", "redeliver"}
Statuses == {"pending", "ready", "failed"}

ASSUME ConstantsAssumption ==
  /\ None \notin Task
  /\ NoFile \notin Content
  /\ Good \cap Bad = {}
  /\ Good \cap Poison = {}
  /\ Bad \cap Poison = {}
  /\ Ops \subseteq Detail \cup Faults \cup {"edit"}

VARIABLES
  \* the row of each dataset
  status,    \* "unborn" before its upload, "deleted" after its deletion
  counted,   \* the attempt whose row_count and column_count it holds
  isPublic,
  \* what belongs to it
  stored,    \* the attempt whose columns and rows the database holds
  file,      \* the content of source_file
  \* requests
  rpc,       \* where the handler stands
  todo,      \* the datasets it still has to deal with
  seen,      \* the row as get_object() loaded it
  rkids,     \* the attempt whose columns and rows its transaction deleted
  \* tasks
  tpc,       \* where the task stands
  job,       \* its argument dataset_id
  outcome,   \* the status of its in-memory dataset once it decided one
  kids,      \* the attempt whose columns and rows its transaction deleted
  hook       \* the webhook event it got through

dbVars   == <<status, counted, isPublic, stored, file>>
reqVars  == <<rpc, todo, seen, rkids>>
taskVars == <<tpc, job, outcome, kids, hook>>
vars     == <<dbVars, reqVars, taskVars>>

Attempt == Task \cup {None}
Row     == [status : Statuses, counted : Attempt]

Live(d) == status[d] \in Statuses

\* A transaction that deleted the columns and rows of attempt a does not see
\* those another transaction committed since.  They make it fail: on the
\* unique constraints if it inserts its own, on the foreign key if it deletes
\* the dataset itself.
Unseen(a, d) == stored[d] \notin {a, None}

------------------------------------------------------------------------------
\* Requests

\* POST upload/, past its validation.  All rows and files, or none, are
\* created; each sheet may turn out to be good or bad on its own.
Upload(r, S) ==
  /\ rpc[r] = "idle"
  /\ S # {}
  /\ \A d \in S : status[d] = "unborn"
  /\ status' = [d \in Dataset |-> IF d \in S THEN "pending" ELSE status[d]]
  /\ \E c \in [S -> Content] :
       file' = [d \in Dataset |-> IF d \in S THEN c[d] ELSE file[d]]
  /\ \E p \in BOOLEAN :
       isPublic' = [d \in Dataset |-> IF d \in S THEN p ELSE isPublic[d]]
  /\ todo' = [todo EXCEPT ![r] = S]
  /\ rpc' = [rpc EXCEPT ![r] = "delay"]
  /\ UNCHANGED <<counted, stored, seen, rkids, taskVars>>

\* ingest_dataset_file.delay(dataset.id), by upload and by retry.
Delay(r, d, t) ==
  /\ rpc[r] = "delay"
  /\ d \in todo[r]
  /\ tpc[t] = "unused"
  /\ tpc' = [tpc EXCEPT ![t] = "queued"]
  /\ job' = [job EXCEPT ![t] = d]
  /\ todo' = [todo EXCEPT ![r] = @ \ {d}]
  /\ rpc' = [rpc EXCEPT ![r] = IF todo[r] = {d} THEN "done" ELSE "delay"]
  /\ UNCHANGED <<dbVars, seen, rkids, outcome, kids, hook>>

\* Deletion in the administration site never touches the file.
FirstStep(op) == IF op = "admin" THEN "clear" ELSE op

\* self.get_object(): what a handler knows of the row from then on.
GetObject(r, d, op) ==
  /\ op \in Ops
  /\ rpc[r] = "idle"
  /\ Live(d)
  /\ seen' = [seen EXCEPT ![r] = [status |-> status[d], counted |-> counted[d]]]
  /\ todo' = [todo EXCEPT ![r] = {d}]
  /\ rpc' = [rpc EXCEPT ![r] = FirstStep(op)]
  /\ UNCHANGED <<dbVars, rkids, taskVars>>

\* Mutant: a retry of any dataset whose ingestion is over.
RetryOfAnySettled(r) == seen[r].status # "pending"

RetryAllowed(r) == seen[r].status = "failed"

RetryReject(r) ==
  /\ rpc[r] = "retry"
  /\ ~RetryAllowed(r)
  /\ rpc' = [rpc EXCEPT ![r] = "done"]
  /\ UNCHANGED <<dbVars, todo, seen, rkids, taskVars>>

\* save(update_fields=[...]) of a row that is gone raises, and so the message
\* is not queued.
RetrySave(r, d) ==
  /\ rpc[r] = "retry"
  /\ d \in todo[r]
  /\ RetryAllowed(r)
  /\ IF Live(d)
       THEN /\ status' = [status EXCEPT ![d] = "pending"]
            /\ rpc' = [rpc EXCEPT ![r] = "delay"]
       ELSE /\ rpc' = [rpc EXCEPT ![r] = "done"]
            /\ UNCHANGED status
  /\ UNCHANGED <<counted, isPublic, stored, file, todo, seen, rkids, taskVars>>

\* serializer.save() writes back every field of the row as it was loaded, and
\* inserts the row again if it was deleted since.
VisibilitySave(r, d) ==
  /\ rpc[r] = "visibility"
  /\ d \in todo[r]
  /\ status' = [status EXCEPT ![d] = seen[r].status]
  /\ counted' = [counted EXCEPT ![d] = seen[r].counted]
  /\ \E p \in BOOLEAN : isPublic' = [isPublic EXCEPT ![d] = p]
  /\ rpc' = [rpc EXCEPT ![r] = "done"]
  /\ UNCHANGED <<stored, file, todo, seen, rkids, taskVars>>

\* Mutant: perform_destroy as inherited: FileField leaves the file.
UnlinkForgotten(r, d) ==
  /\ rpc[r] = "destroy"
  /\ d \in todo[r]
  /\ rpc' = [rpc EXCEPT ![r] = "clear"]
  /\ UNCHANGED <<dbVars, todo, seen, rkids, taskVars>>

\* perform_destroy: the file goes first, outside of any transaction, ...
Unlink(r, d) ==
  /\ rpc[r] = "destroy"
  /\ d \in todo[r]
  /\ file' = [file EXCEPT ![d] = NoFile]
  /\ rpc' = [rpc EXCEPT ![r] = "clear"]
  /\ UNCHANGED <<status, counted, isPublic, stored, todo, seen, rkids, taskVars>>

\* ... then one transaction deletes the columns, rows and keys ...
DeleteChildren(r, d) ==
  /\ rpc[r] = "clear"
  /\ d \in todo[r]
  /\ rkids' = [rkids EXCEPT ![r] = stored[d]]
  /\ rpc' = [rpc EXCEPT ![r] = "commit"]
  /\ UNCHANGED <<dbVars, todo, seen, taskVars>>

\* Mutant: no constraint on the foreign keys (db_constraint=False).
DeleteRowUnchecked(r, d) ==
  /\ rpc[r] = "commit"
  /\ d \in todo[r]
  /\ status' = [status EXCEPT ![d] = "deleted"]
  /\ stored' = [stored EXCEPT ![d] = IF @ = rkids[r] THEN None ELSE @]
  /\ rpc' = [rpc EXCEPT ![r] = "done"]
  /\ UNCHANGED <<counted, isPublic, file, todo, seen, rkids, taskVars>>

\* ... and the row, unless its foreign keys are still referenced at commit.
DeleteRow(r, d) ==
  /\ rpc[r] = "commit"
  /\ d \in todo[r]
  /\ IF Live(d) /\ ~Unseen(rkids[r], d)
       THEN /\ status' = [status EXCEPT ![d] = "deleted"]
            /\ counted' = [counted EXCEPT ![d] = None]
            /\ stored' = [stored EXCEPT ![d] = None]
       ELSE UNCHANGED <<status, counted, stored>>
  /\ rpc' = [rpc EXCEPT ![r] = "done"]
  /\ UNCHANGED <<isPublic, file, todo, seen, rkids, taskVars>>

\* The web process stops, .delay() cannot reach the broker and raises, or a
\* transaction is the victim of a deadlock (PublishTxn).
RequestDies(r) ==
  /\ "requestdies" \in Ops
  /\ rpc[r] \notin {"idle", "done"}
  /\ rpc' = [rpc EXCEPT ![r] = "done"]
  /\ UNCHANGED <<dbVars, todo, seen, rkids, taskVars>>

\* Someone puts another file in the place of source_file.
Edit(d) ==
  /\ "edit" \in Ops
  /\ Live(d)
  /\ file[d] # NoFile
  /\ \E c \in Content : file' = [file EXCEPT ![d] = c]
  /\ UNCHANGED <<status, counted, isPublic, stored, reqVars, taskVars>>

------------------------------------------------------------------------------
\* Tasks

\* A worker takes the message, and loads the row it names.
GetDataset(t) ==
  /\ tpc[t] = "queued"
  /\ tpc' = [tpc EXCEPT ![t] = IF Live(job[t]) THEN "read" ELSE "done"]
  /\ UNCHANGED <<dbVars, reqVars, job, outcome, kids, hook>>

\* Mutant: a parse error that is not a DatasetIngestionError.
ParseErrorEscapes(c) == IF c \in Good THEN "begin" ELSE "done"

\* Only a DatasetIngestionError is handled: a missing file, or any other
\* error, ends the task then and there.
AfterReading(c) ==
  IF c \in Good THEN "begin" ELSE IF c \in Bad THEN "fail" ELSE "done"

ReadFile(t) ==
  /\ tpc[t] = "read"
  /\ tpc' = [tpc EXCEPT ![t] = AfterReading(file[job[t]])]
  /\ UNCHANGED <<dbVars, reqVars, job, outcome, kids, hook>>

\* Mutant: save() without update_fields inserts a row that is gone.
SaveFailureInFull(t) ==
  /\ tpc[t] = "fail"
  /\ status' = [status EXCEPT ![job[t]] = "failed"]
  /\ outcome' = [outcome EXCEPT ![t] = "failed"]
  /\ tpc' = [tpc EXCEPT ![t] = "hook"]
  /\ UNCHANGED <<counted, isPublic, stored, file, reqVars, job, kids, hook>>

\* Mutant: "error" is not one of Dataset.Status.
SaveUnknownStatus(t) ==
  /\ tpc[t] = "fail"
  /\ status' = [status EXCEPT ![job[t]] = "error"]
  /\ outcome' = [outcome EXCEPT ![t] = "failed"]
  /\ tpc' = [tpc EXCEPT ![t] = "hook"]
  /\ UNCHANGED <<counted, isPublic, stored, file, reqVars, job, kids, hook>>

\* _fail(): two fields of the row, which must still be there.
SaveFailure(t) ==
  /\ tpc[t] = "fail"
  /\ IF Live(job[t])
       THEN /\ status' = [status EXCEPT ![job[t]] = "failed"]
            /\ outcome' = [outcome EXCEPT ![t] = "failed"]
            /\ tpc' = [tpc EXCEPT ![t] = "hook"]
       ELSE /\ tpc' = [tpc EXCEPT ![t] = "done"]
            /\ UNCHANGED <<status, outcome>>
  /\ UNCHANGED <<counted, isPublic, stored, file, reqVars, job, kids, hook>>

\* Mutant: the deletion commits on its own, before transaction.atomic().
ClearOldCommits(t) ==
  /\ tpc[t] = "begin"
  /\ kids' = [kids EXCEPT ![t] = None]
  /\ stored' = [stored EXCEPT ![job[t]] = None]
  /\ tpc' = [tpc EXCEPT ![t] = "commit"]
  /\ UNCHANGED <<status, counted, isPublic, file, reqVars, job, outcome, hook>>

\* The transaction of _ingest_rows starts by deleting what is there ...
ClearOld(t) ==
  /\ tpc[t] = "begin"
  /\ kids' = [kids EXCEPT ![t] = stored[job[t]]]
  /\ tpc' = [tpc EXCEPT ![t] = "commit"]
  /\ UNCHANGED <<dbVars, reqVars, job, outcome, hook>>

\* Mutant: the orders of columns and rows are not declared unique.
PublishFailsIfGone(t) == ~Live(job[t])

\* ... and ends with all of its columns, rows and counts committed, or none.
PublishFails(t) == ~Live(job[t]) \/ Unseen(kids[t], job[t])

\* Mutant: the counts are left out of update_fields.
PublishWithoutCounts(t) ==
  /\ tpc[t] = "commit"
  /\ ~PublishFails(t)
  /\ status' = [status EXCEPT ![job[t]] = "ready"]
  /\ stored' = [stored EXCEPT ![job[t]] = t]
  /\ outcome' = [outcome EXCEPT ![t] = "ready"]
  /\ tpc' = [tpc EXCEPT ![t] = "hook"]
  /\ UNCHANGED <<counted, isPublic, file, reqVars, job, kids, hook>>

\* Mutant: the task catches every exception, and goes on to its event.
PublishFailureCaught(t) ==
  /\ tpc[t] = "commit"
  /\ tpc' = [tpc EXCEPT ![t] = "hook"]
  /\ IF PublishFails(t)
       THEN /\ outcome' = [outcome EXCEPT ![t] = "failed"]
            /\ UNCHANGED <<status, counted, stored>>
       ELSE /\ status' = [status EXCEPT ![job[t]] = "ready"]
            /\ counted' = [counted EXCEPT ![job[t]] = t]
            /\ stored' = [stored EXCEPT ![job[t]] = t]
            /\ outcome' = [outcome EXCEPT ![t] = "ready"]
  /\ UNCHANGED <<isPublic, file, reqVars, job, kids, hook>>

Publish(t) ==
  /\ tpc[t] = "commit"
  /\ IF PublishFails(t)
       THEN /\ tpc' = [tpc EXCEPT ![t] = "done"]
            /\ UNCHANGED <<status, counted, stored, outcome>>
       ELSE /\ status' = [status EXCEPT ![job[t]] = "ready"]
            /\ counted' = [counted EXCEPT ![job[t]] = t]
            /\ stored' = [stored EXCEPT ![job[t]] = t]
            /\ outcome' = [outcome EXCEPT ![t] = "ready"]
            /\ tpc' = [tpc EXCEPT ![t] = "hook"]
  /\ UNCHANGED <<isPublic, file, reqVars, job, kids, hook>>

\* send_webhook, if the dataset has an URL: the event goes by the in-memory
\* status, and delivery is best effort.
SendHook(t) ==
  /\ tpc[t] = "hook"
  /\ \/ hook' = [hook EXCEPT ![t] = outcome[t]]
     \/ UNCHANGED hook
  /\ tpc' = [tpc EXCEPT ![t] = "done"]
  /\ UNCHANGED <<dbVars, reqVars, job, outcome, kids>>

\* The message is lost, the worker stops (the message was acknowledged on
\* delivery), or its transaction is the victim of a deadlock (PublishTxn).
TaskDies(t) ==
  /\ "taskdies" \in Ops
  /\ tpc[t] \notin {"unused", "done"}
  /\ tpc' = [tpc EXCEPT ![t] = "done"]
  /\ UNCHANGED <<dbVars, reqVars, job, outcome, kids, hook>>

\* The broker hands a message out a second time.
Redeliver(t, u) ==
  /\ "redeliver" \in Ops
  /\ tpc[t] = "queued"
  /\ tpc[u] = "unused"
  /\ tpc' = [tpc EXCEPT ![u] = "queued"]
  /\ job' = [job EXCEPT ![u] = job[t]]
  /\ UNCHANGED <<dbVars, reqVars, outcome, kids, hook>>

------------------------------------------------------------------------------
Init ==
  /\ status = [d \in Dataset |-> "unborn"]
  /\ counted = [d \in Dataset |-> None]
  /\ isPublic = [d \in Dataset |-> FALSE]
  /\ stored = [d \in Dataset |-> None]
  /\ file = [d \in Dataset |-> NoFile]
  /\ rpc = [r \in Request |-> "idle"]
  /\ todo = [r \in Request |-> {}]
  /\ seen = [r \in Request |-> [status |-> "pending", counted |-> None]]
  /\ rkids = [r \in Request |-> None]
  /\ tpc = [t \in Task |-> "unused"]
  /\ job = [t \in Task |-> None]
  /\ outcome = [t \in Task |-> "none"]
  /\ kids = [t \in Task |-> None]
  /\ hook = [t \in Task |-> "none"]

\* What a request does once it arrived.
RequestStep(r) ==
  \/ RetryReject(r)
  \/ \E d \in Dataset :
       \/ RetrySave(r, d)
       \/ VisibilitySave(r, d)
       \/ Unlink(r, d)
       \/ DeleteChildren(r, d)
       \/ DeleteRow(r, d)
       \/ \E t \in Task : Delay(r, d, t)

TaskStep(t) ==
  \/ GetDataset(t)
  \/ ReadFile(t)
  \/ SaveFailure(t)
  \/ ClearOld(t)
  \/ Publish(t)
  \/ SendHook(t)

Arrival(r) ==
  \/ \E S \in SUBSET Dataset : Upload(r, S)
  \/ \E d \in Dataset, op \in Detail : GetObject(r, d, op)

Next ==
  \/ \E r \in Request : Arrival(r) \/ RequestStep(r) \/ RequestDies(r)
  \/ \E d \in Dataset : Edit(d)
  \/ \E t \in Task : TaskStep(t) \/ TaskDies(t)
  \/ \E t, u \in Task : Redeliver(t, u)

Spec == Init /\ [][Next]_vars

\* A request that arrived is served and a queued task is run, step by step.
FairSpec ==
  /\ Spec
  /\ \A r \in Request : WF_vars(RequestStep(r))
  /\ \A t \in Task : WF_vars(TaskStep(t))

------------------------------------------------------------------------------
\* Properties

\* Every variable holds values the code can give it; in particular the status
\* of a row is one of the three choices, which the database does not enforce,
\* and only a task that was queued has a dataset.
TypeOK ==
  /\ status \in [Dataset -> Statuses \cup {"unborn", "deleted"}]
  /\ counted \in [Dataset -> Attempt]
  /\ isPublic \in [Dataset -> BOOLEAN]
  /\ stored \in [Dataset -> Attempt]
  /\ file \in [Dataset -> Content \cup {NoFile}]
  /\ rpc \in [Request -> {"idle", "delay", "retry", "visibility", "destroy",
                          "clear", "commit", "done"}]
  /\ todo \in [Request -> SUBSET Dataset]
  /\ seen \in [Request -> Row]
  /\ rkids \in [Request -> Attempt]
  /\ tpc \in [Task -> {"unused", "queued", "read", "fail", "begin", "commit",
                       "hook", "done"}]
  /\ job \in [Task -> Dataset \cup {None}]
  /\ \A t \in Task : tpc[t] # "unused" => job[t] \in Dataset
  /\ outcome \in [Task -> {"none", "ready", "failed"}]
  /\ kids \in [Task -> Attempt]
  /\ hook \in [Task -> {"none", "ready", "failed"}]

\* Columns and rows never outlive their dataset, whichever of a deletion, an
\* ingestion and a visibility change overlap on it.
NoOrphanRows == \A d \in Dataset : stored[d] # None => Live(d)

\* The counts in the row of a dataset are those of the attempt whose columns
\* and rows readers are served, and a ready dataset has some, however many
\* attempts overlap or die half way.  Changes of visibility break this.
ReadyDescribesRows ==
  \A d \in Dataset :
    Live(d) => /\ counted[d] = stored[d]
               /\ status[d] = "ready" => stored[d] # None

\* A receiver told dataset.ready finds the rows there, as long as the dataset
\* itself is, although the event is sent after the transaction and the dataset
\* may be retried, ingested again or repaired in between.
ReadyAnnouncedIsReadable ==
  \A t \in Task :
    hook[t] = "ready" /\ Live(job[t]) => /\ stored[job[t]] # None
                                       /\ counted[job[t]] = stored[job[t]]

\* No late task, retry or duplicate brings a deleted dataset back: what they
\* save names the fields to update, and fails if the row is gone.
DeletedStaysDeleted ==
  [][\A d \in Dataset : status[d] = "deleted" => status'[d] = "deleted"]_vars

\* A deletion through the API leaves no file behind, wherever the process stops
\* ("without this, every upload-then-delete cycle leaks a file", views.py).
NoLeakedFile == \A d \in Dataset : status[d] = "deleted" => file[d] = NoFile

\* While nobody replaces its file, a ready dataset never turns pending or
\* failed again: no retry, duplicate, crash or late task takes it back.
ReadyIsFinal ==
  [][\A d \in Dataset :
       status[d] = "ready" => status'[d] \in {"ready", "deleted"}]_vars

\* While nobody replaces its file, all events about a dataset say the same,
\* however many attempts it takes and in whatever order they are delivered:
\* the order in which overlapping attempts send them does not matter.
EventsAgree ==
  \A t, u \in Task :
    job[t] = job[u] /\ "none" \notin {hook[t], hook[u]} => hook[t] = hook[u]

\* "A pending one is already queued" (README.md): the message of a pending
\* dataset is about to be sent or waits, or an attempt is under way that can
\* still settle it.
Settles(t, d) ==
  /\ job[t] = d
  /\ \/ tpc[t] \in {"queued", "read", "fail", "begin"}
     \/ tpc[t] = "commit" /\ ~Unseen(kids[t], d)

PendingIsQueued ==
  \A d \in Dataset :
    status[d] = "pending" =>
      \/ \E r \in Request : rpc[r] = "delay" /\ d \in todo[r]
      \/ \E t \in Task : Settles(t, d)

\* With nothing failing, a pending dataset is settled: clients poll for it.
PendingResolves ==
  \A d \in Dataset :
    (status[d] = "pending") ~> (status[d] \in {"ready", "failed", "deleted"})

\* "Only is_public is writable through this endpoint" (README.md).
VisibilityWritesOnlyIsPublic ==
  [][\A r \in Request, d \in Dataset :
       VisibilitySave(r, d) => UNCHANGED <<status, counted>>]_vars

\* A retry is "rejected with 400 for any dataset that isn't currently failed"
\* (README.md): one that goes through is one of a failed dataset.
OnlyFailedIsRetried ==
  [][\A r \in Request :
       rpc[r] = "retry" /\ rpc'[r] = "delay" =>
         \A d \in todo[r] : status[d] = "failed"]_vars

\* source_file is "kept around so the async ingestion task has something to
\* read from" (models.py), unless a deletion of the dataset is under way.
SourceFileKept ==
  \A d \in Dataset :
    Live(d) => \/ file[d] # NoFile
               \/ \E r \in Request : rpc[r] \in {"clear", "commit"} /\ d \in todo[r]

==============================================================================
