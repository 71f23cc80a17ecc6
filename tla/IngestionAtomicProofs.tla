------------------------ MODULE IngestionAtomicProofs ------------------------
(***************************************************************************)
(* The transactions of Ingestion are those of AtomicPublish, for every set *)
(* of datasets, tasks and requests.                                        *)
(***************************************************************************)
EXTENDS IngestionAtomic, IngestionProofs

\* The history variable changes nothing to what Ingestion does.
LEMMA FateIsHistory == FateSpec => Spec
<1>1. FateInit => Init
  BY DEF FateInit
<1>2. [FateNext]_fateVars => [Next]_vars
  BY DEF FateNext, fateVars
<1> QED
  BY <1>1, <1>2, PTL DEF FateSpec, Spec

------------------------------------------------------------------------------
\* Datasets that requests and tasks deal with exist, or did.
BornInv ==
  /\ \A r \in Request : \A d \in todo[r] : status[d] # "unborn"
  /\ \A t \in Task : tpc[t] # "unused" => status[job[t]] # "unborn"

LEMMA NeverUnborn ==
  ASSUME TypeOK, [Next]_vars, NEW d \in Dataset, status[d] # "unborn"
  PROVE  status'[d] # "unborn"
<1> USE DEF TypeOK, Statuses
<1>1. ASSUME NEW r \in Request, NEW S \in SUBSET Dataset, Upload(r, S)
      PROVE  status'[d] # "unborn"
  BY <1>1 DEF Upload
<1>2. ASSUME NEW r \in Request, NEW e \in Dataset,
             RetrySave(r, e) \/ VisibilitySave(r, e) \/ DeleteRow(r, e)
      PROVE  status'[d] # "unborn"
  BY <1>2 DEF RetrySave, VisibilitySave, DeleteRow, Row
<1>3. ASSUME NEW t \in Task, SaveFailure(t) \/ Publish(t)
      PROVE  status'[d] # "unborn"
  BY <1>3 DEF SaveFailure, Publish
<1>4. CASE UNCHANGED status
  BY <1>4
<1> QED
  BY <1>1, <1>2, <1>3, <1>4 DEF Next, Arrival, RequestStep, TaskStep, GetObject,
     RetryReject, RequestDies, Unlink, DeleteChildren, Delay, Edit, GetDataset,
     ReadFile, ClearOld, SendHook, TaskDies, Redeliver, vars, dbVars

LEMMA Born == Spec => []BornInv
<1>1. Init => BornInv
  BY DEF Init, BornInv
<1>2. TypeOK /\ BornInv /\ [Next]_vars => BornInv'
  <2> SUFFICES ASSUME TypeOK, BornInv, [Next]_vars PROVE BornInv'
    OBVIOUS
  <2>0. \A d \in Dataset : status[d] # "unborn" => status'[d] # "unborn"
    BY NeverUnborn
  <2> USE <2>0 DEF TypeOK, BornInv
  <2>1. ASSUME NEW r \in Request, NEW S \in SUBSET Dataset, Upload(r, S)
        PROVE  BornInv'
    BY <2>1 DEF Upload, taskVars
  <2>2. ASSUME NEW r \in Request, NEW d \in Dataset, NEW op \in Detail,
               GetObject(r, d, op)
        PROVE  BornInv'
    BY <2>2 DEF GetObject, Live, Statuses, taskVars
  <2>3. ASSUME NEW r \in Request, NEW d \in Dataset, NEW t \in Task,
               Delay(r, d, t)
        PROVE  BornInv'
    BY <2>3 DEF Delay
  <2>4. ASSUME NEW t \in Task, TaskStep(t) \/ TaskDies(t)
        PROVE  BornInv'
    BY <2>4 DEF TaskStep, GetDataset, ReadFile, AfterReading, SaveFailure,
       ClearOld, Publish, SendHook, TaskDies, reqVars
  <2>5. ASSUME NEW t \in Task, NEW u \in Task, Redeliver(t, u)
        PROVE  BornInv'
    BY <2>5 DEF Redeliver, reqVars
  <2>6. CASE UNCHANGED <<todo, tpc, job>>
    BY <2>6
  <2> QED
    BY <2>1, <2>2, <2>3, <2>4, <2>5, <2>6 DEF Next, Arrival, RequestStep,
       RetryReject, RetrySave, VisibilitySave, Unlink, DeleteChildren, DeleteRow,
       RequestDies, Edit, vars, reqVars, taskVars
<1> QED
  BY <1>1, <1>2, TypeCorrect, PTL DEF Spec

------------------------------------------------------------------------------
\* What the definition of fate says of each step.
LEMMA TaskFates ==
  ASSUME NEW t \in Task, TypeOK
  PROVE  /\ ClearOld(t) => TaskFate(t) = "active"
         /\ Publish(t) =>
              TaskFate(t) = IF PublishFails(t) THEN "failed" ELSE "committed"
         /\ TaskDies(t) /\ tpc[t] = "commit" =>
              \/ TaskFate(t) = "died"
              \/ TaskFate(t) = "failed" /\ PublishFails(t)
         /\ tpc[t] # "commit" /\ tpc'[t] # "commit" => TaskFate(t) = fate[t]
         /\ tpc'[t] = tpc[t] => TaskFate(t) = fate[t]
<1>1. ClearOld(t) => tpc[t] = "begin" /\ tpc'[t] = "commit"
  BY DEF ClearOld, TypeOK
<1>2. Publish(t) =>
        /\ tpc[t] = "commit"
        /\ tpc'[t] = IF PublishFails(t) THEN "done" ELSE "hook"
  BY DEF Publish, TypeOK
<1>3. TaskDies(t) => tpc'[t] = "done"
  BY DEF TaskDies, TypeOK
<1> QED
  BY <1>1, <1>2, <1>3 DEF TaskFate

LEMMA RequestFates ==
  ASSUME NEW r \in Request, TypeOK
  PROVE  /\ \A d \in Dataset : DeleteChildren(r, d) => RequestFate(r) = "active"
         /\ \A d \in Dataset : DeleteRow(r, d) /\ todo[r] = {d} =>
              RequestFate(r) =
                IF Live(d) /\ Unseen(rkids[r], d) THEN "failed" ELSE "committed"
         /\ \A d \in Dataset :
              RequestDies(r) /\ rpc[r] = "commit" /\ todo[r] = {d} =>
                \/ RequestFate(r) = "died"
                \/ RequestFate(r) = "failed" /\ Live(d) /\ Unseen(rkids[r], d)
                \/ RequestFate(r) = "committed" /\ ~Live(d)
         /\ rpc[r] # "commit" /\ rpc'[r] # "commit" => RequestFate(r) = fate[r]
         /\ rpc'[r] = rpc[r] => RequestFate(r) = fate[r]
<1>1. \A d \in Dataset : DeleteChildren(r, d) => rpc[r] = "clear" /\ rpc'[r] = "commit"
  BY DEF DeleteChildren, TypeOK
<1>2. \A d \in Dataset :
        DeleteRow(r, d) => d \in todo[r] /\ rpc[r] = "commit" /\ rpc'[r] = "done"
  BY DEF DeleteRow, TypeOK
<1>3. RequestDies(r) => rpc'[r] = "done" /\ rpc[r] # "done" /\ status' = status
  BY DEF RequestDies, TypeOK, dbVars
<1>4. \A d \in Dataset :
        RequestDies(r) /\ DeleteRow(r, d) => ~Live(d) \/ Unseen(rkids[r], d)
  BY <1>3 DEF DeleteRow, TypeOK, Live, Statuses
<1> QED
  BY <1>1, <1>2, <1>3, <1>4 DEF RequestFate

------------------------------------------------------------------------------
\* A transaction is active exactly between the step that begins it and the one
\* that ends it, and a process that began one keeps to its dataset.
Fates == {"idle", "active", "committed", "failed", "died"}

TaskFateOK(t) ==
  /\ tpc[t] = "commit" <=> fate[t] = "active"
  /\ fate[t] # "idle" => tpc[t] \in {"commit", "hook", "done"}
  /\ outcome[t] = "ready" => fate[t] = "committed"

RequestFateOK(r) ==
  /\ rpc[r] = "commit" <=> fate[r] = "active"
  /\ fate[r] # "idle" => rpc[r] \in {"commit", "done"}
  /\ rpc[r] \in Detail \cup {"clear"} \/ fate[r] # "idle" =>
       \E d \in Dataset : todo[r] = {d}

FateInv ==
  /\ fate \in [Process -> Fates]
  /\ \A t \in Task : TaskFateOK(t)
  /\ \A r \in Request : RequestFateOK(r)

\* A step leaves the transaction of x, and what it is about, as they were.
Kept(x) ==
  /\ fate'[x] = fate[x]
  /\ IF x \in Task
       THEN fate[x] = "idle" \/ (job'[x] = job[x] /\ kids'[x] = kids[x])
       ELSE fate[x] = "idle" \/ (todo'[x] = todo[x] /\ rkids'[x] = rkids[x])

LEMMA KeptState ==
  ASSUME NEW x \in Process, Kept(x)
  PROVE  TxnState(x)' = TxnState(x) /\ TxnKids(x)' = TxnKids(x)
BY DEF Kept, TxnState, TxnKids, Concerned

LEMMA FateOf ==
  ASSUME FateNext
  PROVE  /\ \A t \in Task : fate'[t] = TaskFate(t)
         /\ \A r \in Request : fate'[r] = RequestFate(r)
         /\ DOMAIN fate' = Process
BY ChosenAssumption DEF FateNext, Process

\* A step that begins or ends no transaction keeps them all, ...
LEMMA TasksKept ==
  ASSUME TypeOK, FateInv, FateNext,
         \A t \in Task : \/ tpc[t] # "commit" /\ tpc'[t] # "commit"
                         \/ tpc'[t] = tpc[t],
         \A t \in Task : tpc[t] # "unused" => job'[t] = job[t] /\ kids'[t] = kids[t]
  PROVE  \A t \in Task : Kept(t)
BY TaskFates, FateOf DEF Kept, FateInv, TaskFateOK

LEMMA RequestsKept ==
  ASSUME TypeOK, FateInv, FateNext,
         \A r \in Request : \/ rpc[r] # "commit" /\ rpc'[r] # "commit"
                            \/ rpc'[r] = rpc[r],
         \A r \in Request :
           rpc[r] \in {"commit", "done"} => todo'[r] = todo[r] /\ rkids'[r] = rkids[r]
  PROVE  \A r \in Request : Kept(r)
BY RequestFates, FateOf, ChosenAssumption DEF Kept, FateInv, RequestFateOK

------------------------------------------------------------------------------
LEMMA FateInitially == FateInit => FateInv
BY ChosenAssumption
   DEF FateInit, Init, FateInv, TaskFateOK, RequestFateOK, Fates, Process, Detail

LEMMA FateInductive ==
  ASSUME TypeOK, TypeOK', FateInv, FateNext
  PROVE  FateInv'
<1>0. Next
  BY DEF FateNext
<1>1. fate' \in [Process -> Fates]
  BY FateOf, ChosenAssumption
     DEF FateNext, FateInv, Fates, Process, TaskFate, RequestFate
<1>2. (\A t \in Task : UNCHANGED <<tpc[t], outcome[t]>>) => \A t \in Task : TaskFateOK(t)'
  BY TaskFates, FateOf DEF FateInv, TaskFateOK
<1>3. UNCHANGED <<rpc, todo>> => \A r \in Request : RequestFateOK(r)'
  BY RequestFates, FateOf DEF FateInv, RequestFateOK
<1>4. ASSUME NEW t \in Task, TaskStep(t) \/ TaskDies(t)
      PROVE  FateInv'
  <2>1. UNCHANGED <<rpc, todo>>
    BY <1>4 DEF TaskStep, GetDataset, ReadFile, SaveFailure, ClearOld, Publish,
       SendHook, TaskDies, reqVars
  <2>2. \A u \in Task \ {t} : tpc'[u] = tpc[u] /\ outcome'[u] = outcome[u]
    BY <1>4 DEF TaskStep, GetDataset, ReadFile, SaveFailure, ClearOld, Publish,
       SendHook, TaskDies, TypeOK
  <2>3. \A u \in Task \ {t} : TaskFateOK(u)'
    BY <2>2, TaskFates, FateOf DEF FateInv, TaskFateOK
  <2>4. TaskFateOK(t)'
    <3>0. /\ TaskFateOK(t)
          /\ fate'[t] = TaskFate(t)
          /\ tpc[t] # "commit" /\ tpc'[t] # "commit" => fate'[t] = fate[t]
      BY TaskFates, FateOf DEF FateInv
    <3> USE <3>0, TaskFates DEF TypeOK, TaskFateOK
    <3>1. CASE GetDataset(t) \/ ReadFile(t)
      <4>1. /\ tpc[t] \in {"queued", "read"} /\ outcome' = outcome
            /\ tpc'[t] \in {"read", "begin", "fail", "done"}
        BY <3>1 DEF GetDataset, ReadFile, AfterReading
      <4> QED
        BY <4>1
    <3>2. CASE SaveFailure(t)
      BY <3>2 DEF SaveFailure
    <3>3. CASE ClearOld(t)
      BY <3>3 DEF ClearOld
    <3>4. CASE Publish(t)
      BY <3>4 DEF Publish
    <3>5. CASE SendHook(t)
      BY <3>5 DEF SendHook
    <3>6. CASE TaskDies(t)
      <4>1. tpc'[t] = "done" /\ outcome' = outcome
        BY <3>6 DEF TaskDies
      <4>2. tpc[t] = "commit" => fate'[t] \in {"died", "failed"}
        BY <3>6
      <4> QED
        BY <4>1, <4>2
    <3> QED
      BY <1>4, <3>1, <3>2, <3>3, <3>4, <3>5, <3>6 DEF TaskStep
  <2> QED
    BY <1>1, <1>3, <2>1, <2>3, <2>4 DEF FateInv
<1>5. ASSUME NEW t \in Task, NEW u \in Task, Redeliver(t, u)
      PROVE  FateInv'
  <2>1. UNCHANGED <<rpc, todo, outcome>> /\ tpc' = [tpc EXCEPT ![u] = "queued"]
    BY <1>5 DEF Redeliver, reqVars
  <2>2. \A x \in Task : TaskFateOK(x)'
    BY <1>5, <2>1, TaskFates, FateOf DEF Redeliver, TypeOK, FateInv, TaskFateOK
  <2> QED
    BY <1>1, <1>3, <2>1, <2>2 DEF FateInv
<1>6. ASSUME NEW d \in Dataset, Edit(d)
      PROVE  FateInv'
  BY <1>1, <1>2, <1>3, <1>6 DEF Edit, reqVars, taskVars, FateInv
<1>7. ASSUME NEW r \in Request, Arrival(r) \/ RequestStep(r) \/ RequestDies(r)
      PROVE  FateInv'
  <2>1. \A t \in Task : TaskFateOK(t)'
    <3>1. ASSUME NEW d \in Dataset, NEW t \in Task, Delay(r, d, t)
          PROVE  \A x \in Task : TaskFateOK(x)'
      BY <3>1, TaskFates, FateOf DEF Delay, TypeOK, FateInv, TaskFateOK
    <3>2. CASE UNCHANGED taskVars
      BY <1>2, <3>2 DEF taskVars
    <3> QED
      BY <1>7, <3>1, <3>2 DEF Arrival, Upload, GetObject, RequestStep, RetryReject,
         RetrySave, VisibilitySave, Unlink, DeleteChildren, DeleteRow, RequestDies
  <2>2. \A q \in Request \ {r} : rpc'[q] = rpc[q] /\ todo'[q] = todo[q]
    BY <1>7 DEF Arrival, Upload, GetObject, RequestStep, RetryReject, RetrySave,
       VisibilitySave, Unlink, DeleteChildren, DeleteRow, Delay, RequestDies, TypeOK
  <2>3. \A q \in Request \ {r} : RequestFateOK(q)'
    BY <2>2, RequestFates, FateOf DEF FateInv, RequestFateOK
  <2>4. RequestFateOK(r)'
    <3>0. /\ RequestFateOK(r)
          /\ rpc[r] # "commit" /\ rpc'[r] # "commit" => fate'[r] = fate[r]
      BY RequestFates, FateOf DEF FateInv
    <3> USE <3>0 DEF TypeOK, RequestFateOK
    <3>1. CASE \E S \in SUBSET Dataset : Upload(r, S)
      BY <3>1 DEF Upload, Detail
    <3>2. CASE \E d \in Dataset, op \in Detail : GetObject(r, d, op)
      BY <3>2 DEF GetObject, FirstStep, Detail
    <3>3. CASE RetryReject(r)
      BY <3>3 DEF RetryReject, Detail
    <3>4. CASE \E d \in Dataset : RetrySave(r, d) \/ VisibilitySave(r, d) \/ Unlink(r, d)
      BY <3>4 DEF RetrySave, VisibilitySave, Unlink, Detail
    <3>5. CASE \E d \in Dataset : DeleteChildren(r, d)
      <4>1. PICK d \in Dataset : DeleteChildren(r, d)
        BY <3>5
      <4>2. rpc[r] = "clear" /\ rpc'[r] = "commit" /\ todo'[r] = todo[r]
        BY <4>1 DEF DeleteChildren
      <4>3. fate'[r] = "active"
        BY <4>1, RequestFates, FateOf
      <4> QED
        BY <4>2, <4>3 DEF Detail
    <3>6. CASE \E d \in Dataset : DeleteRow(r, d)
      <4>1. PICK d \in Dataset : DeleteRow(r, d)
        BY <3>6
      <4>2. /\ rpc[r] = "commit" /\ d \in todo[r] /\ todo'[r] = todo[r]
            /\ rpc'[r] = "done"
        BY <4>1 DEF DeleteRow
      <4>3. todo[r] = {d}
        BY <4>2
      <4>4. fate'[r] \in {"failed", "committed"}
        BY <4>1, <4>3, RequestFates, FateOf
      <4> QED
        BY <4>2, <4>3, <4>4 DEF Detail
    <3>7. CASE \E d \in Dataset, t \in Task : Delay(r, d, t)
      BY <3>7 DEF Delay, Detail
    <3>8. CASE RequestDies(r)
      <4>1. rpc'[r] = "done" /\ todo'[r] = todo[r]
        BY <3>8 DEF RequestDies
      <4>2. rpc[r] = "commit" => \E d \in Dataset : todo[r] = {d}
        OBVIOUS
      <4>3. rpc[r] = "commit" => fate'[r] \in {"died", "failed", "committed"}
        BY <3>8, <4>2, RequestFates, FateOf
      <4> QED
        BY <4>1, <4>2, <4>3 DEF Detail
    <3> QED
      BY <1>7, <3>1, <3>2, <3>3, <3>4, <3>5, <3>6, <3>7, <3>8 DEF Arrival, RequestStep
  <2> QED
    BY <1>1, <2>1, <2>3, <2>4 DEF FateInv
<1> QED
  BY <1>0, <1>4, <1>5, <1>6, <1>7 DEF Next

LEMMA FateInvariant == FateSpec => [](TypeOK /\ BornInv /\ FateInv)
<1>1. TypeOK /\ TypeOK' /\ FateInv /\ [FateNext]_fateVars => FateInv'
  <2>1. CASE UNCHANGED fateVars
    BY <2>1 DEF fateVars, vars, reqVars, taskVars, FateInv, TaskFateOK, RequestFateOK
  <2> QED
    BY <2>1, FateInductive
<1> QED
  BY <1>1, FateInitially, FateIsHistory, TypeCorrect, Born, PTL DEF FateSpec

------------------------------------------------------------------------------
\* Each step is one of AtomicPublish, or none.
Maps == Atomic!Next \/ UNCHANGED Atomic!absVars

LEMMA Moves ==
  ASSUME NEW x \in Process, \A y \in Process \ {x} : Kept(y)
  PROVE  /\ [y \in Process |-> TxnState(y)]' =
              [[y \in Process |-> TxnState(y)] EXCEPT ![x] = TxnState(x)']
         /\ [y \in Process |-> TxnKids(y)]' =
              [[y \in Process |-> TxnKids(y)] EXCEPT ![x] = TxnKids(x)']
BY KeptState

\* ... if it begins or ends no transaction,
LEMMA QuietMaps ==
  ASSUME \A x \in Process : Kept(x), stored'[Chosen] = stored[Chosen],
         (status'[Chosen] # "deleted") = (status[Chosen] # "deleted")
  PROVE  Maps
<1>1. UNCHANGED Atomic!absVars
  BY KeptState DEF Atomic!absVars
<1> QED
  BY <1>1 DEF Maps

\* ... if it begins one,
LEMMA BeginMaps ==
  ASSUME NEW x \in Process, \A y \in Process \ {x} : Kept(y),
         UNCHANGED <<stored, status>>, fate[x] = "idle", fate'[x] = "active",
         Concerned(x)' => TxnKids(x)' = stored[Chosen]
  PROVE  Maps
<1>1. CASE Concerned(x)'
  <2>1. Atomic!Begin(x)
    BY <1>1, Moves DEF Atomic!Begin, TxnState, Concerned
  <2> QED
    BY <2>1 DEF Maps, Atomic!Next, Process
<1>2. CASE ~Concerned(x)'
  <2>1. TxnState(x)' = TxnState(x) /\ TxnKids(x)' = TxnKids(x)
    BY <1>2 DEF TxnState, TxnKids, Concerned
  <2>2. UNCHANGED Atomic!absVars
    BY <2>1, KeptState DEF Atomic!absVars
  <2> QED
    BY <2>2 DEF Maps
<1> QED
  BY <1>1, <1>2

\* ... or if it ends one: on another dataset, ...
LEMMA ElsewhereMaps ==
  ASSUME NEW x \in Process, \A y \in Process \ {x} : Kept(y),
         ~Concerned(x), ~Concerned(x)', stored'[Chosen] = stored[Chosen],
         status'[Chosen] = status[Chosen]
  PROVE  Maps
<1>1. UNCHANGED Atomic!absVars
  BY KeptState DEF Atomic!absVars, TxnState, TxnKids
<1> QED
  BY <1>1 DEF Maps

\* ... or on the dataset chosen.
LEMMA EndMaps ==
  ASSUME NEW x \in Process, \A y \in Process \ {x} : Kept(y), fate[x] = "active",
         Concerned(x), Concerned(x)', TxnKids(x)' = TxnKids(x),
         \/ /\ fate'[x] = "died"
            /\ UNCHANGED <<stored, status>>
         \/ /\ fate'[x] = "failed"
            /\ UNCHANGED <<stored, status>>
            /\ \/ stored[Chosen] \notin {TxnKids(x), None}
               \/ x \in Task /\ status[Chosen] = "deleted"
         \/ /\ x \in Task /\ fate'[x] = "committed"
            /\ "deleted" \notin {status[Chosen], status'[Chosen]}
            /\ stored[Chosen] \in {TxnKids(x), None} /\ stored'[Chosen] = x
         \/ /\ x \in Request /\ fate'[x] = "committed"
            /\ status[Chosen] # "deleted" => stored[Chosen] \in {TxnKids(x), None}
            /\ stored'[Chosen] = None /\ status'[Chosen] = "deleted"
  PROVE  Maps
<1>1. TxnState(x) = "active" /\ TxnState(x)' = fate'[x]
  BY DEF TxnState
<1>2. [y \in Process |-> TxnState(y)][x] = "active"
  BY <1>1
<1>3. [y \in Process |-> TxnKids(y)]' = [y \in Process |-> TxnKids(y)]
  BY KeptState
<1>4. \/ Atomic!Die(x) \/ Atomic!Fail(x)
      \/ Atomic!CommitIngest(x) \/ Atomic!CommitDestroy(x)
  BY <1>1, <1>2, <1>3, Moves DEF Atomic!Die, Atomic!Fail, Atomic!CommitIngest,
     Atomic!CommitDestroy, Atomic!Unseen
<1> QED
  BY <1>4 DEF Maps, Atomic!Next, Process

LEMMA TaskMaps ==
  ASSUME TypeOK, BornInv, FateInv, FateNext, NEW t \in Task, TaskStep(t) \/ TaskDies(t)
  PROVE  Maps
<1> USE DEF TypeOK
<1>1. /\ UNCHANGED reqVars
      /\ \A u \in Task \ {t} : /\ tpc'[u] = tpc[u]
                               /\ job'[u] = job[u] /\ kids'[u] = kids[u]
      /\ job' = job
  BY DEF TaskStep, GetDataset, ReadFile, SaveFailure, ClearOld, Publish, SendHook,
     TaskDies
<1>2. \A x \in Process \ {t} : Kept(x)
  BY <1>1, TaskFates, RequestFates, FateOf, ChosenAssumption DEF Kept, Process, reqVars
<1>3. /\ t \in Process /\ TaskFateOK(t) /\ fate'[t] = TaskFate(t)
      /\ tpc[t] # "unused" => job[t] \in Dataset /\ status[job[t]] # "unborn"
  BY FateOf DEF FateInv, BornInv, Process
<1>4. CASE tpc[t] # "commit" /\ tpc'[t] # "commit"
  <2>1. fate'[t] = fate[t]
    BY <1>3, <1>4, TaskFates
  <2>2. kids' = kids /\ stored' = stored
    BY <1>4 DEF TaskStep, GetDataset, ReadFile, SaveFailure, ClearOld, Publish, SendHook,
       TaskDies, dbVars
  <2>3. Kept(t)
    BY <1>1, <2>1, <2>2 DEF Kept
  <2>4. \A d \in Dataset : (status'[d] # "deleted") = (status[d] # "deleted")
    BY <1>4 DEF TaskStep, GetDataset, ReadFile, SaveFailure, ClearOld, Publish, SendHook,
       TaskDies, dbVars, Live, Statuses
  <2> QED
    BY <1>2, <2>2, <2>3, <2>4, QuietMaps, ChosenAssumption
<1>5. CASE ClearOld(t)
  <2>1. /\ tpc[t] = "begin" /\ UNCHANGED <<stored, status>>
        /\ kids'[t] = stored[job[t]]
    BY <1>5 DEF ClearOld, dbVars
  <2>2. fate[t] = "idle" /\ fate'[t] = "active"
    BY <1>3, <1>5, <2>1, TaskFates DEF TaskFateOK
  <2>3. Concerned(t)' => TxnKids(t)' = stored[Chosen]
    BY <1>1, <2>1 DEF Concerned, TxnKids
  <2> QED
    BY <1>2, <1>3, <2>1, <2>2, <2>3, BeginMaps
<1>6. CASE Publish(t) \/ (TaskDies(t) /\ tpc[t] = "commit")
  <2>1. /\ tpc[t] = "commit" /\ fate[t] = "active" /\ kids' = kids
        /\ fate'[t] # "idle"
    BY <1>3, <1>6, TaskFates DEF TaskFateOK, Publish, TaskDies
  <2>2. CASE job[t] # Chosen
    <3>1. ~Concerned(t) /\ ~Concerned(t)'
      BY <1>1, <2>2 DEF Concerned
    <3>2. stored'[Chosen] = stored[Chosen] /\ status'[Chosen] = status[Chosen]
      BY <1>6, <2>2, ChosenAssumption DEF Publish, TaskDies, dbVars
    <3> QED
      BY <1>2, <1>3, <3>1, <3>2, ElsewhereMaps
  <2>3. CASE job[t] = Chosen
    <3>1. Concerned(t) /\ Concerned(t)' /\ TxnKids(t) = kids[t] /\ TxnKids(t)' = TxnKids(t)
      BY <1>1, <2>1, <2>3 DEF Concerned, TxnKids
    <3>2. PublishFails(t) =>
            \/ stored[Chosen] \notin {TxnKids(t), None}
            \/ status[Chosen] = "deleted"
      BY <1>3, <2>1, <2>3, <3>1 DEF PublishFails, Unseen, Live, Statuses
    <3>3. CASE TaskDies(t)
      <4>1. UNCHANGED <<stored, status>>
        BY <3>3 DEF TaskDies, dbVars
      <4>2. \/ fate'[t] = "died"
            \/ fate'[t] = "failed" /\ PublishFails(t)
        BY <1>3, <2>1, <3>3, TaskFates
      <4> QED
        BY <1>2, <1>3, <2>1, <3>1, <3>2, <4>1, <4>2, EndMaps
    <3>4. CASE Publish(t) /\ PublishFails(t)
      <4>1. UNCHANGED <<stored, status>> /\ fate'[t] = "failed"
        BY <1>3, <3>4, TaskFates DEF Publish
      <4> QED
        BY <1>2, <1>3, <2>1, <3>1, <3>2, <3>4, <4>1, EndMaps
    <3>5. CASE Publish(t) /\ ~PublishFails(t)
      <4>1. fate'[t] = "committed"
        BY <1>3, <3>5, TaskFates
      <4>2. "deleted" \notin {status[Chosen], status'[Chosen]}
        BY <2>3, <3>5, ChosenAssumption DEF Publish, PublishFails, Live, Statuses
      <4>3. stored[Chosen] \in {TxnKids(t), None} /\ stored'[Chosen] = t
        BY <2>3, <3>1, <3>5, ChosenAssumption DEF Publish, PublishFails, Unseen
      <4> QED
        BY <1>2, <1>3, <2>1, <3>1, <4>1, <4>2, <4>3, EndMaps
    <3> QED
      BY <1>6, <3>3, <3>4, <3>5
  <2> QED
    BY <2>2, <2>3
<1> QED
  BY <1>4, <1>5, <1>6 DEF TaskStep, GetDataset, ReadFile, AfterReading, SaveFailure,
     SendHook, TaskDies

LEMMA RequestMaps ==
  ASSUME TypeOK, NoOrphanRows, NoFullSave, BornInv, FateInv, FateNext,
         NEW r \in Request, Arrival(r) \/ RequestStep(r) \/ RequestDies(r)
  PROVE  Maps
<1> USE DEF TypeOK
<1>1. /\ kids' = kids
      /\ \A t \in Task : /\ tpc[t] # "unused" => tpc'[t] = tpc[t] /\ job'[t] = job[t]
                         /\ tpc'[t] # "commit" \/ tpc'[t] = tpc[t]
      /\ \A q \in Request \ {r} : /\ rpc'[q] = rpc[q]
                                  /\ todo'[q] = todo[q] /\ rkids'[q] = rkids[q]
  BY DEF Arrival, Upload, GetObject, RequestStep, RetryReject, RetrySave, VisibilitySave,
     Unlink, DeleteChildren, DeleteRow, Delay, RequestDies, taskVars
<1>2. \A x \in Process \ {r} : Kept(x)
  <2>1. \A t \in Task : Kept(t)
    BY <1>1, TasksKept
  <2>2. \A q \in Request \ {r} : Kept(q)
    BY <1>1, RequestFates, FateOf, ChosenAssumption DEF Kept
  <2> QED
    BY <2>1, <2>2 DEF Process
<1>3. /\ r \in Process /\ r \notin Task /\ RequestFateOK(r)
      /\ fate'[r] = RequestFate(r)
      /\ \A d \in todo[r] : status[d] # "unborn"
  BY FateOf, ChosenAssumption DEF FateInv, BornInv, Process
<1>4. CASE rpc[r] # "commit" /\ rpc'[r] # "commit"
  <2>1. fate'[r] = fate[r]
    BY <1>3, <1>4, RequestFates
  <2>2. stored' = stored
    BY <1>4 DEF Arrival, Upload, GetObject, RequestStep, RetryReject, RetrySave,
       VisibilitySave, Unlink, DeleteChildren, DeleteRow, Delay, RequestDies, dbVars
  <2>3. Kept(r)
    BY <1>3, <1>4, <2>1 DEF Kept, RequestFateOK, Arrival, Upload, GetObject, RequestStep,
       RetryReject, RetrySave, VisibilitySave, Unlink, DeleteChildren, DeleteRow, Delay,
       RequestDies
  <2>4. (status'[Chosen] # "deleted") = (status[Chosen] # "deleted")
    BY <1>4, ChosenAssumption DEF NoFullSave, Arrival, Upload, GetObject, RequestStep,
       RetryReject, RetrySave, VisibilitySave, Unlink, DeleteChildren, DeleteRow, Delay,
       RequestDies, dbVars, Live, Statuses
  <2> QED
    BY <1>2, <2>2, <2>3, <2>4, QuietMaps
<1>5. CASE \E d \in Dataset : DeleteChildren(r, d)
  <2>1. PICK d \in Dataset : DeleteChildren(r, d)
    BY <1>5
  <2>2. /\ rpc[r] = "clear" /\ d \in todo[r] /\ UNCHANGED <<stored, status, todo>>
        /\ rkids'[r] = stored[d]
    BY <2>1 DEF DeleteChildren, dbVars
  <2>3. fate[r] = "idle" /\ fate'[r] = "active" /\ todo[r] = {d}
    BY <1>3, <2>1, <2>2, RequestFates DEF RequestFateOK
  <2>4. Concerned(r)' => TxnKids(r)' = stored[Chosen]
    BY <1>3, <2>2, <2>3 DEF Concerned, TxnKids
  <2> QED
    BY <1>2, <1>3, <2>2, <2>3, <2>4, BeginMaps
<1>6. CASE /\ rpc[r] = "commit"
           /\ RequestDies(r) \/ \E d \in Dataset : DeleteRow(r, d)
  <2>1. fate[r] = "active" /\ UNCHANGED <<todo, rkids>>
    BY <1>3, <1>6 DEF RequestFateOK, RequestDies, DeleteRow
  <2>2. PICK d \in Dataset : todo[r] = {d}
    BY <1>3, <2>1 DEF RequestFateOK
  <2>3. RequestDies(r) \/ DeleteRow(r, d)
    BY <1>6, <2>2 DEF DeleteRow
  <2>4. fate'[r] # "idle"
    BY <1>3, <1>6, <2>2, <2>3, RequestFates
  <2>5. CASE d # Chosen
    <3>1. ~Concerned(r) /\ ~Concerned(r)'
      BY <1>3, <2>1, <2>2, <2>5 DEF Concerned
    <3>2. stored'[Chosen] = stored[Chosen] /\ status'[Chosen] = status[Chosen]
      BY <2>3, <2>5, ChosenAssumption DEF DeleteRow, RequestDies, dbVars
    <3> QED
      BY <1>2, <1>3, <3>1, <3>2, ElsewhereMaps
  <2>6. CASE d = Chosen
    <3>1. Concerned(r) /\ Concerned(r)' /\ TxnKids(r) = rkids[r] /\ TxnKids(r)' = TxnKids(r)
      BY <1>3, <2>1, <2>2, <2>4, <2>6 DEF Concerned, TxnKids
    <3>2. Live(Chosen) <=> status[Chosen] # "deleted"
      BY <1>3, <2>2, <2>6, ChosenAssumption DEF Live, Statuses
    <3>3. ~Live(Chosen) => stored[Chosen] = None /\ status[Chosen] = "deleted"
      BY <3>2, ChosenAssumption DEF NoOrphanRows
    <3>4. CASE RequestDies(r)
      <4>1. UNCHANGED <<stored, status>>
        BY <3>4 DEF RequestDies, dbVars
      <4>2. \/ fate'[r] = "died"
            \/ fate'[r] = "failed" /\ Unseen(rkids[r], Chosen)
            \/ fate'[r] = "committed" /\ ~Live(Chosen)
        BY <1>3, <1>6, <2>2, <2>6, <3>4, RequestFates
      <4> QED
        BY <1>2, <1>3, <2>1, <3>1, <3>3, <4>1, <4>2, EndMaps DEF Unseen
    <3>5. CASE DeleteRow(r, d) /\ Live(d) /\ Unseen(rkids[r], d)
      <4>1. UNCHANGED <<stored, status>> /\ fate'[r] = "failed"
        BY <1>3, <2>2, <3>5, RequestFates DEF DeleteRow
      <4> QED
        BY <1>2, <1>3, <2>1, <2>6, <3>1, <3>5, <4>1, EndMaps DEF Unseen
    <3>6. CASE DeleteRow(r, d) /\ ~(Live(d) /\ Unseen(rkids[r], d))
      <4>1. fate'[r] = "committed"
        BY <1>3, <2>2, <3>6, RequestFates
      <4>2. stored'[Chosen] = None /\ status'[Chosen] = "deleted"
        BY <2>6, <3>3, <3>6 DEF DeleteRow
      <4>3. status[Chosen] # "deleted" => stored[Chosen] \in {TxnKids(r), None}
        BY <2>6, <3>1, <3>2, <3>6 DEF Unseen
      <4> QED
        BY <1>2, <1>3, <2>1, <3>1, <4>1, <4>2, <4>3, EndMaps
    <3> QED
      BY <2>3, <3>4, <3>5, <3>6
  <2> QED
    BY <2>5, <2>6
<1> QED
  BY <1>4, <1>5, <1>6 DEF Arrival, Upload, GetObject, FirstStep, Detail, RequestStep,
     RetryReject, RetrySave, VisibilitySave, Unlink, DeleteChildren, DeleteRow, Delay,
     RequestDies

\* The steps of Ingestion begin and end the transactions of a dataset as
\* AtomicPublish does, as long as no change of visibility saves it in full.
THEOREM IngestionIsAtomic ==
  "visibility" \notin Ops /\ FateSpec => PublishesAtomically
<1> SUFFICES ASSUME "visibility" \notin Ops PROVE FateSpec => PublishesAtomically
  OBVIOUS
<1>1. FateInit => Atomic!Init
  BY ChosenAssumption
     DEF FateInit, Init, Atomic!Init, TxnState, TxnKids, Concerned, Process
<1>2. /\ TypeOK /\ NoOrphanRows /\ NoFullSave /\ BornInv /\ FateInv
      /\ [FateNext]_fateVars
      => [Atomic!Next]_Atomic!absVars
  <2> SUFFICES ASSUME TypeOK, NoOrphanRows, NoFullSave, BornInv, FateInv,
                      [FateNext]_fateVars
               PROVE  Maps
    BY DEF Maps, Atomic!absVars
  <2>1. CASE UNCHANGED fateVars
    <3>1. /\ \A x \in Process : Kept(x)
          /\ stored'[Chosen] = stored[Chosen] /\ status'[Chosen] = status[Chosen]
      BY <2>1 DEF Kept, fateVars, vars, dbVars, reqVars, taskVars
    <3> QED
      BY <3>1, QuietMaps
  <2>2. ASSUME FateNext, NEW t \in Task, TaskStep(t) \/ TaskDies(t) PROVE Maps
    BY <2>2, TaskMaps
  <2>3. ASSUME FateNext, NEW r \in Request,
               Arrival(r) \/ RequestStep(r) \/ RequestDies(r)
        PROVE  Maps
    BY <2>3, RequestMaps
  <2>4. ASSUME FateNext,
               \/ \E d \in Dataset : Edit(d)
               \/ \E t, u \in Task : Redeliver(t, u)
        PROVE  Maps
    <3>1. /\ UNCHANGED <<rpc, todo, rkids, kids, stored, status>>
          /\ \A t \in Task : tpc[t] # "unused" => tpc'[t] = tpc[t] /\ job'[t] = job[t]
          /\ \A t \in Task : tpc'[t] # "commit" \/ tpc'[t] = tpc[t]
      BY <2>4 DEF Edit, Redeliver, TypeOK, dbVars, reqVars, taskVars
    <3>2. \A x \in Process : Kept(x)
      BY <2>4, <3>1, TasksKept, RequestsKept DEF Process
    <3> QED
      BY <3>1, <3>2, QuietMaps
  <2> QED
    BY <2>1, <2>2, <2>3, <2>4 DEF FateNext, Next
<1> QED
  BY <1>1, <1>2, FateInvariant, FateIsHistory, NoOrphans, NoFullSaves, PTL
     DEF FateSpec, PublishesAtomically, Atomic!Spec

\* Of the attempts that overlap on a dataset, one is published: an update is never
\* lost to one that did not see it.
THEOREM AttemptsAreNotLost ==
  "visibility" \notin Ops /\ FateSpec => []NoAttemptIsLost
<1>1. Atomic!Distinct
  BY ChosenAssumption, ConstantsAssumption DEF Atomic!Distinct
<1>2. FateInv /\ Atomic!NoLostUpdate => NoAttemptIsLost
  <2> SUFFICES ASSUME FateInv, Atomic!NoLostUpdate,
                      NEW t \in Task, job[t] = Chosen, outcome[t] = "ready",
                      NEW u \in Task, job[u] = Chosen, outcome[u] = "ready",
                      kids[t] = kids[u]
               PROVE  t = u
    BY DEF NoAttemptIsLost
  <2>1. \A x \in {t, u} : TxnState(x) = "committed" /\ TxnKids(x) = kids[x]
    BY DEF FateInv, TaskFateOK, TxnState, TxnKids, Concerned
  <2> QED
    BY <2>1 DEF Atomic!NoLostUpdate, Atomic!Published, Process
<1> QED
  BY <1>1, <1>2, Atomic!NoUpdateIsLost, IngestionIsAtomic, FateInvariant, PTL
     DEF PublishesAtomically

==============================================================================
