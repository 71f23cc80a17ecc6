--------------------------- MODULE IngestionProofs ---------------------------
(***************************************************************************)
(* Theorems about Ingestion, for every set of datasets, tasks, requests    *)
(* and file contents.                                                      *)
(***************************************************************************)
EXTENDS Ingestion, Integers, TLAPS

\* Every reachable state is well typed, whatever operations and faults are
\* enabled.
THEOREM TypeCorrect == Spec => []TypeOK
<1>1. Init => TypeOK
  BY DEF Init, TypeOK, Statuses, Content, Attempt, Row
<1>2. TypeOK /\ [Next]_vars => TypeOK'
  <2> SUFFICES ASSUME TypeOK, [Next]_vars PROVE TypeOK'
    OBVIOUS
  <2>0. None \in Attempt /\ Task \subseteq Attempt
    BY DEF Attempt
  <2> USE DEF TypeOK, Statuses, Row
  <2>1. ASSUME NEW r \in Request, NEW S \in SUBSET Dataset, Upload(r, S)
        PROVE  TypeOK'
    BY <2>1 DEF Upload, taskVars
  <2>2. ASSUME NEW r \in Request, NEW d \in Dataset, NEW op \in Detail,
               GetObject(r, d, op)
        PROVE  TypeOK'
    BY <2>2 DEF GetObject, Live, FirstStep, Detail, dbVars, taskVars
  <2>3. ASSUME NEW r \in Request, NEW d \in Dataset, NEW t \in Task,
               Delay(r, d, t)
        PROVE  TypeOK'
    BY <2>3 DEF Delay, dbVars
  <2>4. ASSUME NEW r \in Request, RetryReject(r) \/ RequestDies(r)
        PROVE  TypeOK'
    <3>1. CASE RetryReject(r)
      BY <3>1 DEF RetryReject, dbVars, taskVars
    <3>2. CASE RequestDies(r)
      BY <3>2 DEF RequestDies, dbVars, taskVars
    <3> QED
      BY <2>4, <3>1, <3>2
  <2>5. ASSUME NEW r \in Request, NEW d \in Dataset, RetrySave(r, d)
        PROVE  TypeOK'
    BY <2>5 DEF RetrySave, taskVars
  <2>6. ASSUME NEW r \in Request, NEW d \in Dataset, VisibilitySave(r, d)
        PROVE  TypeOK'
    BY <2>6 DEF VisibilitySave, taskVars
  <2>7. ASSUME NEW r \in Request, NEW d \in Dataset,
               Unlink(r, d) \/ DeleteChildren(r, d)
        PROVE  TypeOK'
    <3>1. CASE Unlink(r, d)
      BY <3>1 DEF Unlink, taskVars
    <3>2. CASE DeleteChildren(r, d)
      BY <3>2 DEF DeleteChildren, dbVars, taskVars
    <3> QED
      BY <2>7, <3>1, <3>2
  <2>15. ASSUME NEW r \in Request, NEW d \in Dataset, DeleteRow(r, d)
        PROVE  TypeOK'
    <3>1. CASE Live(d) /\ ~Unseen(rkids[r], d)
      BY <2>0, <2>15, <3>1 DEF DeleteRow, taskVars
    <3>2. CASE ~(Live(d) /\ ~Unseen(rkids[r], d))
      BY <2>15, <3>2 DEF DeleteRow, taskVars
    <3> QED
      BY <3>1, <3>2
  <2>8. ASSUME NEW d \in Dataset, Edit(d)
        PROVE  TypeOK'
    BY <2>8 DEF Edit, reqVars, taskVars
  <2>9. ASSUME NEW t \in Task, GetDataset(t) \/ ReadFile(t) \/ ClearOld(t)
        PROVE  TypeOK'
    <3>1. CASE GetDataset(t)
      BY <3>1 DEF GetDataset, dbVars, reqVars
    <3>2. CASE ReadFile(t)
      BY <3>2 DEF ReadFile, AfterReading, dbVars, reqVars
    <3>3. CASE ClearOld(t)
      BY <3>3 DEF ClearOld, dbVars, reqVars
    <3> QED
      BY <2>9, <3>1, <3>2, <3>3
  <2>10. ASSUME NEW t \in Task, SaveFailure(t)
        PROVE  TypeOK'
    BY <2>10 DEF SaveFailure, reqVars
  <2>11. ASSUME NEW t \in Task, Publish(t)
        PROVE  TypeOK'
    <3>1. CASE PublishFails(t)
      BY <2>11, <3>1 DEF Publish, reqVars
    <3>2. CASE ~PublishFails(t)
      <4>1. job[t] \in Dataset /\ tpc[t] = "commit"
        BY <2>11 DEF Publish
      <4>2. /\ status' = [status EXCEPT ![job[t]] = "ready"]
            /\ outcome' = [outcome EXCEPT ![t] = "ready"]
            /\ tpc' = [tpc EXCEPT ![t] = "hook"]
            /\ UNCHANGED <<isPublic, file, rpc, todo, seen, rkids, job, kids, hook>>
        BY <2>11, <3>2 DEF Publish, reqVars
      <4>3. /\ counted' = [counted EXCEPT ![job[t]] = t]
            /\ stored' = [stored EXCEPT ![job[t]] = t]
        BY <2>11, <3>2 DEF Publish
      <4>4. counted' \in [Dataset -> Attempt] /\ stored' \in [Dataset -> Attempt]
        BY <2>0, <4>3
      <4> QED
        BY <4>1, <4>2, <4>4
    <3> QED
      BY <3>1, <3>2
  <2>12. ASSUME NEW t \in Task, SendHook(t) \/ TaskDies(t)
        PROVE  TypeOK'
    <3>1. CASE SendHook(t)
      BY <3>1 DEF SendHook, dbVars, reqVars
    <3>2. CASE TaskDies(t)
      BY <3>2 DEF TaskDies, dbVars, reqVars
    <3> QED
      BY <2>12, <3>1, <3>2
  <2>13. ASSUME NEW t \in Task, NEW u \in Task, Redeliver(t, u)
        PROVE  TypeOK'
    BY <2>13 DEF Redeliver, dbVars, reqVars
  <2>14. CASE UNCHANGED vars
    BY <2>14 DEF vars, dbVars, reqVars, taskVars
  <2> QED
    BY <2>1, <2>2, <2>3, <2>4, <2>5, <2>6, <2>7, <2>8, <2>9, <2>10, <2>11,
       <2>12, <2>13, <2>14, <2>15 DEF Next, Arrival, RequestStep, TaskStep
<1> QED
  BY <1>1, <1>2, PTL DEF Spec

------------------------------------------------------------------------------
\* Columns and rows never outlive their dataset, with every operation and fault
\* enabled: changes of visibility, which insert deleted rows again, included.
THEOREM NoOrphans == Spec => []NoOrphanRows
<1>1. Init => NoOrphanRows
  BY DEF Init, NoOrphanRows
<1>2. TypeOK /\ NoOrphanRows /\ [Next]_vars => NoOrphanRows'
  <2> SUFFICES ASSUME TypeOK, NoOrphanRows, [Next]_vars PROVE NoOrphanRows'
    OBVIOUS
  <2> USE DEF NoOrphanRows, Live, Statuses
  <2>1. ASSUME NEW r \in Request, NEW S \in SUBSET Dataset, Upload(r, S)
        PROVE  NoOrphanRows'
    BY <2>1 DEF TypeOK, Upload
  <2>2. ASSUME NEW r \in Request, NEW d \in Dataset, RetrySave(r, d)
        PROVE  NoOrphanRows'
    BY <2>2 DEF TypeOK, RetrySave
  <2>3. ASSUME NEW r \in Request, NEW d \in Dataset, VisibilitySave(r, d)
        PROVE  NoOrphanRows'
    BY <2>3 DEF TypeOK, Row, VisibilitySave
  <2>4. ASSUME NEW r \in Request, NEW d \in Dataset, DeleteRow(r, d)
        PROVE  NoOrphanRows'
    BY <2>4 DEF TypeOK, DeleteRow
  <2>5. ASSUME NEW t \in Task, SaveFailure(t)
        PROVE  NoOrphanRows'
    BY <2>5 DEF TypeOK, SaveFailure
  <2>6. ASSUME NEW t \in Task, Publish(t)
        PROVE  NoOrphanRows'
    BY <2>6 DEF TypeOK, Publish, PublishFails
  <2>7. CASE UNCHANGED <<status, stored>>
    BY <2>7
  <2> QED
    BY <2>1, <2>2, <2>3, <2>4, <2>5, <2>6, <2>7 DEF Next, Arrival, RequestStep,
       TaskStep, GetObject, RetryReject, RequestDies, Unlink, DeleteChildren,
       Delay, Edit, GetDataset, ReadFile, ClearOld, SendHook, TaskDies,
       Redeliver, vars, dbVars
<1> QED
  BY <1>1, <1>2, TypeCorrect, PTL DEF Spec

------------------------------------------------------------------------------
\* Without changes of visibility, nothing overwrites a row in full.
NoFullSave == \A r \in Request : rpc[r] # "visibility"

LEMMA NoFullSaves == "visibility" \notin Ops /\ Spec => []NoFullSave
<1> SUFFICES ASSUME "visibility" \notin Ops PROVE Spec => []NoFullSave
  OBVIOUS
<1>1. Init => NoFullSave
  BY DEF Init, NoFullSave
<1>2. TypeOK /\ NoFullSave /\ [Next]_vars => NoFullSave'
  <2> SUFFICES ASSUME TypeOK, NoFullSave, [Next]_vars PROVE NoFullSave'
    OBVIOUS
  <2> USE DEF TypeOK, NoFullSave
  <2>1. ASSUME NEW r \in Request, NEW d \in Dataset, NEW op \in Detail,
               GetObject(r, d, op)
        PROVE  NoFullSave'
    BY <2>1 DEF GetObject, FirstStep
  <2>2. ASSUME NEW r \in Request, NEW d \in Dataset, NEW t \in Task,
               Delay(r, d, t)
        PROVE  NoFullSave'
    BY <2>2 DEF Delay
  <2>3. ASSUME NEW r \in Request, NEW d \in Dataset,
               RetrySave(r, d) \/ VisibilitySave(r, d) \/ Unlink(r, d)
                 \/ DeleteChildren(r, d) \/ DeleteRow(r, d)
        PROVE  NoFullSave'
    BY <2>3 DEF RetrySave, VisibilitySave, Unlink, DeleteChildren, DeleteRow
  <2>4. ASSUME NEW r \in Request, RetryReject(r) \/ RequestDies(r)
        PROVE  NoFullSave'
    BY <2>4 DEF RetryReject, RequestDies
  <2>5. ASSUME NEW r \in Request, NEW S \in SUBSET Dataset, Upload(r, S)
        PROVE  NoFullSave'
    BY <2>5 DEF Upload
  <2>6. CASE UNCHANGED rpc
    BY <2>6
  <2> QED
    BY <2>1, <2>2, <2>3, <2>4, <2>5, <2>6 DEF Next, Arrival, RequestStep,
       TaskStep, Edit, GetDataset, ReadFile, SaveFailure, ClearOld, Publish,
       SendHook, TaskDies, Redeliver, vars, reqVars
<1> QED
  BY <1>1, <1>2, TypeCorrect, PTL DEF Spec

\* A deleted dataset stays deleted, as long as no change of visibility saves it
\* in full.
THEOREM DeletionIsFinal ==
  "visibility" \notin Ops /\ Spec => DeletedStaysDeleted
<1> SUFFICES ASSUME "visibility" \notin Ops PROVE Spec => DeletedStaysDeleted
  OBVIOUS
<1>1. TypeOK /\ NoFullSave /\ [Next]_vars =>
        [\A d \in Dataset : status[d] = "deleted" => status'[d] = "deleted"]_vars
  <2> SUFFICES ASSUME TypeOK, NoFullSave, Next,
                      NEW d \in Dataset, status[d] = "deleted"
               PROVE  status'[d] = "deleted"
    OBVIOUS
  <2> USE DEF TypeOK, Live, Statuses
  <2>1. ASSUME NEW r \in Request, NEW S \in SUBSET Dataset, Upload(r, S)
        PROVE  status'[d] = "deleted"
    BY <2>1 DEF Upload
  <2>2. ASSUME NEW r \in Request, NEW e \in Dataset,
               RetrySave(r, e) \/ DeleteRow(r, e)
        PROVE  status'[d] = "deleted"
    BY <2>2 DEF RetrySave, DeleteRow
  <2>3. ASSUME NEW t \in Task, SaveFailure(t) \/ Publish(t)
        PROVE  status'[d] = "deleted"
    BY <2>3 DEF SaveFailure, Publish, PublishFails
  <2>4. CASE UNCHANGED status
    BY <2>4
  <2> QED
    BY <2>1, <2>2, <2>3, <2>4 DEF NoFullSave, Next, Arrival, RequestStep,
       TaskStep, GetObject, RetryReject, RequestDies, VisibilitySave, Unlink,
       DeleteChildren, Delay, Edit, GetDataset, ReadFile, ClearOld, SendHook,
       TaskDies, Redeliver, dbVars
<1> QED
  BY <1>1, TypeCorrect, NoFullSaves, PTL DEF Spec, DeletedStaysDeleted

------------------------------------------------------------------------------
\* What keeps counts, columns and rows together: they change in one step, and
\* only a task that published them announces them, once it no longer can be
\* given another dataset.
DescribedInv ==
  /\ \A d \in Dataset : /\ counted[d] = stored[d]
                        /\ stored[d] # None => Live(d)
                        /\ status[d] = "ready" => stored[d] # None
  /\ \A t \in Task :
       /\ hook[t] \in {"none", outcome[t]}
       /\ outcome[t] # "none" => tpc[t] \in {"hook", "done"}
       /\ outcome[t] = "ready" => \/ stored[job[t]] # None
                                  \/ status[job[t]] = "deleted"

LEMMA DescribedInductive ==
  ASSUME TypeOK, NoFullSave, DescribedInv, [Next]_vars
  PROVE  DescribedInv'
<1> USE DEF TypeOK, DescribedInv, Live, Statuses
<1>1. ASSUME NEW r \in Request, NEW S \in SUBSET Dataset, Upload(r, S)
      PROVE  DescribedInv'
  BY <1>1 DEF Upload, taskVars
<1>2. ASSUME NEW r \in Request, NEW d \in Dataset, NEW t \in Task,
             Delay(r, d, t)
      PROVE  DescribedInv'
  BY <1>2 DEF Delay, dbVars
<1>3. ASSUME NEW r \in Request, NEW d \in Dataset, RetrySave(r, d)
      PROVE  DescribedInv'
  BY <1>3 DEF RetrySave, taskVars
<1>4. ASSUME NEW r \in Request, NEW d \in Dataset, DeleteRow(r, d)
      PROVE  DescribedInv'
  <2>1. CASE Live(d) /\ ~Unseen(rkids[r], d)
    BY <1>4, <2>1, ConstantsAssumption DEF DeleteRow, taskVars
  <2>2. CASE ~(Live(d) /\ ~Unseen(rkids[r], d))
    BY <1>4, <2>2 DEF DeleteRow, taskVars
  <2> QED
    BY <2>1, <2>2
<1>5. ASSUME NEW t \in Task, GetDataset(t) \/ ReadFile(t) \/ ClearOld(t)
      PROVE  DescribedInv'
  BY <1>5 DEF GetDataset, ReadFile, AfterReading, ClearOld, dbVars
<1>6. ASSUME NEW t \in Task, SaveFailure(t)
      PROVE  DescribedInv'
  BY <1>6 DEF SaveFailure
<1>7. ASSUME NEW t \in Task, Publish(t)
      PROVE  DescribedInv'
  <2>1. CASE PublishFails(t)
    BY <1>7, <2>1 DEF Publish
  <2>2. CASE ~PublishFails(t)
    <3>1. job[t] \in Dataset /\ Live(job[t]) /\ t # None
      BY <1>7, <2>2, ConstantsAssumption DEF Publish, PublishFails
    <3>2. /\ status' = [status EXCEPT ![job[t]] = "ready"]
          /\ counted' = [counted EXCEPT ![job[t]] = t]
          /\ stored' = [stored EXCEPT ![job[t]] = t]
          /\ outcome' = [outcome EXCEPT ![t] = "ready"]
          /\ tpc' = [tpc EXCEPT ![t] = "hook"]
          /\ hook' = hook /\ job' = job /\ tpc[t] = "commit"
      BY <1>7, <2>2 DEF Publish
    <3>3. \A d \in Dataset : /\ counted'[d] = stored'[d]
                             /\ stored'[d] # None => Live(d)'
                             /\ status'[d] = "ready" => stored'[d] # None
      BY <3>1, <3>2
    <3>4. ASSUME NEW u \in Task
          PROVE  /\ hook'[u] \in {"none", outcome'[u]}
                 /\ outcome'[u] # "none" => tpc'[u] \in {"hook", "done"}
                 /\ outcome'[u] = "ready" => \/ stored'[job'[u]] # None
                                             \/ status'[job'[u]] = "deleted"
      BY <3>1, <3>2
    <3> QED
      BY <3>3, <3>4
  <2> QED
    BY <2>1, <2>2
<1>8. ASSUME NEW t \in Task, SendHook(t) \/ TaskDies(t)
      PROVE  DescribedInv'
  BY <1>8 DEF SendHook, TaskDies, dbVars
<1>9. ASSUME NEW t \in Task, NEW u \in Task, Redeliver(t, u)
      PROVE  DescribedInv'
  BY <1>9 DEF Redeliver, dbVars
<1>10. CASE UNCHANGED <<status, counted, stored, taskVars>>
  BY <1>10 DEF taskVars
<1> QED
  BY <1>1, <1>2, <1>3, <1>4, <1>5, <1>6, <1>7, <1>8, <1>9, <1>10
     DEF NoFullSave, Next, Arrival, RequestStep, TaskStep, GetObject,
         RetryReject, RequestDies, VisibilitySave, Unlink, DeleteChildren,
         Edit, vars, dbVars

LEMMA Described == "visibility" \notin Ops /\ Spec => []DescribedInv
<1> SUFFICES ASSUME "visibility" \notin Ops PROVE Spec => []DescribedInv
  OBVIOUS
<1>1. Init => DescribedInv
  BY DEF Init, DescribedInv
<1>2. TypeOK /\ NoFullSave /\ DescribedInv /\ [Next]_vars => DescribedInv'
  BY DescribedInductive
<1> QED
  BY <1>1, <1>2, TypeCorrect, NoFullSaves, PTL DEF Spec

\* The counts of a live dataset are those of its columns and rows, and a ready
\* one has some, however many attempts overlap, fail or die.
THEOREM ReadyIsDescribed ==
  "visibility" \notin Ops /\ Spec => []ReadyDescribesRows
<1>1. DescribedInv => ReadyDescribesRows
  BY DEF DescribedInv, ReadyDescribesRows
<1> QED
  BY <1>1, Described, PTL

\* A dataset announced as ready keeps its columns and rows until its deletion.
THEOREM AnnouncedIsReadable ==
  "visibility" \notin Ops /\ Spec => []ReadyAnnouncedIsReadable
<1>1. TypeOK /\ DescribedInv => ReadyAnnouncedIsReadable
  BY DEF TypeOK, DescribedInv, ReadyAnnouncedIsReadable, Live, Statuses
<1> QED
  BY <1>1, Described, TypeCorrect, PTL

------------------------------------------------------------------------------
\* A deletion through the API finds the file gone before it deletes the row.
UnlinkedInv ==
  /\ \A r \in Request : \A d \in todo[r] : status[d] # "unborn"
  /\ \A r \in Request : rpc[r] \in {"clear", "commit"} =>
       \A d \in todo[r] : file[d] = NoFile
  /\ \A r \in Request : rpc[r] = "destroy" => \A d, e \in todo[r] : d = e
  /\ NoLeakedFile

\* Wherever a deletion through the API stops, the file of a deleted dataset is
\* gone: only the administration site leaves it.
THEOREM NoFileLeaks == "admin" \notin Ops /\ Spec => []NoLeakedFile
<1> SUFFICES ASSUME "admin" \notin Ops PROVE Spec => []NoLeakedFile
  OBVIOUS
<1>1. Init => UnlinkedInv
  BY DEF Init, UnlinkedInv, NoLeakedFile
<1>2. TypeOK /\ UnlinkedInv /\ [Next]_vars => UnlinkedInv'
  <2> SUFFICES ASSUME TypeOK, UnlinkedInv, [Next]_vars PROVE UnlinkedInv'
    OBVIOUS
  <2> USE DEF TypeOK, UnlinkedInv, NoLeakedFile, Live, Statuses
  <2>1. ASSUME NEW r \in Request, NEW S \in SUBSET Dataset, Upload(r, S)
        PROVE  UnlinkedInv'
    BY <2>1 DEF Upload
  <2>2. ASSUME NEW r \in Request, NEW d \in Dataset, NEW op \in Detail,
               GetObject(r, d, op)
        PROVE  UnlinkedInv'
    BY <2>2 DEF GetObject, FirstStep, Detail, dbVars
  <2>3. ASSUME NEW r \in Request, NEW d \in Dataset, NEW t \in Task,
               Delay(r, d, t)
        PROVE  UnlinkedInv'
    BY <2>3 DEF Delay, dbVars
  <2>4. ASSUME NEW r \in Request, RetryReject(r) \/ RequestDies(r)
        PROVE  UnlinkedInv'
    BY <2>4 DEF RetryReject, RequestDies, dbVars
  <2>5. ASSUME NEW r \in Request, NEW d \in Dataset, RetrySave(r, d)
        PROVE  UnlinkedInv'
    BY <2>5 DEF RetrySave
  <2>6. ASSUME NEW r \in Request, NEW d \in Dataset, VisibilitySave(r, d)
        PROVE  UnlinkedInv'
    BY <2>6 DEF VisibilitySave, Row
  <2>7. ASSUME NEW r \in Request, NEW d \in Dataset,
               Unlink(r, d) \/ DeleteChildren(r, d)
        PROVE  UnlinkedInv'
    BY <2>7 DEF Unlink, DeleteChildren, dbVars
  <2>11. ASSUME NEW r \in Request, NEW d \in Dataset, DeleteRow(r, d)
         PROVE  UnlinkedInv'
    <3>1. CASE Live(d) /\ ~Unseen(rkids[r], d)
      BY <2>11, <3>1 DEF DeleteRow
    <3>2. CASE ~(Live(d) /\ ~Unseen(rkids[r], d))
      BY <2>11, <3>2 DEF DeleteRow
    <3> QED
      BY <3>1, <3>2
  <2>8. ASSUME NEW d \in Dataset, Edit(d)
        PROVE  UnlinkedInv'
    BY <2>8 DEF Edit, reqVars
  <2>9. ASSUME NEW t \in Task, SaveFailure(t) \/ Publish(t)
        PROVE  UnlinkedInv'
    BY <2>9 DEF SaveFailure, Publish, PublishFails, reqVars
  <2>10. CASE UNCHANGED <<status, file, rpc, todo>>
    BY <2>10
  <2> QED
    BY <2>1, <2>2, <2>3, <2>4, <2>5, <2>6, <2>7, <2>8, <2>9, <2>10,
       <2>11
       DEF Next, Arrival, RequestStep, TaskStep, GetDataset, ReadFile, ClearOld,
           SendHook, TaskDies, Redeliver, vars, dbVars, reqVars
<1>3. UnlinkedInv => NoLeakedFile
  BY DEF UnlinkedInv
<1> QED
  BY <1>1, <1>2, <1>3, TypeCorrect, PTL DEF Spec

------------------------------------------------------------------------------
\* An attempt that decided a status goes on to say so.
Says(t, s) == s \in {outcome[t], hook[t]}

\* What can still make d ready, or says that it once became so ...
Promising(d) ==
  \/ file[d] \in Good
  \/ status[d] = "ready"
  \/ \E t \in Task : job[t] = d /\ (tpc[t] \in {"begin", "commit"} \/ Says(t, "ready"))

\* ... and what can still make it failed, or pending from failed.
Doomed(d) ==
  \/ file[d] \in Bad
  \/ status[d] = "failed"
  \/ \E t \in Task : job[t] = d /\ (tpc[t] = "fail" \/ Says(t, "failed"))
  \/ \E r \in Request : rpc[r] = "retry" /\ RetryAllowed(r) /\ d \in todo[r]

\* While the file stays what it was, a dataset is never both.
StableInv ==
  /\ \A d \in Dataset : ~(Promising(d) /\ Doomed(d))
  /\ \A r \in Request : \A d \in todo[r] : status[d] # "unborn"
  /\ \A t \in Task : tpc[t] # "unused" => status[job[t]] # "unborn"
  /\ \A t \in Task : tpc[t] = "unused" => outcome[t] = "none" /\ hook[t] = "none"

LEMMA StableInductive ==
  ASSUME "edit" \notin Ops, TypeOK, NoFullSave, StableInv, [Next]_vars
  PROVE  StableInv'
<1> USE DEF TypeOK, StableInv, Promising, Doomed, Says, RetryAllowed, Live, Statuses
<1>1. ASSUME NEW r \in Request, NEW S \in SUBSET Dataset, Upload(r, S)
      PROVE  StableInv'
  <2>1. /\ S # {} /\ \A d \in S : status[d] = "unborn"
        /\ status' = [d \in Dataset |-> IF d \in S THEN "pending" ELSE status[d]]
        /\ todo' = [todo EXCEPT ![r] = S]
        /\ rpc' = [rpc EXCEPT ![r] = "delay"]
        /\ \A d \in Dataset \ S : file'[d] = file[d]
        /\ UNCHANGED <<stored, seen, taskVars>>
    BY <1>1 DEF Upload
  <2>2. \A t \in Task : tpc[t] # "unused" => job[t] \notin S
    BY <2>1
  <2>3. ASSUME NEW d \in Dataset PROVE ~(Promising(d) /\ Doomed(d))'
    <3>1. CASE d \in S
      <4>1. \A t \in Task : job[t] # d \/ (outcome[t] = "none" /\ hook[t] = "none")
        BY <2>2, <3>1
      <4>2. \A t \in Task : tpc[t] # "unused" => job[t] # d
        BY <2>2, <3>1
      <4>3. \A x \in Request : d \notin todo[x]
        BY <2>1, <3>1
      <4>4. /\ status'[d] = "pending"
            /\ \A x \in Request : rpc'[x] = "retry" => d \notin todo'[x]
        BY <2>1, <3>1, <4>3
      <4>5. ~(file'[d] \in Good /\ file'[d] \in Bad)
        BY ConstantsAssumption
      <4> QED
        BY <2>1, <4>1, <4>2, <4>4, <4>5 DEF taskVars
    <3>2. CASE d \notin S
      <4>1. /\ status'[d] = status[d] /\ file'[d] = file[d]
            /\ \A x \in Request :
                 rpc'[x] = "retry" /\ d \in todo'[x] =>
                   rpc[x] = "retry" /\ d \in todo[x]
        BY <2>1, <3>2
      <4> QED
        BY <2>1, <4>1 DEF taskVars
    <3> QED
      BY <3>1, <3>2
  <2>4. \A x \in Request : \A d \in todo'[x] : status'[d] # "unborn"
    BY <2>1
  <2>5. \A t \in Task : tpc'[t] # "unused" => status'[job'[t]] # "unborn"
    BY <2>1 DEF taskVars
  <2>6. \A t \in Task : tpc'[t] = "unused" => outcome'[t] = "none" /\ hook'[t] = "none"
    BY <2>1 DEF taskVars
  <2> QED
    BY <2>3, <2>4, <2>5, <2>6
<1>2. ASSUME NEW r \in Request, NEW d \in Dataset, NEW op \in Detail,
             GetObject(r, d, op)
      PROVE  StableInv'
  BY <1>2 DEF GetObject, FirstStep, Detail, dbVars, taskVars
<1>3. ASSUME NEW r \in Request, NEW d \in Dataset, NEW t \in Task,
             Delay(r, d, t)
      PROVE  StableInv'
  BY <1>3 DEF Delay, dbVars
<1>4. ASSUME NEW r \in Request, RetryReject(r) \/ RequestDies(r)
      PROVE  StableInv'
  BY <1>4 DEF RetryReject, RequestDies, dbVars, taskVars
<1>5. ASSUME NEW r \in Request, NEW d \in Dataset, RetrySave(r, d)
      PROVE  StableInv'
  BY <1>5 DEF RetrySave, taskVars
<1>6. ASSUME NEW r \in Request, NEW d \in Dataset, Unlink(r, d)
      PROVE  StableInv'
  BY <1>6, ConstantsAssumption DEF Unlink, Content, taskVars
<1>7. ASSUME NEW r \in Request, NEW d \in Dataset, DeleteChildren(r, d)
      PROVE  StableInv'
  BY <1>7 DEF DeleteChildren, dbVars, taskVars
<1>8. ASSUME NEW r \in Request, NEW d \in Dataset, DeleteRow(r, d)
      PROVE  StableInv'
  BY <1>8 DEF DeleteRow, taskVars
<1>9. ASSUME NEW t \in Task, GetDataset(t)
      PROVE  StableInv'
  BY <1>9 DEF GetDataset, dbVars, reqVars
<1>10. ASSUME NEW t \in Task, ReadFile(t)
       PROVE  StableInv'
  BY <1>10 DEF ReadFile, AfterReading, dbVars, reqVars
<1>11. ASSUME NEW t \in Task, SaveFailure(t)
       PROVE  StableInv'
  BY <1>11 DEF SaveFailure, reqVars
<1>12. ASSUME NEW t \in Task, ClearOld(t) \/ SendHook(t) \/ TaskDies(t)
       PROVE  StableInv'
  BY <1>12 DEF ClearOld, SendHook, TaskDies, dbVars, reqVars
<1>13. ASSUME NEW t \in Task, Publish(t)
       PROVE  StableInv'
  BY <1>13 DEF Publish, PublishFails, reqVars
<1>14. ASSUME NEW t \in Task, NEW u \in Task, Redeliver(t, u)
       PROVE  StableInv'
  BY <1>14 DEF Redeliver, dbVars, reqVars
<1>15. CASE UNCHANGED vars
  BY <1>15 DEF vars, dbVars, reqVars, taskVars
<1> QED
  BY <1>1, <1>2, <1>3, <1>4, <1>5, <1>6, <1>7, <1>8, <1>9, <1>10, <1>11, <1>12,
     <1>13, <1>14, <1>15
     DEF NoFullSave, Next, Arrival, RequestStep, TaskStep, VisibilitySave, Edit

\* While nobody replaces its file, a ready dataset leaves that state only by
\* being deleted.
THEOREM ReadyStaysReady ==
  "visibility" \notin Ops /\ "edit" \notin Ops /\ Spec => ReadyIsFinal
<1> SUFFICES ASSUME "visibility" \notin Ops, "edit" \notin Ops
             PROVE  Spec => ReadyIsFinal
  OBVIOUS
<1>1. Init => StableInv
  BY ConstantsAssumption DEF Init, StableInv, Promising, Doomed, Says
<1>2. TypeOK /\ NoFullSave /\ StableInv /\ [Next]_vars => StableInv'
  BY StableInductive
<1>3. TypeOK /\ NoFullSave /\ StableInv /\ [Next]_vars =>
        [\A d \in Dataset :
           status[d] = "ready" => status'[d] \in {"ready", "deleted"}]_vars
  <2> SUFFICES ASSUME TypeOK, NoFullSave, StableInv, Next,
                      NEW d \in Dataset, status[d] = "ready"
               PROVE  status'[d] \in {"ready", "deleted"}
    OBVIOUS
  <2>0. ~Doomed(d)
    BY DEF StableInv, Promising
  <2> USE DEF TypeOK, Live, Statuses
  <2>1. ASSUME NEW r \in Request, NEW S \in SUBSET Dataset, Upload(r, S)
        PROVE  status'[d] \in {"ready", "deleted"}
    BY <2>1 DEF Upload
  <2>2. ASSUME NEW r \in Request, NEW e \in Dataset,
               RetrySave(r, e) \/ DeleteRow(r, e)
        PROVE  status'[d] \in {"ready", "deleted"}
    BY <2>0, <2>2 DEF Doomed, RetrySave, DeleteRow
  <2>3. ASSUME NEW t \in Task, SaveFailure(t) \/ Publish(t)
        PROVE  status'[d] \in {"ready", "deleted"}
    BY <2>0, <2>3 DEF Doomed, SaveFailure, Publish
  <2>4. CASE UNCHANGED status
    BY <2>4
  <2> QED
    BY <2>1, <2>2, <2>3, <2>4 DEF NoFullSave, Next, Arrival, RequestStep,
       TaskStep, GetObject, RetryReject, RequestDies, VisibilitySave, Unlink,
       DeleteChildren, Delay, Edit, GetDataset, ReadFile, ClearOld, SendHook,
       TaskDies, Redeliver, dbVars
<1> QED
  BY <1>1, <1>2, <1>3, TypeCorrect, NoFullSaves, PTL DEF Spec, ReadyIsFinal

\* While nobody replaces its file, the events about a dataset are all alike.
THEOREM EventsAlwaysAgree ==
  "visibility" \notin Ops /\ "edit" \notin Ops /\ Spec => []EventsAgree
<1> SUFFICES ASSUME "visibility" \notin Ops, "edit" \notin Ops
             PROVE  Spec => []EventsAgree
  OBVIOUS
<1>1. Init => StableInv
  BY ConstantsAssumption DEF Init, StableInv, Promising, Doomed, Says
<1>2. TypeOK /\ NoFullSave /\ StableInv /\ [Next]_vars => StableInv'
  BY StableInductive
<1>3. TypeOK /\ StableInv => EventsAgree
  <2> SUFFICES ASSUME TypeOK, StableInv, NEW t \in Task, NEW u \in Task,
                      job[t] = job[u], hook[t] # "none", hook[u] # "none"
               PROVE  hook[t] = hook[u]
    BY DEF EventsAgree
  <2>1. tpc[t] # "unused" /\ job[t] \in Dataset
    BY DEF TypeOK, StableInv
  <2>2. ~(Promising(job[t]) /\ Doomed(job[t]))
    BY <2>1 DEF StableInv
  <2>3. hook[t] \in {"ready", "failed"} /\ hook[u] \in {"ready", "failed"}
    BY DEF TypeOK
  <2> QED
    BY <2>2, <2>3 DEF Promising, Doomed, Says
<1> QED
  BY <1>1, <1>2, <1>3, TypeCorrect, NoFullSaves, PTL DEF Spec

------------------------------------------------------------------------------
\* Nothing fails, nothing is deleted, and every file parses or is rejected.
Calm == Ops \subseteq {"retry", "edit", "redeliver"} /\ Poison = {}

CalmInv ==
  /\ \A r \in Request : rpc[r] \in {"idle", "delay", "retry", "done"}
  /\ \A r \in Request : \A d \in todo[r] : Live(d)
  /\ \A t \in Task : tpc[t] # "unused" => Live(job[t])
  /\ \A d \in Dataset : Live(d) => file[d] \in Good \cup Bad
  /\ \A d \in Dataset : ~Live(d) => status[d] = "unborn"

LEMMA CalmSteps ==
  ASSUME Calm, CalmInv
  PROVE  /\ \A r \in Request : ~RequestDies(r)
         /\ \A r \in Request, d \in Dataset :
              /\ ~VisibilitySave(r, d) /\ ~Unlink(r, d)
              /\ ~DeleteChildren(r, d) /\ ~DeleteRow(r, d)
         /\ \A t \in Task : ~TaskDies(t)
BY DEF Calm, CalmInv, VisibilitySave, Unlink, DeleteChildren, DeleteRow,
       RequestDies, TaskDies

LEMMA CalmInductive ==
  ASSUME Calm, TypeOK, CalmInv, [Next]_vars
  PROVE  CalmInv'
<1> USE DEF Calm, TypeOK, CalmInv, Live, Statuses
<1>1. ASSUME NEW r \in Request, NEW S \in SUBSET Dataset, Upload(r, S)
      PROVE  CalmInv'
  BY <1>1 DEF Upload, taskVars, Content
<1>2. ASSUME NEW r \in Request, NEW d \in Dataset, NEW op \in Detail,
             GetObject(r, d, op)
      PROVE  CalmInv'
  BY <1>2 DEF GetObject, FirstStep, Detail, dbVars, taskVars
<1>3. ASSUME NEW r \in Request, NEW d \in Dataset, NEW t \in Task,
             Delay(r, d, t)
      PROVE  CalmInv'
  BY <1>3 DEF Delay, dbVars
<1>4. ASSUME NEW r \in Request, RetryReject(r)
      PROVE  CalmInv'
  BY <1>4 DEF RetryReject, dbVars, taskVars
<1>5. ASSUME NEW r \in Request, NEW d \in Dataset, RetrySave(r, d)
      PROVE  CalmInv'
  BY <1>5 DEF RetrySave, taskVars
<1>6. ASSUME NEW d \in Dataset, Edit(d)
      PROVE  CalmInv'
  BY <1>6 DEF Edit, Content, reqVars, taskVars
<1>7. ASSUME NEW t \in Task,
             GetDataset(t) \/ ReadFile(t) \/ ClearOld(t) \/ SendHook(t)
      PROVE  CalmInv'
  BY <1>7 DEF GetDataset, ReadFile, AfterReading, ClearOld, SendHook, dbVars,
              reqVars
<1>8. ASSUME NEW t \in Task, SaveFailure(t)
      PROVE  CalmInv'
  BY <1>8 DEF SaveFailure, reqVars
<1>9. ASSUME NEW t \in Task, Publish(t)
      PROVE  CalmInv'
  BY <1>9 DEF Publish, PublishFails, reqVars
<1>10. ASSUME NEW t \in Task, NEW u \in Task, Redeliver(t, u)
       PROVE  CalmInv'
  BY <1>10 DEF Redeliver, dbVars, reqVars
<1>11. CASE UNCHANGED vars
  BY <1>11 DEF vars, dbVars, reqVars, taskVars
<1> HIDE DEF Calm, TypeOK, CalmInv, Live, Statuses
<1> QED
  BY <1>1, <1>2, <1>3, <1>4, <1>5, <1>6, <1>7, <1>8, <1>9, <1>10, <1>11,
     CalmSteps DEF Next, Arrival, RequestStep, TaskStep

Queued(d) == \/ \E r \in Request : rpc[r] = "delay" /\ d \in todo[r]
             \/ \E t \in Task : Settles(t, d)

\* The witness that keeps a pending dataset queued moves from the request that
\* sends the message to the task that runs it; a task loses that role only to
\* another that settles the dataset.
LEMMA QueuedInductive ==
  ASSUME Calm, TypeOK, CalmInv, PendingIsQueued, [Next]_vars
  PROVE  PendingIsQueued'
<1> SUFFICES ASSUME NEW d \in Dataset, status'[d] = "pending"
             PROVE  Queued(d)'
  BY DEF PendingIsQueued, Queued
<1>0. status[d] = "pending" => Queued(d)
  BY DEF PendingIsQueued, Queued
<1> USE DEF Calm, TypeOK, CalmInv, Queued, Settles, Unseen, Live, Statuses
<1>1. ASSUME NEW r \in Request, NEW S \in SUBSET Dataset, Upload(r, S)
      PROVE  Queued(d)'
  BY <1>0, <1>1 DEF Upload, taskVars
<1>2. ASSUME NEW r \in Request, NEW e \in Dataset, NEW op \in Detail,
             GetObject(r, e, op)
      PROVE  Queued(d)'
  BY <1>0, <1>2 DEF GetObject, FirstStep, Detail, dbVars, taskVars
<1>3. ASSUME NEW r \in Request, NEW e \in Dataset, NEW t \in Task,
             Delay(r, e, t)
      PROVE  Queued(d)'
  <2>1. CASE e = d
    BY <1>3, <2>1 DEF Delay
  <2>2. CASE e # d
    BY <1>0, <1>3, <2>2 DEF Delay, dbVars
  <2> QED
    BY <2>1, <2>2
<1>4. ASSUME NEW r \in Request, RetryReject(r)
      PROVE  Queued(d)'
  BY <1>0, <1>4 DEF RetryReject, dbVars, taskVars
<1>5. ASSUME NEW r \in Request, NEW e \in Dataset, RetrySave(r, e)
      PROVE  Queued(d)'
  BY <1>0, <1>5 DEF RetrySave, taskVars
<1>6. ASSUME NEW e \in Dataset, Edit(e)
      PROVE  Queued(d)'
  BY <1>0, <1>6 DEF Edit, reqVars, taskVars
<1>7. ASSUME NEW t \in Task, GetDataset(t) \/ ReadFile(t)
      PROVE  Queued(d)'
  BY <1>0, <1>7 DEF GetDataset, ReadFile, AfterReading, dbVars, reqVars
<1>8. ASSUME NEW t \in Task, ClearOld(t)
      PROVE  Queued(d)'
  BY <1>0, <1>8 DEF ClearOld, dbVars, reqVars
<1>9. ASSUME NEW t \in Task, SaveFailure(t) \/ SendHook(t)
      PROVE  Queued(d)'
  BY <1>0, <1>9 DEF SaveFailure, SendHook, dbVars, reqVars
<1>10. ASSUME NEW t \in Task, Publish(t)
       PROVE  Queued(d)'
  BY <1>0, <1>10 DEF Publish, PublishFails, reqVars
<1>11. ASSUME NEW t \in Task, NEW u \in Task, Redeliver(t, u)
       PROVE  Queued(d)'
  BY <1>0, <1>11 DEF Redeliver, dbVars, reqVars
<1>12. CASE UNCHANGED vars
  BY <1>0, <1>12 DEF vars, dbVars, reqVars, taskVars
<1> HIDE DEF Calm, TypeOK, CalmInv, Queued, Settles, Unseen, Live, Statuses
<1> QED
  BY <1>1, <1>2, <1>3, <1>4, <1>5, <1>6, <1>7, <1>8, <1>9, <1>10, <1>11, <1>12,
     CalmSteps DEF Next, Arrival, RequestStep, TaskStep

\* While nothing fails and nothing is deleted, a pending dataset is queued, or
\* about to be, or an attempt is under way that can settle it; retries that
\* overlap, duplicated messages and replaced files do not change that.
THEOREM PendingStaysQueued == Calm /\ Spec => []PendingIsQueued
<1> SUFFICES ASSUME Calm PROVE Spec => []PendingIsQueued
  OBVIOUS
<1>1. Init => CalmInv /\ PendingIsQueued
  BY DEF Init, CalmInv, PendingIsQueued, Live, Statuses
<1>2. TypeOK /\ CalmInv /\ PendingIsQueued /\ [Next]_vars =>
        CalmInv' /\ PendingIsQueued'
  BY CalmInductive, QueuedInductive
<1> QED
  BY <1>1, <1>2, TypeCorrect, PTL DEF Spec

\* How many steps a task still takes at most.
TaskStepsLeft(t) ==
  IF tpc[t] = "unused" THEN 6
  ELSE IF tpc[t] = "queued" THEN 5
  ELSE IF tpc[t] = "read" THEN 4
  ELSE IF tpc[t] = "begin" THEN 3
  ELSE IF tpc[t] \in {"fail", "commit"} THEN 2
  ELSE IF tpc[t] = "hook" THEN 1
  ELSE 0

\* An attempt that can settle a dataset does so within five steps of its own, or
\* loses that role in the very step in which another one settles it.
AttemptSettles ==
  \A t \in Task, d \in Dataset :
    Settles(t, d) =>
      /\ Settles(t, d)' \/ status'[d] \in {"ready", "failed"}
      /\ TaskStepsLeft(t)' \in 0..TaskStepsLeft(t)
      /\ TaskStep(t) => TaskStepsLeft(t)' < TaskStepsLeft(t)

LEMMA TasksGoOn ==
  ASSUME TypeOK, [Next]_vars, NEW t \in Task, tpc[t] # "unused"
  PROVE  /\ TaskStepsLeft(t)' \in 0..TaskStepsLeft(t)
         /\ TaskStep(t) => TaskStepsLeft(t)' < TaskStepsLeft(t)
<1>1. CASE TaskStep(t) \/ TaskDies(t)
  <2>1. \/ tpc[t] = "queued" /\ tpc'[t] \in {"read", "done"}
        \/ tpc[t] = "read" /\ tpc'[t] \in {"begin", "fail", "done"}
        \/ tpc[t] \in {"fail", "commit"} /\ tpc'[t] \in {"hook", "done"}
        \/ tpc[t] = "begin" /\ tpc'[t] \in {"commit", "done"}
        \/ tpc[t] = "hook" /\ tpc'[t] = "done"
    BY <1>1 DEF TypeOK, TaskStep, TaskDies, GetDataset, ReadFile, AfterReading,
       SaveFailure, ClearOld, Publish, SendHook
  <2> QED
    BY <2>1 DEF TaskStepsLeft
<1>2. CASE ~TaskStep(t) /\ ~TaskDies(t)
  <2>1. tpc'[t] = tpc[t]
    BY <1>2 DEF TypeOK, Next, Arrival, RequestStep, TaskStep, Upload, Delay, GetObject,
       RetryReject, RetrySave, VisibilitySave, Unlink, DeleteChildren, DeleteRow,
       RequestDies, Edit, GetDataset, ReadFile, SaveFailure, ClearOld, Publish,
       SendHook, TaskDies, Redeliver, vars, taskVars
  <2> QED
    BY <1>2, <2>1 DEF TaskStepsLeft
<1> QED
  BY <1>1, <1>2

LEMMA SettlesOn ==
  ASSUME Calm, TypeOK, CalmInv, [Next]_vars,
         NEW t \in Task, NEW d \in Dataset, Settles(t, d)
  PROVE  Settles(t, d)' \/ status'[d] \in {"ready", "failed"}
<1> DEFINE Goal == Settles(t, d)' \/ status'[d] \in {"ready", "failed"}
<1> USE DEF Calm, TypeOK, CalmInv, Settles, Unseen, Live, Statuses
<1>1. ASSUME UNCHANGED <<stored, tpc, job, kids>> PROVE Goal
  BY <1>1
<1>2. ASSUME NEW r \in Request, NEW e \in Dataset, NEW u \in Task, Delay(r, e, u)
      PROVE  Goal
  BY <1>2 DEF Delay, dbVars
<1>3. ASSUME NEW u \in Task,
             GetDataset(u) \/ ReadFile(u) \/ ClearOld(u) \/ SendHook(u)
      PROVE  Goal
  BY <1>3 DEF GetDataset, ReadFile, AfterReading, ClearOld, SendHook, dbVars
<1>4. ASSUME NEW u \in Task, SaveFailure(u) PROVE Goal
  BY <1>4 DEF SaveFailure
<1>5. ASSUME NEW u \in Task, Publish(u) PROVE Goal
  BY <1>5 DEF Publish, PublishFails
<1>6. ASSUME NEW u \in Task, NEW v \in Task, Redeliver(u, v) PROVE Goal
  BY <1>6 DEF Redeliver, dbVars
<1> HIDE DEF Calm, TypeOK, CalmInv, Settles, Unseen, Live, Statuses, Goal
<1> QED
  BY <1>1, <1>2, <1>3, <1>4, <1>5, <1>6, CalmSteps
     DEF Goal, Next, Arrival, RequestStep, TaskStep, Upload, GetObject, RetryReject,
         RetrySave, Edit, vars, dbVars, taskVars

\* While nothing fails and nothing is deleted, an attempt does not lose sight of
\* its dataset: it, or one that overtakes it, settles it within five steps.
THEOREM AttemptsSettle == Calm /\ Spec => [][AttemptSettles]_vars
<1> SUFFICES ASSUME Calm PROVE Spec => [][AttemptSettles]_vars
  OBVIOUS
<1>1. Init => CalmInv
  BY DEF Init, CalmInv, Live, Statuses
<1>2. TypeOK /\ CalmInv /\ [Next]_vars => CalmInv'
  BY CalmInductive
<1>3. TypeOK /\ CalmInv /\ [Next]_vars => [AttemptSettles]_vars
  <2> SUFFICES ASSUME TypeOK, CalmInv, [Next]_vars,
                      NEW t \in Task, NEW d \in Dataset, Settles(t, d)
               PROVE  /\ Settles(t, d)' \/ status'[d] \in {"ready", "failed"}
                      /\ TaskStepsLeft(t)' \in 0..TaskStepsLeft(t)
                      /\ TaskStep(t) => TaskStepsLeft(t)' < TaskStepsLeft(t)
    BY DEF AttemptSettles
  <2>1. tpc[t] # "unused"
    BY DEF Settles
  <2> QED
    BY <2>1, TasksGoOn, SettlesOn
<1> QED
  BY <1>1, <1>2, <1>3, TypeCorrect, PTL DEF Spec

==============================================================================
