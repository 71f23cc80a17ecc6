--------------------------- MODULE IngestionAtomic ----------------------------
(***************************************************************************)
(* The transactions of Ingestion are those of AtomicPublish: ClearOld and  *)
(* DeleteChildren begin one, Publish and DeleteRow end it.  PublishTxn     *)
(* implements AtomicPublish statement by statement, so what Ingestion      *)
(* takes for granted of the database is what the statements provide.       *)
(*                                                                         *)
(* A task or request that is done does not tell how its transaction ended: *)
(* the history variable fate does.                                         *)
(***************************************************************************)
EXTENDS Ingestion

CONSTANT Chosen  \* any one of the datasets

ASSUME ChosenAssumption == Chosen \in Dataset /\ Task \cap Request = {}

VARIABLE fate    \* of the transaction of each task and request

fateVars == <<vars, fate>>

Process == Task \cup Request

\* What a step does to the transaction of a task ...
TaskFate(t) ==
  IF ClearOld(t) THEN "active"
  ELSE IF Publish(t) THEN IF PublishFails(t) THEN "failed" ELSE "committed"
  ELSE IF TaskDies(t) /\ tpc[t] = "commit" THEN "died"
  ELSE fate[t]

\* ... and to that of a request, whose deletion fails if an attempt it did not
\* see published since.
RequestFate(r) ==
  IF \E d \in Dataset : DeleteChildren(r, d) THEN "active"
  ELSE IF \E d \in Dataset : DeleteRow(r, d) /\ Live(d) /\ Unseen(rkids[r], d)
    THEN "failed"
  ELSE IF \E d \in Dataset : DeleteRow(r, d) THEN "committed"
  ELSE IF RequestDies(r) /\ rpc[r] = "commit" THEN "died"
  ELSE fate[r]

FateInit == Init /\ fate = [x \in Process |-> "idle"]

FateNext ==
  /\ Next
  /\ fate' = [x \in Process |-> IF x \in Task THEN TaskFate(x) ELSE RequestFate(x)]

FateSpec == FateInit /\ [][FateNext]_fateVars

------------------------------------------------------------------------------
\* Whether the transaction of x began, and is one on the dataset chosen.
Concerned(x) ==
  /\ fate[x] # "idle"
  /\ IF x \in Task THEN job[x] = Chosen ELSE Chosen \in todo[x]

TxnState(x) == IF Concerned(x) THEN fate[x] ELSE "idle"

TxnKids(x) ==
  IF ~Concerned(x) THEN None ELSE IF x \in Task THEN kids[x] ELSE rkids[x]

Atomic == INSTANCE AtomicPublish WITH
  Ingest  <- Task,
  Destroy <- Request,
  Old     <- None,
  stored  <- stored[Chosen],
  live    <- status[Chosen] # "deleted",
  state   <- [x \in Process |-> TxnState(x)],
  kids    <- [x \in Process |-> TxnKids(x)]

\* Whatever overlaps, dies or is delivered twice, an attempt on a dataset, and a
\* deletion of it, finds the columns and rows of one attempt, and replaces or
\* removes them in one step, or fails because of another that ended since.
PublishesAtomically == Atomic!Spec

\* Two attempts that overlap, so that they delete the same columns and rows, are
\* not both published: the second one fails instead of publishing over the first.
NoAttemptIsLost ==
  \A t, u \in Task :
    /\ job[t] = Chosen /\ outcome[t] = "ready"
    /\ job[u] = Chosen /\ outcome[u] = "ready"
    /\ kids[t] = kids[u]
    => t = u

==============================================================================
