---------------------------- MODULE AtomicPublish ----------------------------
(***************************************************************************)
(* What Ingestion assumes of the transactions of _ingest_rows (services/   *)
(* ingestion.py) and of a deletion (views.py), for one dataset: a          *)
(* transaction finds the columns and rows of one attempt, and replaces or  *)
(* removes them in one step, unless another attempt committed since.       *)
(* Begin is ClearOld and DeleteChildren of Ingestion, Commit and Fail are  *)
(* Publish and DeleteRow, Die is TaskDies and RequestDies.                 *)
(***************************************************************************)
EXTENDS TLAPS

CONSTANTS
  Ingest,   \* transactions of _ingest_rows
  Destroy,  \* transactions that delete the dataset
  Old,      \* an attempt that committed before them
  None

VARIABLES
  stored,   \* the attempt whose columns and rows are committed
  live,     \* whether the row of the dataset is there
  state,    \* of each transaction
  kids      \* the attempt it found

absVars == <<stored, live, state, kids>>

Unseen(x) == stored \notin {kids[x], None}

Begin(x) ==
  /\ state[x] = "idle"
  /\ state' = [state EXCEPT ![x] = "active"]
  /\ kids' = [kids EXCEPT ![x] = stored]
  /\ UNCHANGED <<stored, live>>

CommitIngest(x) ==
  /\ x \in Ingest
  /\ state[x] = "active"
  /\ live /\ ~Unseen(x)
  /\ stored' = x
  /\ state' = [state EXCEPT ![x] = "committed"]
  /\ UNCHANGED <<live, kids>>

\* Deleting a row that is gone changes nothing, and is no error.
CommitDestroy(x) ==
  /\ x \in Destroy
  /\ state[x] = "active"
  /\ live => ~Unseen(x)
  /\ stored' = None
  /\ live' = FALSE
  /\ state' = [state EXCEPT ![x] = "committed"]
  /\ UNCHANGED kids

Fail(x) ==
  /\ state[x] = "active"
  /\ Unseen(x) \/ (x \in Ingest /\ ~live)
  /\ state' = [state EXCEPT ![x] = "failed"]
  /\ UNCHANGED <<stored, live, kids>>

Die(x) ==
  /\ state[x] = "active"
  /\ state' = [state EXCEPT ![x] = "died"]
  /\ UNCHANGED <<stored, live, kids>>

Init ==
  /\ stored \in {None, Old}
  /\ live = TRUE
  /\ state = [x \in Ingest \cup Destroy |-> "idle"]
  /\ kids = [x \in Ingest \cup Destroy |-> None]

Next ==
  \E x \in Ingest \cup Destroy :
    Begin(x) \/ CommitIngest(x) \/ CommitDestroy(x) \/ Fail(x) \/ Die(x)

Spec == Init /\ [][Next]_absVars

------------------------------------------------------------------------------
\* The names of attempts tell them apart, and from deletions.
Distinct ==
  /\ Ingest \cap Destroy = {}
  /\ Ingest \cap {Old, None} = {}

Published == {x \in Ingest : state[x] = "committed"}

\* Of several attempts that found the same columns and rows, only one replaces
\* them: what an attempt published is never overwritten by one that did not see
\* it, and is removed only by a deletion.
NoLostUpdate ==
  \A x, y \in Published : kids[x] = kids[y] => x = y

\* What was replaced does not come back.
ChainInv ==
  /\ DOMAIN state = Ingest \cup Destroy
  /\ DOMAIN kids = Ingest \cup Destroy
  /\ stored \in Published \cup {Old, None}
  /\ \A x \in Ingest \cup Destroy : kids[x] \in Published \cup {Old, None}
  /\ live /\ Published # {} => stored \in Published
  /\ live => \A x \in Published : kids[x] # stored
  /\ NoLostUpdate

\* For any attempts and deletions of a dataset, each attempt that is published
\* replaced another one, or was the first.
THEOREM NoUpdateIsLost == Distinct /\ Spec => []NoLostUpdate
<1> SUFFICES ASSUME Distinct PROVE Spec => []NoLostUpdate
  OBVIOUS
<1>1. Init => ChainInv
  BY DEF Init, ChainInv, NoLostUpdate, Published
<1>2. ChainInv /\ [Next]_absVars => ChainInv'
  <2> SUFFICES ASSUME ChainInv, [Next]_absVars PROVE ChainInv'
    OBVIOUS
  <2> USE DEF ChainInv, NoLostUpdate, Published
  <2>1. ASSUME NEW x \in Ingest \cup Destroy, Begin(x) PROVE ChainInv'
    BY <2>1 DEF Begin
  <2>2. ASSUME NEW x \in Ingest \cup Destroy, CommitIngest(x) PROVE ChainInv'
    BY <2>2 DEF CommitIngest, Unseen, Distinct
  <2>3. ASSUME NEW x \in Ingest \cup Destroy, CommitDestroy(x) PROVE ChainInv'
    BY <2>3 DEF CommitDestroy, Distinct
  <2>4. ASSUME NEW x \in Ingest \cup Destroy, Fail(x) \/ Die(x) PROVE ChainInv'
    BY <2>4 DEF Fail, Die
  <2>5. CASE UNCHANGED absVars
    BY <2>5 DEF absVars
  <2> QED
    BY <2>1, <2>2, <2>3, <2>4, <2>5 DEF Next
<1>3. ChainInv => NoLostUpdate
  BY DEF ChainInv
<1> QED
  BY <1>1, <1>2, <1>3, PTL DEF Spec

==============================================================================
