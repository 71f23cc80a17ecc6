----------------------------- MODULE PublishTxn ------------------------------
(***************************************************************************)
(* The same transactions, statement by statement, as PostgreSQL runs them  *)
(* under READ COMMITTED: a statement sees what was committed when it       *)
(* started, and what its own transaction did; it waits for the             *)
(* transactions in progress that hold the rows it deletes or updates, or   *)
(* that insert or delete a row with the unique key it inserts.  Foreign    *)
(* keys are deferred to the commit, as Django declares them.               *)
(*                                                                         *)
(* All columns of an attempt are inserted by one statement, so are all of  *)
(* its rows, and each transaction deletes them by one: they are one block  *)
(* per attempt and table.  Two blocks of a dataset always share a unique   *)
(* key, position 0 of the columns or row_index 0 of the rows.              *)
(***************************************************************************)
CONSTANTS
  Ingest,      \* transactions of _ingest_rows
  Destroy,     \* transactions that delete the dataset
  HeaderOnly,  \* attempts on a file without data rows
  Old,         \* an attempt that committed before them
  None

Txn   == Ingest \cup Destroy
Block == Ingest \cup {Old}
Table == {"columns", "rows"}

ASSUME TxnAssumption ==
  /\ Ingest \cap Destroy = {}
  /\ HeaderOnly \subseteq Ingest
  /\ Old \notin Txn
  /\ None \notin Txn \cup {Old}

VARIABLES
  xact,       \* state of each transaction
  pc,         \* its next statement
  tab,        \* the table that statement is about
  found,      \* the blocks its DELETE on each table saw as it started
  inserted,   \* the blocks inserted and not rolled back, by table
  deletedBy,  \* the transaction that deleted each of them
  gone,       \* the row of the dataset was deleted, and that committed
  holder      \* the transaction in progress that updated or deleted it

vars == <<xact, pc, tab, found, inserted, deletedBy, gone, holder>>

Committed(b) == IF b \in Txn THEN xact[b] = "committed" ELSE b = Old

\* Blocks that are there, or may yet be once the transactions in progress end.
Present(tb) == {b \in inserted[tb] : ~Committed(deletedBy[tb][b])}

\* What a statement of x sees if it starts now.
Visible(tb, x) ==
  {b \in Present(tb) : (b = x \/ Committed(b)) /\ deletedBy[tb][b] # x}

\* Mutant: no unique constraint on the columns.
RivalsInRows(tb, x) ==
  {b \in Present(tb) : tb = "rows" /\ deletedBy[tb][b] # x}

\* What x cannot insert next to.
Rivals(tb, x) == {b \in Present(tb) : deletedBy[tb][b] # x}

\* bulk_create() of no rows runs no statement.
Inserts(x) == tab[x] = "columns" \/ x \notin HeaderOnly

\* The other transactions in progress that inserted or deleted some of B.
InProgress(x, B, tb) ==
  {y \in Txn \ {x} : /\ xact[y] = "active"
                     /\ \E b \in B : y \in {b, deletedBy[tb][b]}}

\* Mutant: nobody looks for columns and rows left by others (DO_NOTHING, and no
\* constraint in the database).
UncheckedReferences(x) == [tb \in Table |-> {}]

\* The rows that reference the dataset x deleted, looked up at its commit.
References(x) ==
  [tb \in Table |->
     IF x \in Destroy /\ holder = x THEN Visible(tb, x) ELSE {}]

WaitsFor(x) ==
  CASE pc[x] = "clearing" -> InProgress(x, found[x][tab[x]], tab[x])
    [] pc[x] = "insert" /\ Inserts(x) ->
         InProgress(x, Rivals(tab[x], x), tab[x])
    [] pc[x] \in {"save", "drop"} -> {holder} \ {None, x}
    [] pc[x] = "commit" ->
         UNION {InProgress(x, References(x)[tb], tb) : tb \in Table}
    [] OTHER -> {}

Runs(x, at) == pc[x] = at /\ WaitsFor(x) = {}

\* Mutant: a deletion takes the rows first.
RowsFirst(x) == IF x \in Ingest THEN "columns" ELSE "rows"

\* The order of the statements is the same in both transactions.
FirstTable(x) == "columns"

AfterClearing(x) ==
  IF tab[x] = FirstTable(x) THEN "clear"
  ELSE IF x \in Ingest THEN "insert" ELSE "drop"

Other(tb) == CHOOSE other \in Table : other # tb

\* What is undone when a statement fails.
Rollback(x, end) ==
  /\ xact' = [xact EXCEPT ![x] = end]
  /\ pc' = [pc EXCEPT ![x] = "end"]
  /\ inserted' = [tb \in Table |-> inserted[tb] \ {x}]
  /\ deletedBy' = [tb \in Table |-> [b \in Block |->
                     IF deletedBy[tb][b] = x THEN None ELSE deletedBy[tb][b]]]
  /\ holder' = IF holder = x THEN None ELSE holder
  /\ UNCHANGED <<tab, found, gone>>

------------------------------------------------------------------------------
\* DELETE ... WHERE dataset_id = ...: what it sees, ...
Clear(x) ==
  /\ pc[x] = "clear"
  /\ xact' = [xact EXCEPT ![x] = "active"]
  /\ found' = [found EXCEPT ![x][tab[x]] = Visible(tab[x], x)]
  /\ pc' = [pc EXCEPT ![x] = "clearing"]
  /\ UNCHANGED <<tab, inserted, deletedBy, gone, holder>>

\* ... and what it deletes of that, once nobody else is deleting it.
Clearing(x) ==
  /\ Runs(x, "clearing")
  /\ deletedBy' = [deletedBy EXCEPT ![tab[x]] = [b \in Block |->
                     IF b \in found[x][tab[x]] \cap Present(tab[x])
                       THEN x ELSE @[b]]]
  /\ pc' = [pc EXCEPT ![x] = AfterClearing(x)]
  /\ tab' = [tab EXCEPT ![x] = Other(@)]
  /\ UNCHANGED <<xact, found, inserted, gone, holder>>

\* bulk_create()
Insert(x) ==
  /\ Runs(x, "insert")
  /\ IF Inserts(x) /\ Rivals(tab[x], x) # {}
       THEN Rollback(x, "failed")
       ELSE /\ inserted' = IF Inserts(x)
                             THEN [inserted EXCEPT ![tab[x]] = @ \cup {x}]
                             ELSE inserted
            /\ pc' = [pc EXCEPT ![x] =
                        IF tab[x] = "columns" THEN "insert" ELSE "save"]
            /\ tab' = [tab EXCEPT ![x] = Other(@)]
            /\ UNCHANGED <<xact, found, deletedBy, gone, holder>>

\* Mutant: the dataset is saved after the block of transaction.atomic().
SaveAfterBlock(x) ==
  /\ Runs(x, "save")
  /\ xact' = [xact EXCEPT ![x] = "committed"]
  /\ holder' = x
  /\ pc' = [pc EXCEPT ![x] = "commit"]
  /\ UNCHANGED <<tab, found, inserted, deletedBy, gone>>

\* dataset.save(update_fields=[...])
Save(x) ==
  /\ Runs(x, "save")
  /\ IF gone
       THEN Rollback(x, "failed")
       ELSE /\ holder' = x
            /\ pc' = [pc EXCEPT ![x] = "commit"]
            /\ UNCHANGED <<xact, tab, found, inserted, deletedBy, gone>>

\* DELETE of the dataset itself
Drop(x) ==
  /\ Runs(x, "drop")
  /\ holder' = IF gone THEN holder ELSE x
  /\ pc' = [pc EXCEPT ![x] = "commit"]
  /\ UNCHANGED <<xact, tab, found, inserted, deletedBy, gone>>

Commit(x) ==
  /\ Runs(x, "commit")
  /\ IF \E tb \in Table : References(x)[tb] # {}
       THEN Rollback(x, "failed")
       ELSE /\ xact' = [xact EXCEPT ![x] = "committed"]
            /\ pc' = [pc EXCEPT ![x] = "end"]
            /\ gone' = (gone \/ x \in Destroy)
            /\ holder' = IF holder = x THEN None ELSE holder
            /\ UNCHANGED <<tab, found, inserted, deletedBy>>

\* The process, or its connection, stops.
Die(x) ==
  /\ xact[x] = "active"
  /\ Rollback(x, "died")

\* Transactions that wait for each other.  PostgreSQL makes one of them fail,
\* as Die does.
Deadlocked(S) ==
  /\ S # {}
  /\ \A x \in S : xact[x] = "active" /\ WaitsFor(x) \cap S # {}

Init ==
  /\ xact = [x \in Txn |-> "idle"]
  /\ pc = [x \in Txn |-> "clear"]
  /\ tab = [x \in Txn |-> FirstTable(x)]
  /\ found = [x \in Txn |-> [tb \in Table |-> {}]]
  /\ \E B \in SUBSET {Old} : inserted = [tb \in Table |-> B]
  /\ deletedBy = [tb \in Table |-> [b \in Block |-> None]]
  /\ gone = FALSE
  /\ holder = None

Next ==
  \E x \in Txn :
    \/ Clear(x) \/ Clearing(x) \/ Insert(x) \/ Save(x) \/ Drop(x)
    \/ Commit(x) \/ Die(x)

Spec == Init /\ [][Next]_vars

------------------------------------------------------------------------------
\* Blocks are inserted only by their own ingestion, and transactions in
\* progress alone hold anything.
TxnTypeOK ==
  /\ xact \in [Txn -> {"idle", "active", "committed", "failed", "died"}]
  /\ pc \in [Txn -> {"clear", "clearing", "insert", "save", "drop", "commit", "end"}]
  /\ tab \in [Txn -> Table]
  /\ found \in [Txn -> [Table -> SUBSET Block]]
  /\ inserted \in [Table -> SUBSET Block]
  /\ deletedBy \in [Table -> [Block -> Txn \cup {None}]]
  /\ gone \in BOOLEAN
  /\ holder \in Txn \cup {None}
  /\ holder # None => xact[holder] = "active"

\* What anyone may read: columns of at most one attempt, and no rows but its
\* own, however the statements of several attempts and deletions interleave.
Stored(tb) == {b \in Present(tb) : Committed(b)}

OneAttempt ==
  \E b \in Block : /\ Stored("columns") \subseteq {b}
                   /\ Stored("rows") = Stored("columns") \ HeaderOnly

\* Two transactions alone never wait for each other, as both take the tables
\* in the same order: it takes a third, whose columns and rows committed while
\* they were under way.
DeadlockNeedsThird ==
  \A S \in SUBSET Txn :
    Deadlocked(S) => \E b \in Ingest \ S : xact[b] = "committed"

\* These transactions do what AtomicPublish says, and Ingestion takes for
\* granted: they take effect in one step, and fail for no other reason than
\* another that committed since they started.
OneOf(B) == IF B = {} THEN None ELSE CHOOSE b \in B : TRUE

Attempt == OneOf(Stored("columns"))

Kids(x) == OneOf(found[x]["columns"])

Atomic == INSTANCE AtomicPublish WITH
  stored <- Attempt,
  live   <- ~gone,
  state  <- xact,
  kids   <- [x \in Txn |-> Kids(x)]

ImplementsAtomicPublish == Atomic!Spec

==============================================================================
