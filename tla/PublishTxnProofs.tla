--------------------------- MODULE PublishTxnProofs --------------------------
(***************************************************************************)
(* PublishTxn for any number of ingestions and deletions of a dataset:     *)
(* what is stored is one attempt, the transactions implement AtomicPublish *)
(* and, once its first ingestion committed, two do not deadlock.           *)
(***************************************************************************)
EXTENDS PublishTxn, TLAPS

\* x is past its DELETE on a table.
Cleared(x, tb) ==
  /\ xact[x] # "idle"
  /\ pc[x] \in {"clear", "clearing"} => tb = "columns" /\ tab[x] = "rows"

\* x has begun its DELETE on the rows, the second.
SawRows(x) ==
  /\ xact[x] # "idle"
  /\ pc[x] # "clear"
  /\ pc[x] = "clearing" => tab[x] = "rows"

\* Where a transaction stands determines what it inserted, and what it holds.
StageInv ==
  \A x \in Txn :
    /\ xact[x] = "idle" <=> pc[x] = "clear" /\ tab[x] = "columns"
    /\ pc[x] = "end" <=> xact[x] \in {"committed", "failed", "died"}
    /\ pc[x] \in {"insert", "save"} => x \in Ingest
    /\ pc[x] = "drop" => x \in Destroy
    /\ pc[x] = "commit" => holder = x \/ (x \in Destroy /\ gone)
    /\ x \in inserted["columns"] <=>
         x \in Ingest /\ \/ xact[x] = "committed" \/ pc[x] \in {"save", "commit"}
                         \/ pc[x] = "insert" /\ tab[x] = "rows"
    /\ x \in inserted["rows"] <=>
         x \in Ingest \ HeaderOnly /\ \/ xact[x] = "committed"
                                      \/ pc[x] \in {"save", "commit"}

\* A DELETE finds what is committed, and deletes all of it that is still there.
FoundInv ==
  \A x \in Txn, tb \in Table : \A b \in found[x][tb] :
    /\ Committed(b)
    /\ xact[x] = "active" /\ Cleared(x, tb) /\ b \in Present(tb) =>
         deletedBy[tb][b] = x

\* What is deleted was found, and its rows are found after its columns.
DeletedInv ==
  \A tb \in Table, b \in Block, x \in Txn :
    deletedBy[tb][b] = x =>
      /\ xact[x] \in {"active", "committed"}
      /\ Cleared(x, tb)
      /\ b \in found[x][tb] \cap inserted[tb]
      /\ tb = "columns" /\ xact[x] = "active" /\ SawRows(x) /\ b \notin HeaderOnly =>
           b \in found[x]["rows"]

\* Blocks share a unique key: of two, one takes the place of the other.
PairInv ==
  \A tb \in Table : \A b, c \in Present(tb) :
    b = c \/ deletedBy[tb][b] = c \/ deletedBy[tb][c] = b

\* Columns and rows are stored together, and none without the dataset.
StoredInv ==
  /\ Stored("rows") = Stored("columns") \ HeaderOnly
  /\ gone => Stored("columns") = {} /\ holder = None

Inv == TxnTypeOK /\ StageInv /\ FoundInv /\ DeletedInv /\ PairInv /\ StoredInv

------------------------------------------------------------------------------
LEMMA TypeInit == Init => TxnTypeOK
<1> SUFFICES ASSUME Init PROVE TxnTypeOK
  OBVIOUS
<1>1. inserted \in [Table -> SUBSET Block]
  BY DEF Init, Block
<1>2. deletedBy \in [Table -> [Block -> Txn \cup {None}]] /\ found \in [Txn -> [Table -> SUBSET Block]]
  BY DEF Init
<1>3. tab \in [Txn -> Table]
  BY DEF Init, FirstTable, Table
<1> QED
  BY <1>1, <1>2, <1>3 DEF Init, TxnTypeOK

LEMMA StageInit == Init => StageInv
<1> SUFFICES ASSUME Init PROVE StageInv
  OBVIOUS
<1>1. PICK B \in SUBSET {Old} : inserted = [tb \in Table |-> B]
  BY DEF Init
<1>2. \A x \in Txn : x \notin inserted["columns"] /\ x \notin inserted["rows"]
  BY <1>1, TxnAssumption DEF Table
<1> QED
  BY <1>2 DEF Init, StageInv, FirstTable

LEMMA StageStep ==
  TxnTypeOK /\ StageInv /\ [Next]_vars => TxnTypeOK' /\ StageInv'
<1> SUFFICES ASSUME TxnTypeOK, StageInv, [Next]_vars PROVE TxnTypeOK' /\ StageInv'
  OBVIOUS
<1> USE DEF Table
<1>0. ASSUME NEW x \in Txn, NEW end \in {"failed", "died"}, xact[x] = "active",
             Rollback(x, end)
      PROVE  TxnTypeOK' /\ StageInv'
  <2>1. TxnTypeOK'
    BY <1>0, TxnAssumption DEF Rollback, TxnTypeOK
  <2>2. StageInv'
    BY <1>0, TxnAssumption DEF Rollback, TxnTypeOK, StageInv
  <2> QED
    BY <2>1, <2>2
<1>1. ASSUME NEW x \in Txn, Clear(x) PROVE TxnTypeOK' /\ StageInv'
  <2>1. Visible(tab[x], x) \in SUBSET Block
    BY DEF TxnTypeOK, Visible, Present
  <2>2. TxnTypeOK'
    BY <1>1, <2>1, TxnAssumption DEF Clear, TxnTypeOK
  <2>3. StageInv'
    BY <1>1, TxnAssumption DEF Clear, TxnTypeOK, StageInv
  <2> QED
    BY <2>2, <2>3
<1>2. ASSUME NEW x \in Txn, Clearing(x) PROVE TxnTypeOK' /\ StageInv'
  <2>1. /\ AfterClearing(x) = IF tab[x] = "columns" THEN "clear"
                              ELSE IF x \in Ingest THEN "insert" ELSE "drop"
        /\ Other(tab[x]) = IF tab[x] = "columns" THEN "rows" ELSE "columns"
    BY DEF TxnTypeOK, AfterClearing, FirstTable, Other
  <2>2. TxnTypeOK'
    BY <1>2, <2>1, TxnAssumption DEF Clearing, Runs, TxnTypeOK
  <2>3. StageInv'
    BY <1>2, <2>1, TxnAssumption DEF Clearing, Runs, TxnTypeOK, StageInv, Txn
  <2> QED
    BY <2>2, <2>3
<1>3. ASSUME NEW x \in Txn, Insert(x) PROVE TxnTypeOK' /\ StageInv'
  <2>1. /\ Other(tab[x]) = IF tab[x] = "columns" THEN "rows" ELSE "columns"
        /\ xact[x] = "active" /\ x \in Ingest /\ pc[x] = "insert" /\ x \in Block
    BY <1>3 DEF TxnTypeOK, StageInv, Other, Insert, Runs, Block
  <2>2. CASE Inserts(x) /\ Rivals(tab[x], x) # {}
    BY <1>0, <1>3, <2>1, <2>2 DEF Insert
  <2>3. CASE ~(Inserts(x) /\ Rivals(tab[x], x) # {})
    <3>0. inserted' \in [Table -> SUBSET Block]
      BY <1>3, <2>1, <2>3 DEF Insert, TxnTypeOK
    <3>1. TxnTypeOK'
      BY <1>3, <2>1, <2>3, <3>0 DEF Insert, TxnTypeOK
    <3>2. StageInv'
      BY <1>3, <2>1, <2>3, TxnAssumption DEF Insert, TxnTypeOK, StageInv, Inserts
    <3> QED
      BY <3>1, <3>2
  <2> QED
    BY <2>2, <2>3
<1>4. ASSUME NEW x \in Txn, Save(x) PROVE TxnTypeOK' /\ StageInv'
  <2>1. xact[x] = "active" /\ holder \in {None, x}
    BY <1>4 DEF TxnTypeOK, StageInv, Save, Runs, WaitsFor
  <2>2. CASE gone
    BY <1>0, <1>4, <2>1, <2>2 DEF Save
  <2>3. CASE ~gone
    BY <1>4, <2>1, <2>3, TxnAssumption DEF Save, Runs, TxnTypeOK, StageInv
  <2> QED
    BY <2>2, <2>3
<1>5. ASSUME NEW x \in Txn, Drop(x) PROVE TxnTypeOK' /\ StageInv'
  <2>1. xact[x] = "active" /\ holder \in {None, x}
    BY <1>5 DEF TxnTypeOK, StageInv, Drop, Runs, WaitsFor
  <2> QED
    BY <1>5, <2>1, TxnAssumption DEF Drop, Runs, TxnTypeOK, StageInv
<1>6. ASSUME NEW x \in Txn, Commit(x) PROVE TxnTypeOK' /\ StageInv'
  <2>1. xact[x] = "active" /\ pc[x] = "commit"
    BY <1>6 DEF TxnTypeOK, StageInv, Commit, Runs
  <2>2. CASE \E tb \in Table : References(x)[tb] # {}
    BY <1>0, <1>6, <2>1, <2>2 DEF Commit
  <2>3. CASE ~ \E tb \in Table : References(x)[tb] # {}
    BY <1>6, <2>1, <2>3, TxnAssumption DEF Commit, TxnTypeOK, StageInv
  <2> QED
    BY <2>2, <2>3
<1>7. ASSUME NEW x \in Txn, Die(x) PROVE TxnTypeOK' /\ StageInv'
  BY <1>0, <1>7 DEF Die
<1>8. CASE UNCHANGED vars
  BY <1>8 DEF vars, TxnTypeOK, StageInv
<1> QED
  BY <1>1, <1>2, <1>3, <1>4, <1>5, <1>6, <1>7, <1>8 DEF Next

\* What is in the tables is well typed, and only transactions in progress hold
\* the dataset, for any number of transactions.
THEOREM TxnTyped == Spec => []TxnTypeOK
BY TypeInit, StageInit, StageStep, PTL DEF Spec

------------------------------------------------------------------------------
\* One step

\* A step of a transaction.
Step(x) ==
  Clear(x) \/ Clearing(x) \/ Insert(x) \/ Save(x) \/ Drop(x) \/ Commit(x) \/ Die(x)

\* What is stored changes with a commit only.  A step of x changes nothing of
\* the other transactions.
LEMMA Others ==
  ASSUME TxnTypeOK, StageInv, NEW x \in Txn, Step(x)
  PROVE  /\ xact[x] \in {"idle", "active"}
         /\ \A y \in Txn \ {x} : /\ xact'[y] = xact[y] /\ pc'[y] = pc[y]
                                 /\ tab'[y] = tab[y] /\ found'[y] = found[y]
         /\ xact'[x] = "committed" <=>
              Commit(x) /\ \A tb \in Table : References(x)[tb] = {}
<1> USE DEF StageInv, TxnTypeOK
<1>1. CASE Clear(x)
  BY <1>1 DEF Clear, Commit, Runs
<1>2. CASE Clearing(x)
  BY <1>2 DEF Clearing, Commit, Runs
<1>3. CASE Insert(x)
  BY <1>3 DEF Insert, Commit, Runs, Rollback
<1>4. CASE Save(x)
  BY <1>4 DEF Save, Commit, Runs, Rollback
<1>5. CASE Drop(x)
  BY <1>5 DEF Drop, Commit, Runs
<1>6. CASE Commit(x)
  BY <1>6 DEF Commit, Runs, Rollback
<1>7. CASE Die(x)
  BY <1>7 DEF Die, Commit, Runs, Rollback
<1> QED
  BY <1>1, <1>2, <1>3, <1>4, <1>5, <1>6, <1>7 DEF Step

\* What a step may come down to: it rolls back, or goes ahead with one statement.
RollsBack(x) == xact[x] = "active" /\ \E end \in {"failed", "died"} : Rollback(x, end)

Inserting(x) == Insert(x) /\ (Inserts(x) => Rivals(tab[x], x) = {})

Locking(x) == (Save(x) /\ ~gone) \/ Drop(x)

Committing(x) == Commit(x) /\ \A tb \in Table : References(x)[tb] = {}

LEMMA Kinds ==
  ASSUME TxnTypeOK, StageInv, NEW x \in Txn, Step(x)
  PROVE  \/ RollsBack(x) \/ Clear(x) \/ Clearing(x) \/ Inserting(x)
         \/ Locking(x) \/ Committing(x)
<1>1. CASE Insert(x)
  BY <1>1 DEF Insert, Runs, RollsBack, Inserting, StageInv, TxnTypeOK
<1>2. CASE Save(x)
  BY <1>2 DEF Save, Runs, RollsBack, Locking, StageInv, TxnTypeOK
<1>3. CASE Commit(x)
  BY <1>3 DEF Commit, Runs, RollsBack, Committing, StageInv, TxnTypeOK
<1>4. CASE Die(x)
  BY <1>4 DEF Die, RollsBack
<1> QED
  BY <1>1, <1>2, <1>3, <1>4 DEF Step, Locking

\* A block is there unless somebody committed its deletion.
LEMMA PresentBlocks ==
  ASSUME TxnTypeOK, NEW tb \in Table
  PROVE  /\ Present(tb) \subseteq Block
         /\ \A b \in Block :
              b \in Present(tb) <=>
                /\ b \in inserted[tb]
                /\ deletedBy[tb][b] = None \/ xact[deletedBy[tb][b]] # "committed"
<1>1. inserted[tb] \subseteq Block
  BY DEF TxnTypeOK
<1>2. \A b \in Block : deletedBy[tb][b] \in Txn \cup {None}
  BY DEF TxnTypeOK
<1> QED
  BY <1>1, <1>2, TxnAssumption DEF Present, Committed

LEMMA PresentNext ==
  ASSUME TxnTypeOK', NEW tb \in Table
  PROVE  /\ Present(tb)' \subseteq Block
         /\ \A b \in Block :
              b \in Present(tb)' <=>
                /\ b \in inserted'[tb]
                /\ deletedBy'[tb][b] = None \/ xact'[deletedBy'[tb][b]] # "committed"
<1>1. inserted'[tb] \subseteq Block
  BY DEF TxnTypeOK
<1>2. \A b \in Block : deletedBy'[tb][b] \in Txn \cup {None}
  BY DEF TxnTypeOK
<1> QED
  BY <1>1, <1>2, TxnAssumption DEF Present, Committed

\* What each kind does to the tables.
LEMMA Tables ==
  ASSUME TxnTypeOK, TxnTypeOK', StageInv, DeletedInv, NEW x \in Txn, NEW tb \in Table
  PROVE  /\ RollsBack(x) => Present(tb)' = Present(tb) \ {x}
         /\ Clear(x) \/ Clearing(x) \/ Locking(x) => Present(tb)' = Present(tb)
         /\ Inserting(x) => Present(tb)' = IF tb = tab[x] /\ Inserts(x)
                                            THEN Present(tb) \cup {x} ELSE Present(tb)
         /\ Committing(x) => Present(tb)' = {b \in Present(tb) : deletedBy[tb][b] # x}
<1>0. /\ Present(tb) \subseteq Block /\ Present(tb)' \subseteq Block
      /\ \A b \in Block :
           /\ deletedBy[tb][b] \in Txn \cup {None}
           /\ b \in Present(tb) <=>
                /\ b \in inserted[tb]
                /\ deletedBy[tb][b] = None \/ xact[deletedBy[tb][b]] # "committed"
           /\ b \in Present(tb)' <=>
                /\ b \in inserted'[tb]
                /\ deletedBy'[tb][b] = None \/ xact'[deletedBy'[tb][b]] # "committed"
  BY PresentBlocks, PresentNext DEF TxnTypeOK
<1>1. ASSUME RollsBack(x) PROVE Present(tb)' = Present(tb) \ {x}
  <2>1. /\ inserted'[tb] = inserted[tb] \ {x}
        /\ \A b \in Block : deletedBy'[tb][b] =
                              IF deletedBy[tb][b] = x THEN None ELSE deletedBy[tb][b]
        /\ xact[x] = "active" /\ xact'[x] # "committed"
        /\ \A y \in Txn \ {x} : xact'[y] = xact[y]
    BY <1>1 DEF RollsBack, Rollback, TxnTypeOK
  <2> QED
    BY <1>0, <2>1
<1>2. ASSUME Clear(x) \/ Locking(x) PROVE Present(tb)' = Present(tb)
  <2>1. /\ inserted'[tb] = inserted[tb] /\ deletedBy'[tb] = deletedBy[tb]
        /\ xact[x] # "committed" /\ xact'[x] # "committed"
        /\ \A y \in Txn \ {x} : xact'[y] = xact[y]
    BY <1>2 DEF Clear, Locking, Save, Drop, Runs, TxnTypeOK, StageInv
  <2> QED
    BY <1>0, <2>1
<1>3. ASSUME Clearing(x) PROVE Present(tb)' = Present(tb)
  <2>1. /\ inserted'[tb] = inserted[tb] /\ xact' = xact
        /\ xact[x] # "committed"
    BY <1>3 DEF Clearing, Runs, TxnTypeOK, StageInv
  <2>2. \A b \in Block : \/ deletedBy'[tb][b] = deletedBy[tb][b]
                         \/ b \in Present(tb) /\ deletedBy'[tb][b] = x
    BY <1>3 DEF Clearing, TxnTypeOK
  <2> QED
    BY <1>0, <2>1, <2>2
<1>4. ASSUME Inserting(x)
      PROVE  Present(tb)' = IF tb = tab[x] /\ Inserts(x) THEN Present(tb) \cup {x}
                                                        ELSE Present(tb)
  <2>1. /\ inserted'[tb] = IF tb = tab[x] /\ Inserts(x) THEN inserted[tb] \cup {x}
                                                        ELSE inserted[tb]
        /\ xact' = xact /\ deletedBy' = deletedBy
        /\ x \in Block
    BY <1>4 DEF Inserting, Insert, Runs, TxnTypeOK, StageInv, Block
  <2>2. tb = tab[x] /\ Inserts(x) => x \notin inserted[tb]
    BY <1>4 DEF Inserting, Insert, Inserts, Runs, TxnTypeOK, StageInv, Table
  <2>3. x \notin inserted[tb] => deletedBy[tb][x] = None
    BY <1>0, <2>1 DEF DeletedInv
  <2> QED
    BY <1>0, <2>1, <2>2, <2>3
<1>5. ASSUME Committing(x)
      PROVE  Present(tb)' = {b \in Present(tb) : deletedBy[tb][b] # x}
  <2>1. /\ inserted'[tb] = inserted[tb] /\ deletedBy' = deletedBy
        /\ xact[x] # "committed" /\ xact'[x] = "committed"
        /\ \A y \in Txn \ {x} : xact'[y] = xact[y]
    BY <1>5 DEF Committing, Commit, Runs, TxnTypeOK, StageInv
  <2> QED
    BY <1>0, <2>1, TxnAssumption
<1> QED
  BY <1>1, <1>2, <1>3, <1>4, <1>5

\* Where transactions are with their deletions.
LEMMA Stages ==
  ASSUME TxnTypeOK, StageInv, NEW x \in Txn, Step(x), NEW tb \in Table
  PROVE  /\ \A y \in Txn \ {x} : /\ Cleared(y, tb)' <=> Cleared(y, tb)
                                 /\ SawRows(y)' <=> SawRows(y)
         /\ Cleared(x, tb) => Cleared(x, tb)'
         /\ xact'[x] = "active" /\ Cleared(x, tb)' =>
              Cleared(x, tb) \/ (Clearing(x) /\ tb = tab[x])
         /\ Clear(x) /\ tb = tab[x] => ~Cleared(x, tb)'
         /\ Clearing(x) /\ tb = tab[x] => Cleared(x, tb)'
         /\ xact'[x] = "active" /\ SawRows(x)' =>
              SawRows(x) \/ (Clear(x) /\ tab[x] = "rows")
<1> USE DEF Table
<1>1. \A y \in Txn \ {x} : xact'[y] = xact[y] /\ pc'[y] = pc[y] /\ tab'[y] = tab[y]
  BY Others DEF Step
<1>2. \A y \in Txn \ {x} : /\ Cleared(y, tb)' <=> Cleared(y, tb)
                           /\ SawRows(y)' <=> SawRows(y)
  BY <1>1 DEF Cleared, SawRows
<1>3. CASE Clear(x)
  <2>1. /\ xact'[x] = "active" /\ pc'[x] = "clearing" /\ tab'[x] = tab[x]
        /\ pc[x] = "clear" /\ tab[x] \in Table
        /\ xact[x] = "idle" <=> tab[x] = "columns"
    BY <1>3 DEF Clear, TxnTypeOK, StageInv
  <2>2. Cleared(x, tb) => Cleared(x, tb)'
    BY <2>1 DEF Cleared
  <2>3. Cleared(x, tb)' => Cleared(x, tb)
    BY <2>1 DEF Cleared
  <2>4. tb = tab[x] => ~Cleared(x, tb)'
    BY <2>1 DEF Cleared
  <2>5. SawRows(x)' => tab[x] = "rows"
    BY <2>1 DEF SawRows
  <2>6. ~Clearing(x)
    BY <2>1 DEF Clearing, Runs
  <2> QED
    BY <1>2, <1>3, <2>2, <2>3, <2>4, <2>5, <2>6
<1>4. CASE Clearing(x)
  <2>1. /\ xact'[x] = xact[x] /\ pc[x] = "clearing" /\ xact[x] # "idle"
        /\ pc'[x] = AfterClearing(x) /\ tab'[x] = Other(tab[x])
        /\ tab[x] \in Table
    BY <1>4 DEF Clearing, Runs, TxnTypeOK, StageInv
  <2>2. /\ AfterClearing(x) = IF tab[x] = "columns" THEN "clear"
                              ELSE IF x \in Ingest THEN "insert" ELSE "drop"
        /\ Other(tab[x]) = IF tab[x] = "columns" THEN "rows" ELSE "columns"
    BY DEF TxnTypeOK, AfterClearing, FirstTable, Other
  <2>3. ~Clear(x)
    BY <2>1 DEF Clear
  <2>4. Cleared(x, tb) => Cleared(x, tb)'
    BY <2>1, <2>2 DEF Cleared
  <2>5. Cleared(x, tb)' => Cleared(x, tb) \/ tb = tab[x]
    BY <2>1, <2>2 DEF Cleared
  <2>6. SawRows(x)' => SawRows(x)
    BY <2>1, <2>2 DEF SawRows
  <2>7. tb = tab[x] => Cleared(x, tb)'
    BY <2>1, <2>2 DEF Cleared
  <2> QED
    BY <1>2, <1>4, <2>3, <2>4, <2>5, <2>6, <2>7
<1>5. CASE RollsBack(x) \/ Inserting(x) \/ Locking(x) \/ Committing(x)
  <2>1. /\ xact[x] = "active" /\ xact'[x] # "idle"
        /\ xact'[x] = "active" => pc[x] \notin {"clear", "clearing"}
        /\ pc'[x] \notin {"clear", "clearing"}
        /\ xact'[x] = "active" => ~Clear(x)
        /\ Clear(x) => pc'[x] = "clearing"
    BY <1>5 DEF RollsBack, Rollback, Inserting, Insert, Locking, Save, Drop, Committing,
                Commit, Runs, Clear, TxnTypeOK, StageInv
  <2>2. Cleared(x, tb)' /\ ~Clear(x)
    BY <2>1 DEF Cleared
  <2>3. xact'[x] = "active" => Cleared(x, tb) /\ SawRows(x)
    BY <2>1 DEF Cleared, SawRows
  <2> QED
    BY <1>2, <1>5, <2>2, <2>3
<1> QED
  BY <1>3, <1>4, <1>5, Kinds

\* Commits are for good.
LEMMA Commits ==
  ASSUME TxnTypeOK, StageInv, NEW x \in Txn, Step(x), NEW b \in Block
  PROVE  /\ Committed(b)' <=> Committed(b) \/ (Committing(x) /\ b = x)
         /\ Committed(b) => b # x
<1>1. /\ \A y \in Txn \ {x} : xact'[y] = xact[y]
      /\ xact[x] # "committed"
      /\ xact'[x] = "committed" <=> Committing(x)
  BY Others DEF Step, Committing
<1> QED
  BY <1>1, TxnAssumption DEF Committed, Block, Txn

\* Deletions are made by Clearing, of what nobody else is deleting, and undone
\* by a rollback.
LEMMA Deleters ==
  ASSUME TxnTypeOK, StageInv, NEW x \in Txn, Step(x), NEW tb \in Table, NEW b \in Block
  PROVE  /\ \/ deletedBy'[tb][b] = deletedBy[tb][b] /\ (RollsBack(x) => deletedBy[tb][b] # x)
            \/ RollsBack(x) /\ deletedBy[tb][b] = x /\ deletedBy'[tb][b] = None
            \/ /\ Clearing(x) /\ tb = tab[x] /\ b \in found[x][tb] \cap Present(tb)
               /\ deletedBy'[tb][b] = x
         /\ Clearing(x) /\ tb = tab[x] /\ b \in found[x][tb] =>
              /\ b \in Present(tb) => deletedBy'[tb][b] = x
              /\ \A y \in Txn \ {x} : deletedBy[tb][b] = y => xact[y] # "active"
<1>1. CASE RollsBack(x)
  <2>1. deletedBy'[tb][b] = IF deletedBy[tb][b] = x THEN None ELSE deletedBy[tb][b]
    BY <1>1 DEF RollsBack, Rollback
  <2>2. ~Clearing(x)
    BY <1>1 DEF RollsBack, Rollback, Clearing, Runs, TxnTypeOK
  <2> QED
    BY <1>1, <2>1, <2>2
<1>2. CASE Clearing(x)
  <2>1. pc[x] = "clearing" /\ WaitsFor(x) = {}
    BY <1>2 DEF Clearing, Runs
  <2>2. WaitsFor(x) = InProgress(x, found[x][tab[x]], tab[x])
    BY <2>1 DEF WaitsFor
  <2>3. tb = tab[x] => deletedBy'[tb][b] = IF b \in found[x][tb] \cap Present(tb) THEN x
                                                                 ELSE deletedBy[tb][b]
    BY <1>2 DEF Clearing, TxnTypeOK
  <2>4. tb # tab[x] => deletedBy'[tb][b] = deletedBy[tb][b]
    BY <1>2 DEF Clearing, TxnTypeOK
  <2>5. ~RollsBack(x)
    BY <1>2 DEF RollsBack, Rollback, Clearing, Runs, TxnTypeOK
  <2>6. \A y \in Txn \ {x} : tb = tab[x] /\ b \in found[x][tb] /\ deletedBy[tb][b] = y =>
                             xact[y] # "active"
    BY <2>1, <2>2 DEF InProgress
  <2> QED
    BY <1>2, <2>3, <2>4, <2>5, <2>6
<1>3. CASE Clear(x) \/ Inserting(x) \/ Locking(x) \/ Committing(x)
  <2>1. deletedBy'[tb][b] = deletedBy[tb][b] /\ ~Clearing(x)
    BY <1>3 DEF Clear, Inserting, Insert, Locking, Save, Drop, Committing, Commit, Runs,
                Clearing
  <2>2. xact'[x] \notin {"failed", "died"}
    BY <1>3 DEF Clear, Inserting, Insert, Locking, Save, Drop, Committing, Commit, Runs,
                TxnTypeOK, StageInv
  <2>3. ~RollsBack(x)
    BY <2>2 DEF RollsBack, Rollback, TxnTypeOK
  <2> QED
    BY <2>1, <2>3
<1> QED
  BY <1>1, <1>2, <1>3, Kinds

\* A DELETE finds committed blocks only.
LEMMA Finds ==
  ASSUME TxnTypeOK, StageInv, NEW x \in Txn, Step(x), NEW y \in Txn, NEW tb \in Table
  PROVE  \/ found'[y][tb] = found[y][tb]
         \/ /\ y = x /\ Clear(x) /\ tb = tab[x]
            /\ found'[y][tb] = Visible(tb, x)
            /\ \A b \in Visible(tb, x) : b \in Block /\ Committed(b)
<1>1. CASE Clear(x)
  <2>1. x \notin inserted[tb]
    BY <1>1 DEF Clear, StageInv, TxnTypeOK, Table
  <2>2. \A b \in Visible(tb, x) : b \in Block /\ Committed(b)
    BY <2>1 DEF Visible, Present, TxnTypeOK
  <2>3. \/ y = x /\ tb = tab[x] /\ found'[y][tb] = Visible(tb, x)
        \/ found'[y][tb] = found[y][tb]
    BY <1>1 DEF Clear, TxnTypeOK
  <2> QED
    BY <1>1, <2>2, <2>3
<1>2. CASE ~Clear(x)
  BY <1>2, Kinds DEF RollsBack, Rollback, Clearing, Inserting, Insert, Locking, Save, Drop,
                     Committing, Commit
<1> QED
  BY <1>1, <1>2

LEMMA FoundStep ==
  ASSUME TxnTypeOK, TxnTypeOK', StageInv, DeletedInv, FoundInv, NEW x \in Txn, Step(x)
  PROVE  FoundInv'
<1> SUFFICES ASSUME NEW y \in Txn, NEW tb \in Table, NEW b \in found'[y][tb]
             PROVE  /\ Committed(b)'
                    /\ xact'[y] = "active" /\ Cleared(y, tb)' /\ b \in Present(tb)' =>
                         deletedBy'[tb][b] = y
  BY DEF FoundInv
<1>1. b \in Block /\ Committed(b) /\ b # x
  <2>1. b \in Block /\ Committed(b)
    <3>1. found[y][tb] \subseteq Block /\ \A c \in found[y][tb] : Committed(c)
      BY DEF FoundInv, TxnTypeOK
    <3> QED
      BY <3>1, Finds
  <2> QED
    BY <2>1, Commits
<1>2. Committed(b)'
  BY <1>1, Commits
<1>3. ASSUME xact'[y] = "active", Cleared(y, tb)', b \in Present(tb)'
      PROVE  deletedBy'[tb][b] = y
  <2>1. b \in Present(tb)
    BY <1>1, <1>3, Kinds, Tables
  <2>2. y # x => xact[y] = "active" /\ Cleared(y, tb) /\ found'[y][tb] = found[y][tb]
    BY <1>3, Others, Stages DEF Step
  <2>3. CASE y # x
    <3>1. deletedBy[tb][b] = y
      BY <2>1, <2>2, <2>3 DEF FoundInv
    <3> QED
      BY <1>1, <2>2, <2>3, <3>1, Deleters
  <2>4. CASE y = x /\ Clearing(x) /\ tb = tab[x]
    <3>1. found'[y][tb] = found[y][tb]
      BY <2>4, Finds DEF Clearing, Clear, Runs
    <3> QED
      BY <1>1, <2>1, <2>4, <3>1, Deleters
  <2>5. CASE y = x /\ ~(Clearing(x) /\ tb = tab[x])
    <3>1. Cleared(x, tb) /\ ~(Clear(x) /\ tb = tab[x])
      BY <1>3, <2>5, Stages
    <3>2. found'[x][tb] = found[x][tb]
      BY <2>5, <3>1, Finds
    <3>3. xact[x] = "active"
      BY <3>1, Others DEF Step, Cleared
    <3>4. deletedBy[tb][b] = x
      BY <2>1, <2>5, <3>1, <3>2, <3>3 DEF FoundInv
    <3>5. ~RollsBack(x)
      BY <1>3, <2>5 DEF RollsBack, Rollback, TxnTypeOK
    <3> QED
      BY <1>1, <2>5, <3>4, <3>5, Deleters
  <2> QED
    BY <2>3, <2>4, <2>5
<1> QED
  BY <1>2, <1>3

LEMMA DeletedStep ==
  ASSUME TxnTypeOK, TxnTypeOK', StageInv, FoundInv, DeletedInv, StoredInv,
         NEW x \in Txn, Step(x)
  PROVE  DeletedInv'
<1> SUFFICES ASSUME NEW tb \in Table, NEW b \in Block, NEW y \in Txn,
                    deletedBy'[tb][b] = y
             PROVE  /\ xact'[y] \in {"active", "committed"}
                    /\ Cleared(y, tb)'
                    /\ b \in found'[y][tb] \cap inserted'[tb]
                    /\ tb = "columns" /\ xact'[y] = "active" /\ SawRows(y)'
                         /\ b \notin HeaderOnly => b \in found'[y]["rows"]
  BY DEF DeletedInv
<1>0. "rows" \in Table /\ "columns" \in Table /\ y # None
  BY TxnAssumption DEF Table
<1>1. CASE deletedBy[tb][b] = y /\ (RollsBack(x) => y # x)
  <2>1. /\ xact[y] \in {"active", "committed"} /\ Cleared(y, tb)
        /\ b \in found[y][tb] /\ b \in inserted[tb]
        /\ tb = "columns" /\ xact[y] = "active" /\ SawRows(y) /\ b \notin HeaderOnly =>
             b \in found[y]["rows"]
    BY <1>1 DEF DeletedInv
  <2>2. b # x /\ Committed(b)
    BY <2>1, Commits DEF FoundInv
  <2>3. xact'[y] \in {"active", "committed"}
    <3>1. CASE y # x
      BY <2>1, <3>1, Others DEF Step
    <3>2. CASE y = x
      BY <1>1, <2>1, <3>2, Kinds
         DEF Clear, Clearing, Inserting, Insert, Locking, Save, Drop, Committing, Commit,
             TxnTypeOK
    <3> QED
      BY <3>1, <3>2
  <2>4. Cleared(y, tb)'
    BY <2>1, Stages
  <2>5. b \in found'[y][tb]
    <3>1. ~(y = x /\ Clear(x) /\ tb = tab[x])
      BY <2>1 DEF Clear, Cleared
    <3> QED
      BY <2>1, <3>1, Finds
  <2>6. b \in inserted'[tb]
    <3>1. RollsBack(x) => inserted'[tb] = inserted[tb] \ {x}
      BY DEF RollsBack, Rollback
    <3>2. ASSUME Inserting(x) PROVE inserted[tb] \subseteq inserted'[tb]
      <4>1. inserted' = inserted \/ inserted' = [inserted EXCEPT ![tab[x]] = @ \cup {x}]
        BY <3>2 DEF Inserting, Insert
      <4> QED
        BY <4>1 DEF TxnTypeOK
    <3>3. Clear(x) \/ Clearing(x) \/ Locking(x) \/ Committing(x) => inserted' = inserted
      BY DEF Clear, Clearing, Locking, Save, Drop, Committing, Commit
    <3> QED
      BY <2>1, <2>2, <3>1, <3>2, <3>3, Kinds
  <2>7. ASSUME tb = "columns", xact'[y] = "active", SawRows(y)', b \notin HeaderOnly
        PROVE  b \in found'[y]["rows"]
    <3>1. CASE y # x
      BY <1>0, <2>1, <2>7, <3>1, Finds, Others, Stages DEF Step
    <3>2. CASE y = x /\ SawRows(x)
      <4>1. ~Clear(x) /\ xact[x] = "active"
        BY <2>1, <3>2, Others DEF Clear, SawRows, Step
      <4> QED
        BY <1>0, <2>1, <2>7, <3>2, <4>1, Finds
    <3>3. CASE y = x /\ Clear(x) /\ tab[x] = "rows"
      <4>1. b \in Stored("columns")
        <5>1. xact[x] # "committed"
          BY Others DEF Step
        <5> QED
          BY <1>0, <1>1, <2>1, <2>2, <2>7, <3>3, <5>1, PresentBlocks DEF Stored
      <4>2. b \in Present("rows")
        BY <2>7, <4>1 DEF StoredInv, Stored
      <4>3. deletedBy["rows"][b] # x
        BY <1>0, <3>3 DEF DeletedInv, Cleared, Clear
      <4>4. b \in Visible("rows", x)
        BY <2>2, <4>2, <4>3 DEF Visible
      <4>5. found'[x]["rows"] = Visible("rows", x)
        BY <3>3 DEF Clear, TxnTypeOK
      <4> QED
        BY <3>3, <4>4, <4>5
    <3> QED
      BY <2>7, <3>1, <3>2, <3>3, Stages
  <2> QED
    BY <2>3, <2>4, <2>5, <2>6, <2>7
<1>2. CASE Clearing(x) /\ y = x /\ tb = tab[x] /\ b \in found[x][tb] \cap Present(tb)
  <2>1. /\ xact'[x] = "active" /\ pc[x] = "clearing" /\ inserted' = inserted
        /\ found' = found
    BY <1>2, Others DEF Clearing, Runs, StageInv, TxnTypeOK, Step
  <2>2. Cleared(x, tb)'
    BY <1>2, Stages
  <2>3. b \in inserted[tb]
    BY <1>2, PresentBlocks
  <2>4. tb = "columns" => ~SawRows(x)'
    BY <1>2, <2>1, Stages DEF SawRows, Clear
  <2> QED
    BY <1>2, <2>1, <2>2, <2>3, <2>4
<1> QED
  BY <1>0, <1>1, <1>2, Deleters

LEMMA PairStep ==
  ASSUME TxnTypeOK, TxnTypeOK', StageInv, FoundInv, DeletedInv, PairInv,
         NEW x \in Txn, Step(x)
  PROVE  PairInv'
<1> SUFFICES ASSUME NEW tb \in Table, NEW b \in Present(tb)', NEW c \in Present(tb)',
                    b # c
             PROVE  deletedBy'[tb][b] = c \/ deletedBy'[tb][c] = b
  BY DEF PairInv
<1>0. b \in Block /\ c \in Block /\ None \notin Block
  BY PresentNext, TxnAssumption DEF Block, Txn
<1>1. ASSUME NEW d \in Present(tb), NEW e \in Present(tb), deletedBy[tb][d] = e,
             RollsBack(x) => e # x
      PROVE  deletedBy'[tb][d] = e
  <2>1. d \in Block /\ e \in Block
    BY PresentBlocks
  <2>2. CASE e = Old
    BY <1>1, <2>1, <2>2, TxnAssumption DEF TxnTypeOK
  <2>3. CASE e \in Txn
    <3>1. xact[e] = "active"
      BY <1>1, <2>1, <2>3, PresentBlocks, TxnAssumption DEF DeletedInv
    <3> QED
      BY <1>1, <2>1, <2>3, <3>1, Deleters
  <2> QED
    BY <2>1, <2>2, <2>3 DEF Block, Txn
<1>2. CASE b \in Present(tb) /\ c \in Present(tb)
  <2>1. RollsBack(x) => b # x /\ c # x
    BY Tables
  <2> QED
    BY <1>1, <1>2, <2>1 DEF PairInv
<1>3. CASE Inserting(x) /\ tb = tab[x] /\ Inserts(x) /\ (b = x \/ c = x)
  <2>1. \A d \in Present(tb) : deletedBy[tb][d] = x
    BY <1>3 DEF Inserting, Rivals
  <2>2. Present(tb)' = Present(tb) \cup {x}
    BY <1>3, Tables
  <2>3. deletedBy' = deletedBy
    BY <1>3 DEF Inserting, Insert
  <2> QED
    BY <1>3, <2>1, <2>2, <2>3
<1> QED
  BY <1>2, <1>3, Kinds, Tables

\* Until a commit nobody sees what a transaction did.
LEMMA StoredKept ==
  ASSUME TxnTypeOK, TxnTypeOK', StageInv, DeletedInv, NEW x \in Txn, Step(x),
         ~Committing(x), NEW tb \in Table
  PROVE  Stored(tb)' = Stored(tb)
<1>1. /\ Present(tb) \subseteq Block /\ Present(tb)' \subseteq Block
      /\ \A b \in Block : (b \in Present(tb)' <=> b \in Present(tb)) \/ b = x
  BY Kinds, Tables, PresentBlocks, PresentNext
<1>2. \A b \in Block : (Committed(b)' <=> Committed(b)) /\ (b = x => ~Committed(b))
  BY Commits
<1> QED
  BY <1>1, <1>2 DEF Stored

\* An ingestion that commits deleted or replaced all columns and rows.
LEMMA CommitIngests ==
  ASSUME Inv, TxnTypeOK', NEW x \in Ingest, Committing(x)
  PROVE  /\ ~gone /\ ~gone'
         /\ Stored("columns")' = {x} /\ Stored("rows")' = {x} \ HeaderOnly
         /\ Stored("columns") \subseteq found[x]["columns"]
<1> USE DEF Inv
<1>0. x \in Txn /\ x \in Block /\ "columns" \in Table /\ "rows" \in Table /\ Step(x)
  BY DEF Txn, Block, Table, Step, Committing
<1>1. pc[x] = "commit" /\ xact[x] = "active" /\ x \notin Destroy
  BY <1>0, TxnAssumption DEF Committing, Commit, Runs, StageInv, TxnTypeOK
<1>2. ~gone /\ ~gone'
  <2>1. holder = x /\ x # None
    BY <1>0, <1>1, TxnAssumption DEF StageInv
  <2> QED
    BY <1>1, <2>1 DEF StoredInv, Committing, Commit, TxnTypeOK
<1>3. Cleared(x, "rows") /\ Cleared(x, "columns") /\ SawRows(x)
  BY <1>1 DEF Cleared, SawRows
<1>4. ASSUME NEW tb \in Table, x \in inserted[tb]
      PROVE  /\ x \in Present(tb) /\ deletedBy[tb][x] = None
             /\ \A c \in Present(tb) : c # x => deletedBy[tb][c] = x
  <2>1. deletedBy[tb][x] = None
    <3>1. ~Committed(x)
      BY <1>0, Commits
    <3> QED
      <4>1. deletedBy[tb][x] \in Txn \cup {None}
        BY <1>0 DEF TxnTypeOK
      <4>2. \A y \in Txn : deletedBy[tb][x] = y => x \in found[y][tb]
        BY <1>0 DEF DeletedInv
      <4>3. \A y \in Txn : x \notin found[y][tb]
        BY <3>1 DEF FoundInv
      <4> QED
        BY <4>1, <4>2, <4>3
  <2>2. x \in Present(tb)
    BY <1>0, <1>4, <2>1, PresentBlocks
  <2>3. \A c \in Present(tb) : c # None
    BY PresentBlocks, TxnAssumption DEF Block, Txn
  <2> QED
    BY <2>1, <2>2, <2>3 DEF PairInv
<1>5. ASSUME NEW tb \in Table, x \in inserted[tb] PROVE Stored(tb)' = {x}
  <2>1. Present(tb)' = {b \in Present(tb) : deletedBy[tb][b] # x}
    BY <1>0, Tables
  <2>2. Present(tb)' = {x} /\ x # None
    BY <1>0, <1>4, <1>5, <2>1, TxnAssumption
  <2>3. Committed(x)'
    BY <1>0, Commits
  <2> QED
    BY <2>2, <2>3 DEF Stored
<1>6. x \in inserted["columns"] /\ (x \in inserted["rows"] <=> x \notin HeaderOnly)
  BY <1>0, <1>1 DEF StageInv
<1>7. \A c \in Stored("columns") : c \in Block /\ c # x /\ deletedBy["columns"][c] = x
  <2>1. ~Committed(x)
    BY <1>0, Commits
  <2> QED
    BY <1>0, <1>4, <1>6, <2>1, PresentBlocks DEF Stored
<1>8. ASSUME x \in HeaderOnly PROVE Stored("rows")' = {}
  <2> SUFFICES ASSUME NEW b \in Stored("rows")' PROVE FALSE
    OBVIOUS
  <2>1. b \in Present("rows") /\ deletedBy["rows"][b] # x /\ b \in Block
    BY <1>0, Tables, PresentBlocks DEF Stored
  <2>2. b # x
    BY <1>0, <1>6, <1>8, <2>1, PresentBlocks
  <2>3. Committed(b)
    BY <1>0, <2>1, <2>2, Commits DEF Stored
  <2>4. b \in Stored("columns") /\ b \notin HeaderOnly
    BY <2>1, <2>3 DEF Stored, StoredInv
  <2>5. b \in found[x]["rows"]
    BY <1>0, <1>1, <1>3, <1>7, <2>4 DEF DeletedInv
  <2> QED
    BY <1>0, <1>1, <1>3, <2>1, <2>5 DEF FoundInv
<1>9. Stored("rows")' = {x} \ HeaderOnly
  BY <1>0, <1>5, <1>6, <1>8
<1>10. Stored("columns") \subseteq found[x]["columns"]
  BY <1>0, <1>7 DEF DeletedInv
<1> QED
  BY <1>0, <1>2, <1>5, <1>6, <1>9, <1>10

\* A deletion that commits finds nothing that it has not deleted.
LEMMA CommitDestroys ==
  ASSUME Inv, TxnTypeOK', NEW x \in Destroy, Committing(x)
  PROVE  /\ gone' /\ holder' = None
         /\ Stored("columns")' = {} /\ Stored("rows")' = {}
         /\ ~gone => Stored("columns") \subseteq found[x]["columns"]
<1> USE DEF Inv
<1>0. x \in Txn /\ x \notin Block /\ "columns" \in Table /\ "rows" \in Table /\ Step(x)
  BY TxnAssumption DEF Txn, Block, Table, Step, Committing
<1>1. pc[x] = "commit" /\ \A tb \in Table : References(x)[tb] = {}
  BY DEF Committing, Commit, Runs
<1>2. ASSUME NEW tb \in Table
      PROVE  /\ \A b \in Stored(tb)' : b \in Stored(tb) /\ deletedBy[tb][b] # x
             /\ holder = x => \A b \in Stored(tb) : b \in Block /\ deletedBy[tb][b] = x
  <2>1. \A b \in Stored(tb)' : b \in Stored(tb) /\ deletedBy[tb][b] # x
    BY <1>0, Tables, Commits, PresentBlocks DEF Stored
  <2>2. holder = x => Visible(tb, x) = {}
    BY <1>1 DEF References
  <2> QED
    BY <2>1, <2>2, PresentBlocks DEF Stored, Visible
<1>3. CASE holder = x
  <2>1. Stored("columns")' = {} /\ Stored("rows")' = {}
    BY <1>0, <1>2, <1>3
  <2>2. Stored("columns") \subseteq found[x]["columns"]
    BY <1>0, <1>2, <1>3 DEF DeletedInv
  <2>3. gone' /\ holder' = None
    BY <1>3 DEF Committing, Commit
  <2> QED
    BY <2>1, <2>2, <2>3
<1>4. CASE holder # x
  <2>1. gone /\ holder = None /\ Stored("columns") = {} /\ Stored("rows") = {}
    BY <1>0, <1>1, <1>4 DEF StageInv, StoredInv
  <2> QED
    BY <1>0, <1>2, <2>1 DEF Committing, Commit
<1> QED
  BY <1>3, <1>4

LEMMA StoredStep ==
  ASSUME Inv, TxnTypeOK', NEW x \in Txn, Step(x)
  PROVE  StoredInv'
<1>1. CASE Committing(x)
  BY <1>1, CommitIngests, CommitDestroys DEF Txn, StoredInv
<1>2. CASE ~Committing(x)
  <2>1. Stored("columns")' = Stored("columns") /\ Stored("rows")' = Stored("rows")
    BY <1>2, StoredKept DEF Inv, Table
  <2>2. gone' = gone /\ (gone => holder' = holder \/ holder' = None)
    BY <1>2, Kinds DEF Inv, RollsBack, Rollback, Clear, Clearing, Inserting, Insert,
                       Locking, Save, Drop
  <2> QED
    BY <2>1, <2>2 DEF Inv, StoredInv
<1> QED
  BY <1>1, <1>2

LEMMA InvStep == Inv /\ [Next]_vars => Inv'
<1> SUFFICES ASSUME Inv, [Next]_vars PROVE Inv'
  OBVIOUS
<1>1. TxnTypeOK' /\ StageInv'
  BY StageStep DEF Inv
<1>2. ASSUME NEW x \in Txn, Step(x) PROVE Inv'
  BY <1>1, <1>2, FoundStep, DeletedStep, PairStep, StoredStep DEF Inv
<1>3. CASE UNCHANGED vars
  BY <1>1, <1>3 DEF vars, Inv, FoundInv, DeletedInv, PairInv, StoredInv, Committed, Cleared,
                    Present, SawRows, Stored
<1> QED
  BY <1>2, <1>3 DEF Next, Step

LEMMA InvInit == Init => Inv
<1> SUFFICES ASSUME Init PROVE Inv
  OBVIOUS
<1>1. PICK B \in SUBSET {Old} : inserted = [tb \in Table |-> B]
  BY DEF Init
<1>2. \A tb \in Table, b \in Block : deletedBy[tb][b] = None
  BY DEF Init
<1>3. \A x \in Txn, tb \in Table : found[x][tb] = {}
  BY DEF Init
<1>4. \A b : b \in Txn => xact[b] = "idle"
  BY DEF Init
<1>5. FoundInv /\ DeletedInv
  BY <1>2, <1>3, TxnAssumption DEF FoundInv, DeletedInv
<1>6. \A tb \in Table : Present(tb) \subseteq {Old} /\ Stored(tb) = Present(tb) /\ Present(tb) = B
  <2>1. Old \in Block
    BY DEF Block
  <2>2. ~Committed(None) /\ Committed(Old)
    BY TxnAssumption DEF Committed, Txn
  <2> QED
    BY <1>1, <1>2, <2>1, <2>2 DEF Present, Stored
<1>7. PairInv
  BY <1>6 DEF PairInv
<1>8. StoredInv
  BY <1>6, TxnAssumption DEF StoredInv, Table, Init, Txn
<1> QED
  BY <1>5, <1>7, <1>8, TypeInit, StageInit DEF Inv

\* Of two blocks of columns that are stored, one would have replaced the other.
LEMMA OneStored ==
  ASSUME Inv, NEW b \in Stored("columns"), NEW c \in Stored("columns")
  PROVE  b = c
<1> SUFFICES ASSUME NEW d \in Stored("columns"), NEW e \in Stored("columns"),
                    deletedBy["columns"][d] = e
             PROVE  FALSE
  BY DEF Inv, PairInv, Stored, Table
<1> QED
  BY TxnAssumption DEF Inv, Stored, Present, Committed, TxnTypeOK, Block, Table

\* Whatever ingestions and deletions of a dataset overlap, its columns and rows
\* are those of one attempt.
THEOREM OneAttemptIsStored == Spec => []OneAttempt
<1>1. Inv => OneAttempt
  <2> SUFFICES ASSUME Inv PROVE OneAttempt
    OBVIOUS
  <2>1. \A b, c \in Stored("columns") : b = c
    BY OneStored
  <2>2. Stored("columns") \subseteq Block /\ Old \in Block
    BY PresentBlocks DEF Inv, Stored, Table, Block
  <2> QED
    BY <2>1, <2>2 DEF Inv, StoredInv, OneAttempt
<1> QED
  BY <1>1, InvInit, InvStep, PTL DEF Spec

------------------------------------------------------------------------------
\* The refinement of AtomicPublish

LEMMA Choice ==
  /\ OneOf({}) = None
  /\ \A B : B # {} => OneOf(B) \in B
BY DEF OneOf

\* Of columns there is one block at a time, and no more is found.
SingleInv == \A x \in Txn : \A b, c \in found[x]["columns"] : b = c

LEMMA SingleStep ==
  ASSUME Inv, SingleInv, NEW x \in Txn, Step(x)
  PROVE  SingleInv'
<1> SUFFICES ASSUME NEW y \in Txn,
                    NEW b \in found'[y]["columns"], NEW c \in found'[y]["columns"]
             PROVE  b = c
  BY DEF SingleInv
<1>1. CASE found'[y]["columns"] = found[y]["columns"]
  BY <1>1 DEF SingleInv
<1>2. CASE found'[y]["columns"] # found[y]["columns"]
  <2>1. \A d \in found'[y]["columns"] : d \in Stored("columns")
    BY <1>2, Finds DEF Inv, Table, Visible, Stored
  <2> QED
    BY <2>1, OneStored
<1> QED
  BY <1>1, <1>2

\* What a transaction did not find, it does not replace.
LEMMA Missed ==
  ASSUME Inv, SingleInv, NEW x \in Txn, NEW b \in Stored("columns"),
         b \notin found[x]["columns"]
  PROVE  Attempt \notin {Kids(x), None}
<1>1. Attempt = b
  BY Choice, OneStored DEF Attempt
<1>2. b # None
  BY PresentBlocks, TxnAssumption DEF Inv, Stored, Table, Block, Txn
<1>3. Kids(x) \in found[x]["columns"] \/ Kids(x) = None
  BY Choice DEF Kids
<1> QED
  BY <1>1, <1>2, <1>3

\* ... and what is left of the rest, it found.
LEMMA Replaced ==
  ASSUME Inv, SingleInv, NEW x \in Txn, Stored("columns") \subseteq found[x]["columns"]
  PROVE  Attempt \in {Kids(x), None}
<1>1. CASE Stored("columns") = {}
  BY <1>1, Choice DEF Attempt
<1>2. CASE Stored("columns") # {}
  <2>1. Attempt \in found[x]["columns"] /\ Kids(x) \in found[x]["columns"]
    BY <1>2, Choice DEF Attempt, Kids
  <2> QED
    BY <2>1 DEF SingleInv
<1> QED
  BY <1>1, <1>2

\* Rows are not in the way unless columns are.
LEMMA InTheWay ==
  ASSUME Inv, NEW x \in Txn, xact[x] = "active", Cleared(x, "rows"),
         NEW tb \in Table, NEW b \in Stored(tb), deletedBy[tb][b] # x
  PROVE  b \in Stored("columns") /\ b \notin found[x]["columns"]
<1> USE DEF Inv
<1>1. /\ b \in Block /\ "columns" \in Table /\ "rows" \in Table
      /\ Cleared(x, "columns") /\ SawRows(x)
  BY PresentBlocks DEF Stored, Table, Cleared, SawRows
<1>2. b \in Stored("columns")
  BY DEF StoredInv, Table
<1>3. ASSUME b \in found[x]["columns"] PROVE FALSE
  <2>1. deletedBy["columns"][b] = x
    BY <1>1, <1>2, <1>3 DEF FoundInv, Stored
  <2>2. tb = "rows" /\ b \notin HeaderOnly
    BY <2>1 DEF Table, StoredInv
  <2>3. b \in found[x]["rows"]
    BY <1>1, <2>1, <2>2 DEF DeletedInv
  <2> QED
    BY <1>1, <2>2, <2>3 DEF FoundInv, Stored
<1> QED
  BY <1>2, <1>3

\* A statement fails only because of an attempt committed since.
LEMMA InsertFails ==
  ASSUME Inv, SingleInv, NEW x \in Txn, Insert(x), Inserts(x), Rivals(tab[x], x) # {}
  PROVE  Attempt \notin {Kids(x), None}
<1> USE DEF Inv
<1> DEFINE tb == tab[x]
<1>1. /\ pc[x] = "insert" /\ xact[x] = "active" /\ tb \in Table
      /\ Cleared(x, "rows") /\ x \notin inserted[tb]
  BY DEF Insert, Runs, StageInv, TxnTypeOK, Cleared, Table
<1>2. PICK b \in Present(tb) : deletedBy[tb][b] # x
  BY DEF Rivals
<1>3. b \in Block /\ b \in inserted[tb]
  BY <1>1, <1>2, PresentBlocks
<1>4. Committed(b)
  <2>1. InProgress(x, Rivals(tb, x), tb) = {}
    BY <1>1 DEF Insert, Runs, WaitsFor
  <2>2. b \in Txn => xact[b] # "active"
    BY <1>1, <1>2, <1>3, <2>1 DEF InProgress, Rivals
  <2>3. b \in Txn => xact[b] = "committed"
    BY <1>1, <1>3, <2>2 DEF StageInv, TxnTypeOK, Table
  <2> QED
    BY <1>3, <2>3 DEF Committed, Block, Txn
<1>5. b \in Stored("columns") /\ b \notin found[x]["columns"]
  BY <1>1, <1>2, <1>4, InTheWay DEF Stored
<1> QED
  BY <1>5, Missed

LEMMA CommitFails ==
  ASSUME Inv, SingleInv, NEW x \in Txn, Commit(x), NEW tb \in Table, References(x)[tb] # {}
  PROVE  Attempt \notin {Kids(x), None}
<1> USE DEF Inv
<1>1. /\ pc[x] = "commit" /\ xact[x] = "active" /\ Cleared(x, "rows")
      /\ x \in Destroy /\ Visible(tb, x) # {}
  BY DEF Commit, Runs, StageInv, TxnTypeOK, Cleared, References
<1>2. PICK b \in Visible(tb, x) : TRUE
  BY <1>1
<1>3. b \in Stored(tb) /\ deletedBy[tb][b] # x
  BY <1>1, <1>2, PresentBlocks, TxnAssumption DEF Visible, Stored, Block, Txn
<1>4. b \in Stored("columns") /\ b \notin found[x]["columns"]
  BY <1>1, <1>3, InTheWay
<1> QED
  BY <1>4, Missed

\* Steps that AtomicPublish does not see.
LEMMA Stutters ==
  ASSUME Inv, TxnTypeOK', NEW x \in Txn, Step(x), ~Committing(x), xact' = xact, gone' = gone,
         ~(Clear(x) /\ tab[x] = "columns")
  PROVE  UNCHANGED Atomic!absVars
<1>1. Attempt' = Attempt
  BY StoredKept DEF Inv, Attempt, Table
<1>2. \A y \in Txn : found'[y]["columns"] = found[y]["columns"]
  BY Finds DEF Inv, Table
<1>3. \A y \in Txn : Kids(y)' = Kids(y)
  BY <1>2 DEF Kids
<1> QED
  BY <1>1, <1>3 DEF Atomic!absVars

\* A transaction that fails or dies changes only its own state.
LEMMA RollsBackAtomically ==
  ASSUME Inv, TxnTypeOK', NEW x \in Txn, Step(x), NEW end \in {"failed", "died"},
         Rollback(x, end), xact[x] = "active"
  PROVE  /\ xact' = [xact EXCEPT ![x] = end]
         /\ UNCHANGED <<Attempt, ~gone, [y \in Txn |-> Kids(y)]>>
<1>1. ~Committing(x)
  BY DEF Rollback, Committing, Commit, TxnTypeOK, Inv
<1>2. Attempt' = Attempt
  BY <1>1, StoredKept DEF Inv, Attempt, Table
<1>3. found' = found /\ gone' = gone
  BY DEF Rollback
<1>4. \A y \in Txn : Kids(y)' = Kids(y)
  BY <1>3 DEF Kids
<1> QED
  BY <1>2, <1>3, <1>4 DEF Rollback

LEMMA RefinementStep ==
  ASSUME Inv, TxnTypeOK', SingleInv, NEW x \in Txn, Step(x)
  PROVE  Atomic!Next \/ UNCHANGED Atomic!absVars
<1> USE DEF Inv
<1>0. Txn = Ingest \cup Destroy
  BY DEF Txn
<1>1. CASE Clear(x) /\ tab[x] = "columns"
  <2>1. xact[x] = "idle" /\ xact' = [xact EXCEPT ![x] = "active"] /\ gone' = gone
    BY <1>1 DEF Clear, StageInv
  <2>2. ~Committing(x)
    BY <1>1 DEF Clear, Committing, Commit, Runs
  <2>3. Attempt' = Attempt
    BY <2>2, StoredKept DEF Attempt, Table
  <2>4. found'[x]["columns"] = Stored("columns")
    <3>1. found'[x]["columns"] = Visible("columns", x)
      BY <1>1 DEF Clear, TxnTypeOK
    <3>2. x \notin Present("columns")
      BY <1>1 DEF Clear, StageInv, Present
    <3>3. \A b \in Present("columns") : deletedBy["columns"][b] # x
      BY <2>1, PresentBlocks DEF DeletedInv, Table
    <3> QED
      BY <3>1, <3>2, <3>3 DEF Visible, Stored
  <2>5. Kids(x)' = Attempt
    BY <2>4 DEF Kids, Attempt
  <2>6. \A y \in Txn \ {x} : Kids(y)' = Kids(y)
    BY Others DEF Kids, Step
  <2>7. [y \in Txn |-> Kids(y)]' = [[y \in Txn |-> Kids(y)] EXCEPT ![x] = Attempt]
    BY <2>5, <2>6
  <2>8. Atomic!Begin(x)
    BY <2>1, <2>3, <2>7 DEF Atomic!Begin
  <2> QED
    BY <1>0, <2>8 DEF Atomic!Next
<1>2. CASE Clear(x) /\ tab[x] # "columns"
  <2>1. xact' = xact /\ gone' = gone /\ ~Committing(x)
    BY <1>2 DEF Clear, StageInv, TxnTypeOK, Committing, Commit, Runs
  <2> QED
    BY <1>2, <2>1, Stutters
<1>3. CASE Clearing(x) \/ Inserting(x) \/ Locking(x)
  <2>1. xact' = xact /\ gone' = gone /\ ~Committing(x) /\ ~Clear(x)
    BY <1>3 DEF Clearing, Inserting, Insert, Locking, Save, Drop, Clear, Committing, Commit,
                Runs
  <2> QED
    BY <2>1, Stutters
<1>4. CASE RollsBack(x)
  <2>1. PICK end \in {"failed", "died"} : Rollback(x, end)
    BY <1>4 DEF RollsBack
  <2>2. /\ xact[x] = "active" /\ xact' = [xact EXCEPT ![x] = end]
        /\ UNCHANGED <<Attempt, ~gone, [y \in Txn |-> Kids(y)]>>
    BY <1>4, <2>1, RollsBackAtomically DEF RollsBack
  <2>3. CASE end = "died"
    <3>1. Atomic!Die(x)
      BY <2>2, <2>3 DEF Atomic!Die
    <3> QED
      BY <1>0, <3>1 DEF Atomic!Next
  <2>4. CASE end = "failed"
    <3>1. Attempt \notin {Kids(x), None} \/ (x \in Ingest /\ gone)
      <4>1. xact'[x] = "failed"
        BY <2>2, <2>4 DEF TxnTypeOK
      <4>2. CASE Insert(x)
        BY <2>2, <4>1, <4>2, InsertFails DEF Insert
      <4>3. CASE Save(x)
        BY <2>2, <4>1, <4>3 DEF Save, Runs, StageInv
      <4>4. CASE Commit(x)
        BY <2>2, <4>1, <4>4, CommitFails DEF Commit, TxnTypeOK
      <4>5. CASE Clear(x) \/ Clearing(x) \/ Drop(x) \/ Die(x)
        BY <2>2, <4>1, <4>5 DEF Clear, Clearing, Drop, Die, Rollback, TxnTypeOK
      <4> QED
        BY <4>2, <4>3, <4>4, <4>5 DEF Step
    <3>2. Atomic!Fail(x)
      BY <2>2, <2>4, <3>1 DEF Atomic!Fail, Atomic!Unseen
    <3> QED
      BY <1>0, <3>2 DEF Atomic!Next
  <2> QED
    BY <2>3, <2>4
<1>5. CASE Committing(x)
  <2>1. /\ xact[x] = "active" /\ xact' = [xact EXCEPT ![x] = "committed"]
        /\ found' = found
    BY <1>5 DEF Committing, Commit, Runs, StageInv, TxnTypeOK
  <2>2. \A y \in Txn : Kids(y)' = Kids(y)
    BY <2>1 DEF Kids
  <2>3. CASE x \in Ingest
    <3>1. ~gone /\ ~gone' /\ Attempt \in {Kids(x), None}
      BY <1>5, <2>3, CommitIngests, Replaced
    <3>2. Attempt' = x
      <4>1. Stored("columns")' = {x}
        BY <1>5, <2>3, CommitIngests
      <4>2. Attempt' = OneOf({x})
        BY <4>1 DEF Attempt, OneOf
      <4> QED
        BY <4>2, Choice
    <3>3. Atomic!CommitIngest(x)
      BY <2>1, <2>2, <2>3, <3>1, <3>2 DEF Atomic!CommitIngest, Atomic!Unseen
    <3> QED
      BY <1>0, <3>3 DEF Atomic!Next
  <2>4. CASE x \in Destroy
    <3>1. gone' /\ (~gone => Attempt \in {Kids(x), None})
      BY <1>5, <2>4, CommitDestroys, Replaced
    <3>2. Attempt' = None
      <4>1. Stored("columns")' = {}
        BY <1>5, <2>4, CommitDestroys
      <4> QED
        BY <4>1 DEF Attempt, OneOf
    <3>3. Atomic!CommitDestroy(x)
      BY <2>1, <2>2, <2>4, <3>1, <3>2 DEF Atomic!CommitDestroy, Atomic!Unseen
    <3> QED
      BY <1>0, <3>3 DEF Atomic!Next
  <2> QED
    BY <1>0, <2>3, <2>4
<1> QED
  BY <1>1, <1>2, <1>3, <1>4, <1>5, Kinds

LEMMA RefinementInit == Init => Atomic!Init
<1> SUFFICES ASSUME Init PROVE Atomic!Init
  OBVIOUS
<1>1. PICK B \in SUBSET {Old} : inserted = [tb \in Table |-> B]
  BY DEF Init
<1>2. Stored("columns") \subseteq {Old}
  BY <1>1 DEF Stored, Present, Table
<1>3. Attempt \in {None, Old}
  BY <1>2, Choice DEF Attempt
<1>4. \A x \in Txn : Kids(x) = None
  BY Choice DEF Kids, Init, Table
<1> QED
  BY <1>3, <1>4 DEF Init, Txn, Atomic!Init

\* Ingestions and deletions, statement by statement, do what AtomicPublish says:
\* each takes effect in one step, or fails because of one that committed since.
THEOREM TransactionsAreAtomic == Spec => ImplementsAtomicPublish
<1>1. Init => SingleInv
  BY DEF Init, SingleInv, Table
<1>2. Inv /\ SingleInv /\ [Next]_vars => SingleInv'
  <2> SUFFICES ASSUME Inv, SingleInv, [Next]_vars PROVE SingleInv'
    OBVIOUS
  <2>1. CASE UNCHANGED vars
    BY <2>1 DEF vars, SingleInv
  <2> QED
    BY <2>1, SingleStep DEF Next, Step
<1>3. Inv /\ Inv' /\ SingleInv /\ [Next]_vars => [Atomic!Next]_Atomic!absVars
  <2> SUFFICES ASSUME Inv, Inv', SingleInv, [Next]_vars
               PROVE  Atomic!Next \/ UNCHANGED Atomic!absVars
    BY DEF Atomic!absVars
  <2>1. CASE UNCHANGED vars
    BY <2>1 DEF vars, Atomic!absVars, Attempt, Kids, Stored, Present, Committed
  <2>2. ASSUME NEW x \in Txn, Step(x) PROVE Atomic!Next \/ UNCHANGED Atomic!absVars
    BY <2>2, RefinementStep DEF Inv
  <2> QED
    BY <2>1, <2>2 DEF Next, Step
<1> QED
  BY <1>1, <1>2, <1>3, InvInit, InvStep, RefinementInit, PTL
     DEF Spec, ImplementsAtomicPublish, Atomic!Spec

\* Of several ingestions that found the same columns, only one commits.
THEOREM NoTxnUpdateIsLost == Spec => []Atomic!NoLostUpdate
<1>1. Atomic!Distinct
  BY TxnAssumption DEF Atomic!Distinct, Txn
<1> QED
  BY <1>1, Atomic!NoUpdateIsLost, TransactionsAreAtomic, PTL DEF ImplementsAtomicPublish

------------------------------------------------------------------------------
\* Deadlocks

\* Everyone finds the attempt that was there first, as long as it is there, and
\* whoever holds the dataset is about to commit.
FirstInv ==
  /\ \A x \in Txn : Old \in Present("columns") /\ xact[x] # "idle" =>
                      Old \in found[x]["columns"]
  /\ holder # None => pc[holder] = "commit"

LEMMA FirstStep ==
  ASSUME Inv, TxnTypeOK', FirstInv, NEW x \in Txn, Step(x)
  PROVE  FirstInv'
<1> USE DEF Inv
<1>0. Old \in Block /\ "columns" \in Table /\ Committed(Old) /\ Old # x
  BY TxnAssumption DEF Block, Table, Committed
<1>1. ASSUME NEW y \in Txn, Old \in Present("columns")', xact'[y] # "idle"
      PROVE  Old \in found'[y]["columns"]
  <2>1. Old \in Present("columns")
    BY <1>0, <1>1, Kinds, Tables
  <2>2. CASE found'[y]["columns"] = found[y]["columns"]
    <3>1. CASE xact[y] # "idle"
      BY <2>1, <2>2, <3>1 DEF FirstInv
    <3>2. CASE xact[y] = "idle"
      <4>1. y = x /\ Clear(x) /\ tab[x] = "columns"
        BY <1>1, <3>2, Others, Kinds
           DEF Step, StageInv, RollsBack, Clearing, Inserting, Insert, Locking, Save, Drop,
               Committing, Commit, Runs
      <4>2. found'[x]["columns"] = Visible("columns", x)
        BY <4>1 DEF Clear, TxnTypeOK
      <4>3. deletedBy["columns"][Old] # x
        BY <1>0, <3>2, <4>1 DEF DeletedInv
      <4> QED
        BY <1>0, <2>1, <4>1, <4>2, <4>3 DEF Visible
    <3> QED
      BY <3>1, <3>2
  <2>3. CASE y = x /\ Clear(x) /\ tab[x] = "columns" /\
             found'[y]["columns"] = Visible("columns", x)
    <3>1. deletedBy["columns"][Old] # x
      BY <1>0, <2>3 DEF DeletedInv, Clear, StageInv
    <3> QED
      BY <1>0, <2>1, <2>3, <3>1 DEF Visible
  <2> QED
    BY <1>0, <2>2, <2>3, Finds
<1>2. holder' # None => pc'[holder'] = "commit"
  <2>1. CASE RollsBack(x) \/ Committing(x)
    <3>1. holder' # None => holder' = holder /\ holder # x
      BY <2>1 DEF RollsBack, Rollback, Committing, Commit
    <3> QED
      BY <3>1, Others DEF FirstInv, TxnTypeOK, Step
  <2>2. CASE Clear(x) \/ Clearing(x) \/ Inserting(x)
    <3>1. holder' = holder /\ pc[x] # "commit"
      BY <2>2 DEF Clear, Clearing, Inserting, Insert, Runs
    <3> QED
      BY <3>1, Others DEF FirstInv, TxnTypeOK, Step
  <2>3. CASE Locking(x)
    <3>1. pc'[x] = "commit" /\ (holder' = x \/ holder' = holder)
      BY <2>3 DEF Locking, Save, Drop, TxnTypeOK
    <3> QED
      BY <3>1, Others DEF FirstInv, TxnTypeOK, Step
  <2> QED
    BY <2>1, <2>2, <2>3, Kinds
<1> QED
  BY <1>1, <1>2 DEF FirstInv

\* While no ingestion committed, a transaction past its first DELETE deleted all
\* that was there.
LEMMA AllDeleted ==
  ASSUME Inv, FirstInv, \A b \in Ingest : xact[b] # "committed",
         NEW x \in Txn, xact[x] = "active", Cleared(x, "columns"), SawRows(x),
         NEW tb \in Table, tb = "rows" => Cleared(x, "rows"),
         NEW b \in Stored(tb)
  PROVE  deletedBy[tb][b] = x
<1> USE DEF Inv
<1>1. b = Old /\ b \in Block /\ "columns" \in Table /\ "rows" \in Table
  BY PresentBlocks DEF Stored, Committed, Block, Txn, Table
<1>2. b \in Stored("columns")
  BY DEF StoredInv, Table
<1>3. b \in found[x]["columns"]
  BY <1>1, <1>2 DEF FirstInv, Stored
<1>4. deletedBy["columns"][b] = x
  BY <1>1, <1>2, <1>3 DEF FoundInv, Stored
<1>5. CASE tb = "rows"
  <2>1. b \notin HeaderOnly
    BY <1>5 DEF StoredInv
  <2>2. b \in found[x]["rows"]
    BY <1>1, <1>4, <2>1 DEF DeletedInv
  <2> QED
    BY <1>1, <1>5, <2>2 DEF FoundInv, Stored
<1> QED
  BY <1>4, <1>5 DEF Table

\* Who waits for whom while no ingestion committed: whoever is waited for is
\* ahead, and nobody waits but at these three places.
Deleting(x) == pc[x] = "clearing" /\ tab[x] = "columns"

Placing(x) == pc[x] = "insert" /\ tab[x] = "columns"

Grasping(x) == pc[x] \in {"save", "drop"}

LEMMA Waiting ==
  ASSUME Inv, FirstInv, \A b \in Ingest : xact[b] # "committed",
         NEW x \in Txn, xact[x] = "active", NEW y \in WaitsFor(x),
         y \in Txn, xact[y] = "active"
  PROVE  \/ Deleting(x) /\ ~Deleting(y)
         \/ Placing(x) /\ ~Deleting(y) /\ ~Placing(y)
         \/ Grasping(x) /\ pc[y] = "commit"
<1> USE DEF Inv
<1>0. /\ "columns" \in Table /\ "rows" \in Table /\ tab[x] \in Table
      /\ y # None /\ None \notin Txn
  BY TxnAssumption DEF TxnTypeOK, Table
<1>1. ASSUME NEW tb \in Table, NEW b \in Block, Committed(b), b \in Present(tb),
             deletedBy[tb][b] = y
      PROVE  Cleared(y, tb) /\ b \in Stored(tb)
  BY <1>1 DEF DeletedInv, Stored
<1>2. CASE pc[x] = "clearing"
  <2>1. PICK b \in found[x][tab[x]] :
          y # x /\ (y = b \/ y = deletedBy[tab[x]][b])
    BY <1>2 DEF WaitsFor, InProgress
  <2>2. b \in Block /\ Committed(b) /\ y # b
    BY <1>0, <2>1 DEF FoundInv, TxnTypeOK, Committed
  <2>3. deletedBy[tab[x]][b] = y
    BY <2>1, <2>2
  <2>4. b \in Present(tab[x])
    BY <1>0, <2>2, <2>3, PresentBlocks DEF DeletedInv
  <2>5. Cleared(y, tab[x]) /\ b \in Stored(tab[x])
    BY <1>0, <1>1, <2>2, <2>3, <2>4
  <2>6. CASE tab[x] = "columns"
    BY <1>2, <2>5, <2>6 DEF Deleting, Cleared
  <2>7. CASE tab[x] = "rows"
    <3>1. b \in Stored("columns")
      BY <2>5, <2>7 DEF StoredInv
    <3>2. Cleared(x, "columns") /\ SawRows(x) /\ Cleared(y, "columns") /\ SawRows(y)
      BY <1>2, <2>5, <2>7 DEF Cleared, SawRows, StageInv
    <3>3. deletedBy["columns"][b] = x /\ deletedBy["columns"][b] = y
      BY <1>0, <3>1, <3>2, AllDeleted
    <3> QED
      BY <2>1, <3>3
  <2> QED
    BY <1>0, <2>6, <2>7 DEF Table
<1>3. CASE pc[x] = "insert"
  <2>1. PICK b \in Rivals(tab[x], x) :
          y # x /\ (y = b \/ y = deletedBy[tab[x]][b])
    BY <1>3 DEF WaitsFor, InProgress
  <2>2. b \in Block /\ b \in Present(tab[x]) /\ deletedBy[tab[x]][b] # x
    BY <1>0, <2>1, PresentBlocks DEF Rivals
  <2>3. ~Committed(b)
    <3>1. Cleared(x, "columns") /\ Cleared(x, "rows") /\ SawRows(x)
      BY <1>3 DEF Cleared, SawRows
    <3> QED
      BY <1>0, <2>2, <3>1, AllDeleted DEF Stored
  <2>4. y = b
    BY <1>0, <2>1, <2>2, <2>3 DEF DeletedInv, FoundInv
  <2>5. y \in inserted[tab[x]] /\ y \in inserted["columns"]
    BY <1>0, <2>2, <2>4, PresentBlocks DEF StageInv, Table
  <2>6. CASE tab[x] = "columns"
    BY <1>3, <2>5, <2>6 DEF Placing, Deleting, StageInv
  <2>7. CASE tab[x] = "rows"
    <3>1. x \in inserted["columns"] /\ x \in Block
      BY <1>3, <2>7 DEF StageInv, Block
    <3>2. ~Committed(x) /\ ~Committed(y)
      BY DEF Committed
    <3>3. \A z \in Txn : deletedBy["columns"][x] # z /\ deletedBy["columns"][y] # z
      BY <1>0, <2>2, <2>4, <3>1, <3>2 DEF DeletedInv, FoundInv
    <3>4. x \in Present("columns") /\ y \in Present("columns")
      BY <1>0, <2>2, <2>4, <2>5, <3>1, <3>3, PresentBlocks DEF TxnTypeOK
    <3> QED
      BY <1>0, <2>1, <3>3, <3>4 DEF PairInv
  <2> QED
    BY <1>0, <2>6, <2>7 DEF Table
<1>4. CASE Grasping(x)
  BY <1>4 DEF Grasping, WaitsFor, FirstInv
<1>5. CASE pc[x] = "commit"
  <2>1. PICK tb \in Table : \E b \in References(x)[tb] : TRUE
    BY <1>5 DEF WaitsFor, InProgress
  <2>2. PICK b \in Visible(tb, x) : x \in Destroy
    BY <2>1 DEF References
  <2>3. b \in Stored(tb) /\ deletedBy[tb][b] # x
    BY <2>2, PresentBlocks, TxnAssumption DEF Visible, Stored, Block, Txn
  <2>4. Cleared(x, "columns") /\ Cleared(x, "rows") /\ SawRows(x)
    BY <1>5 DEF Cleared, SawRows
  <2> QED
    BY <2>3, <2>4, AllDeleted
<1>6. CASE pc[x] \in {"clear", "end"}
  BY <1>6 DEF WaitsFor
<1> QED
  BY <1>2, <1>3, <1>4, <1>5, <1>6 DEF TxnTypeOK, Grasping

\* However many ingestions and deletions there are, none of them wait for each
\* other unless another ingestion committed while they were under way.
THEOREM DeadlocksNeedAThird == Spec => []DeadlockNeedsThird
<1>1. Init => FirstInv
  BY TxnAssumption DEF Init, FirstInv, Txn
<1>2. Inv /\ Inv' /\ FirstInv /\ [Next]_vars => FirstInv'
  <2> SUFFICES ASSUME Inv, Inv', FirstInv, [Next]_vars PROVE FirstInv'
    OBVIOUS
  <2>1. CASE UNCHANGED vars
    BY <2>1 DEF vars, FirstInv, Present, Committed
  <2> QED
    BY <2>1, FirstStep DEF Next, Step, Inv
<1>3. Inv /\ FirstInv => DeadlockNeedsThird
  <2> SUFFICES ASSUME Inv, FirstInv, NEW S \in SUBSET Txn, Deadlocked(S),
                      \A b \in Ingest \ S : xact[b] # "committed"
               PROVE  FALSE
    BY DEF DeadlockNeedsThird
  <2>1. /\ S # {}
        /\ \A x \in S : x \in Txn /\ xact[x] = "active"
        /\ \A x \in S : \E y \in S : y \in WaitsFor(x)
    BY DEF Deadlocked
  <2>2. \A b \in Ingest : xact[b] # "committed"
    BY <2>1
  <2>3. PICK x \in S, y \in S : ~Deleting(y)
    BY <2>1, <2>2, Waiting DEF Deleting, Placing, Grasping
  <2>4. PICK z \in S : ~Deleting(z) /\ ~Placing(z)
    BY <2>1, <2>2, <2>3, Waiting DEF Deleting, Placing, Grasping
  <2>5. PICK w \in S : pc[w] = "commit"
    BY <2>1, <2>2, <2>4, Waiting
  <2> QED
    BY <2>1, <2>2, <2>5, Waiting DEF Deleting, Placing, Grasping
<1> QED
  BY <1>1, <1>2, <1>3, InvInit, InvStep, PTL DEF Spec

==============================================================================
