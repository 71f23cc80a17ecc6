---------------------------- MODULE UploadProofs -----------------------------
(***************************************************************************)
(* Safety of Upload for any number of overlapping uploads, any forms and   *)
(* any way to give names to sheets.                                        *)
(***************************************************************************)
EXTENDS Upload, TLAPS

Stages == Failed \cup {"check", "save", "insert", "commit", "delay", "done"}

\* How many of its sheets an upload has: at least one.
LEMMA SheetCount ==
  ASSUME form \in [Request -> Forms], NEW r \in Request
  PROVE  Len(Sheets(r)) \in Nat \ {0}
<1>1. form[r] \in Forms
  OBVIOUS
<1>2. SheetsOf(form[r]) \in Seq(Sheet) \ {<<>>}
  BY <1>1, FormsAssumption DEF SheetsOf
<1> QED
  BY <1>2 DEF Sheets

\* No step changes what was asked for.
LEMMA FormsKept ==
  ASSUME [Next]_vars
  PROVE  /\ form' = form
         /\ \A r : Sheets(r)' = Sheets(r) /\ Datasets(r)' = Datasets(r)
         /\ \A d : Key(d)' = Key(d)
         /\ AllDatasets' = AllDatasets
<1>1. form' = form
  BY DEF Next, Step, Check, SaveFile, Insert, Commit, Delay, Victim, Dies,
         Crash, Unlink, DestroyRow, AdminDelete, vars
<1>2. \A r : Datasets(r)' = Datasets(r)
  BY <1>1 DEF Datasets, Positions
<1> QED
  BY <1>1, <1>2 DEF Sheets, Key, KeyOf, AllDatasets

\* The datasets of two uploads are apart.
LEMMA Apart ==
  ASSUME NEW r, NEW x, NEW i
  PROVE  <<x, i>> \in Datasets(r) <=> x = r /\ i \in 1..Len(Sheets(r))
BY DEF Datasets, Positions, Sheets

------------------------------------------------------------------------------
\* How far the datasets of an upload have got, by where its handler stands.
Inserted(r, i) == <<r, i>> \in rows

Existed(r, i) == <<r, i>> \in rows \cup deleted

AllOf(r) == \A i \in 1..Len(Sheets(r)) : Existed(r, i)

NoneOf(r) == \A i \in 1..Len(Sheets(r)) : ~Existed(r, i)

Progress(r) ==
  /\ pc[r] \in {"check", "rejected", "collided"} => NoneOf(r)
  /\ pc[r] \in {"save", "insert"} =>
       \A i \in 1..Len(Sheets(r)) : Existed(r, i) <=> i < at[r]
  /\ pc[r] \in {"commit", "delay", "done"} => AllOf(r)
  /\ pc[r] = "crashed" => AllOf(r) \/ NoneOf(r)
  /\ Open(r) => \A i \in 1..Len(Sheets(r)) : <<r, i>> \notin deleted
  /\ \A i : <<r, i>> \in unlinked =>
              ~Open(r) /\ i \in 1..Len(Sheets(r)) /\ Existed(r, i)
  /\ \A i : <<r, i>> \in queue =>
              pc[r] \in {"delay", "done", "crashed"} /\ AllOf(r)

Upto(r) ==
  /\ pc[r] \in Stages
  /\ at[r] \in Nat
  /\ pc[r] \in {"save", "insert", "commit", "delay"} =>
       at[r] \in 1..Len(Sheets(r))
  /\ pc[r] = "check" => at[r] = 1

UploadInv ==
  /\ form \in [Request -> Forms]
  /\ pc \in [Request -> Stages]
  /\ at \in [Request -> Nat]
  /\ \A r \in Request : Upto(r)
  /\ path \in [AllDatasets -> AllDatasets]
  /\ rows \cup files \cup queue \cup unlinked \cup deleted \subseteq AllDatasets
  /\ \A r \in Request : Progress(r)

LEMMA InitInv == Init => UploadInv
<1> SUFFICES ASSUME Init PROVE UploadInv
  OBVIOUS
<1>1. \A r \in Request : Upto(r)
  BY DEF Init, Upto, Stages
<1>2. \A r \in Request : Progress(r)
  BY DEF Init, Progress, NoneOf, Existed, Open
<1> QED
  BY <1>1, <1>2 DEF Init, UploadInv, Stages

\* What a step of one upload leaves alone of another.
LEMMA Others ==
  ASSUME UploadInv, [Next]_vars, NEW x \in Request,
         pc'[x] = pc[x], at'[x] = at[x],
         \A i : <<x, i>> \in rows' <=> <<x, i>> \in rows,
         \A i : <<x, i>> \in queue' <=> <<x, i>> \in queue,
         unlinked' = unlinked, deleted' = deleted
  PROVE  Upto(x)' /\ Progress(x)'
<1>1. Sheets(x)' = Sheets(x)
  BY FormsKept
<1>2. Upto(x) /\ Progress(x)
  BY DEF UploadInv
<1> QED
  BY <1>1, <1>2 DEF Upto, Progress, AllOf, NoneOf, Existed, Open

\* A step of r keeps the invariant if it does for r, and touches nothing else.
LEMMA OwnStep ==
  ASSUME UploadInv, [Next]_vars, NEW r \in Request,
         pc' = [pc EXCEPT ![r] = pc'[r]], pc'[r] \in Stages,
         at' = [at EXCEPT ![r] = at'[r]], at'[r] \in Nat,
         \A x, i : x # r => (<<x, i>> \in rows' <=> <<x, i>> \in rows),
         \A x, i : x # r => (<<x, i>> \in queue' <=> <<x, i>> \in queue),
         unlinked' = unlinked, deleted' = deleted,
         path' = path \/ path' \in [AllDatasets -> AllDatasets],
         rows' \subseteq rows \cup Datasets(r),
         files' \subseteq files \cup Datasets(r),
         queue' \subseteq queue \cup Datasets(r),
         Upto(r)', Progress(r)'
  PROVE  UploadInv'
<1>1. form' = form /\ AllDatasets' = AllDatasets /\ Datasets(r) \subseteq AllDatasets
  BY FormsKept DEF AllDatasets
<1>2. ASSUME NEW x \in Request, x # r PROVE Upto(x)' /\ Progress(x)'
  <2>1. pc'[x] = pc[x] /\ at'[x] = at[x]
    BY <1>2 DEF UploadInv
  <2> QED
    BY <1>2, <2>1, Others
<1>3. \A x \in Request : Upto(x)' /\ Progress(x)'
  BY <1>2
<1>4. pc' \in [Request -> Stages] /\ at' \in [Request -> Nat]
  BY DEF UploadInv
<1>5. (rows \cup files \cup queue \cup unlinked \cup deleted)' \subseteq AllDatasets
  BY <1>1 DEF UploadInv
<1>6. path' \in [AllDatasets -> AllDatasets]
  BY DEF UploadInv
<1> QED
  BY <1>1, <1>3, <1>4, <1>5, <1>6 DEF UploadInv

LEMMA CrashInv ==
  ASSUME UploadInv, [Next]_vars, NEW r \in Request, Crash(r),
         pc[r] \notin Failed \cup {"done"}
  PROVE  UploadInv'
<1>1. Upto(r) /\ Progress(r)
  BY DEF UploadInv
<1>2. /\ pc' = [pc EXCEPT ![r] = "crashed"] /\ pc'[r] = "crashed"
      /\ UNCHANGED <<form, at, path, files, queue, unlinked, deleted>>
  BY DEF Crash, UploadInv
<1>3. Sheets(r)' = Sheets(r)
  BY FormsKept
<1>4. at' = [at EXCEPT ![r] = at'[r]] /\ at'[r] \in Nat
  BY <1>2 DEF UploadInv
<1>5. Upto(r)'
  BY <1>2, <1>4 DEF Upto, Stages, Failed
<1>6. CASE Open(r)
  <2>1. rows' = rows \ Datasets(r)
    BY <1>6 DEF Crash, RolledBack
  <2>2. \A x, i : x # r => (<<x, i>> \in rows' <=> <<x, i>> \in rows)
    BY <2>1, Apart
  <2>3. \A i \in 1..Len(Sheets(r)) : <<r, i>> \notin rows' \cup deleted'
    BY <1>1, <1>2, <1>6, <2>1, Apart DEF Progress
  <2>4. Progress(r)'
    <3>1. \A i : <<r, i>> \notin queue' \cup unlinked'
      BY <1>1, <1>2, <1>6 DEF Progress, Open
    <3> QED
      BY <1>2, <1>3, <2>3, <3>1 DEF Progress, NoneOf, Existed, Open
  <2> QED
    BY <1>2, <1>4, <1>5, <2>1, <2>2, <2>4, OwnStep DEF UploadInv, Stages, Failed
<1>7. CASE ~Open(r)
  <2>1. rows' = rows
    BY <1>7 DEF Crash
  <2>2. pc[r] \in {"check", "delay"}
    BY <1>1, <1>7 DEF Upto, Stages, Open
  <2>3. AllOf(r) \/ NoneOf(r)
    BY <1>1, <2>2 DEF Progress
  <2>4. (AllOf(r) \/ NoneOf(r))'
    BY <1>2, <1>3, <2>1, <2>3 DEF AllOf, NoneOf, Existed
  <2>5. \A i : <<r, i>> \in queue' => AllOf(r)'
    BY <1>1, <1>2, <1>3, <2>1 DEF Progress, AllOf, Existed
  <2>6. Progress(r)'
    BY <1>1, <1>2, <1>3, <2>1, <2>4, <2>5 DEF Progress, Existed, Open
  <2> QED
    BY <1>2, <1>4, <1>5, <2>1, <2>6, OwnStep DEF UploadInv, Stages, Failed
<1> QED
  BY <1>6, <1>7

LEMMA InsertInv ==
  ASSUME UploadInv, [Next]_vars, NEW r \in Request, Insert(r)
  PROVE  UploadInv'
<1> DEFINE d == <<r, at[r]>>
           n == Len(Sheets(r))
<1>1. Upto(r) /\ Progress(r)
  BY DEF UploadInv
<1>2. /\ pc[r] = "insert" /\ Open(r)
      /\ UNCHANGED <<form, path, files, queue, unlinked, deleted>>
  BY DEF Insert, Open
<1>3. /\ Sheets(r)' = Sheets(r) /\ n \in Nat \ {0}
      /\ at[r] \in 1..n
      /\ \A i : <<r, i>> \notin queue \cup unlinked
      /\ \A i \in 1..n : Existed(r, i) <=> i < at[r]
      /\ \A i \in 1..n : <<r, i>> \notin deleted
  BY <1>1, <1>2, FormsKept, SheetCount DEF Upto, Progress, UploadInv
<1>4. CASE Rivals(d) # {}
  <2>1. /\ rows' = rows \ Datasets(r) /\ UNCHANGED at
        /\ pc' = [pc EXCEPT ![r] = "collided"] /\ pc'[r] = "collided"
    BY <1>4 DEF Insert, RolledBack, UploadInv
  <2>2. \A x, i : x # r => (<<x, i>> \in rows' <=> <<x, i>> \in rows)
    BY <2>1, Apart
  <2>3. \A i \in 1..n : <<r, i>> \notin rows' \cup deleted'
    BY <1>2, <1>3, <2>1, Apart
  <2>4. Upto(r)' /\ at' = [at EXCEPT ![r] = at'[r]] /\ at'[r] \in Nat
    BY <2>1 DEF Upto, Stages, Failed, UploadInv
  <2>5. Progress(r)'
    BY <1>2, <1>3, <2>1, <2>3 DEF Progress, NoneOf, Existed, Open
  <2> QED
    BY <1>2, <2>1, <2>2, <2>4, <2>5, OwnStep DEF UploadInv, Stages, Failed
<1>5. CASE Rivals(d) = {} /\ at[r] < n
  <2>1. /\ rows' = rows \cup {d}
        /\ at' = [at EXCEPT ![r] = at[r] + 1] /\ at'[r] = at[r] + 1
        /\ pc' = [pc EXCEPT ![r] = "save"] /\ pc'[r] = "save"
    BY <1>5 DEF Insert, UploadInv
  <2>2. Upto(r)'
    BY <1>3, <1>5, <2>1 DEF Upto, Stages
  <2>3. \A i \in 1..n : <<r, i>> \in rows' \cup deleted' <=> i < at[r] + 1
    BY <1>2, <1>3, <2>1 DEF Existed
  <2>4. Progress(r)'
    BY <1>2, <1>3, <2>1, <2>3 DEF Progress, Existed, Open
  <2>5. /\ rows' \subseteq rows \cup Datasets(r)
        /\ \A x, i : x # r => (<<x, i>> \in rows' <=> <<x, i>> \in rows)
    <3>1. d \in Datasets(r)
      BY <1>3 DEF Datasets, Positions, Sheets
    <3>2. \A x, i : x # r => <<x, i>> # d
      OBVIOUS
    <3> HIDE DEF d
    <3> QED
      BY <2>1, <3>1, <3>2
  <2>6. /\ at' = [at EXCEPT ![r] = at'[r]] /\ at'[r] \in Nat
        /\ pc' = [pc EXCEPT ![r] = pc'[r]] /\ pc'[r] \in Stages
    BY <1>3, <2>1 DEF UploadInv, Stages
  <2> QED
    BY <1>2, <2>2, <2>4, <2>5, <2>6, OwnStep
<1>6. CASE Rivals(d) = {} /\ ~(at[r] < n)
  <2>1. /\ rows' = rows \cup {d} /\ UNCHANGED at
        /\ pc' = [pc EXCEPT ![r] = "commit"] /\ pc'[r] = "commit"
    BY <1>6 DEF Insert, UploadInv
  <2>2. Upto(r)'
    BY <1>3, <2>1 DEF Upto, Stages, UploadInv
  <2>3. \A i \in 1..n : <<r, i>> \in rows' \cup deleted'
    BY <1>2, <1>3, <1>6, <2>1 DEF Existed
  <2>4. Progress(r)'
    BY <1>2, <1>3, <2>1, <2>3 DEF Progress, AllOf, Existed, Open
  <2>5. /\ rows' \subseteq rows \cup Datasets(r)
        /\ \A x, i : x # r => (<<x, i>> \in rows' <=> <<x, i>> \in rows)
    <3>1. d \in Datasets(r)
      BY <1>3 DEF Datasets, Positions, Sheets
    <3>2. \A x, i : x # r => <<x, i>> # d
      OBVIOUS
    <3> HIDE DEF d
    <3> QED
      BY <2>1, <3>1, <3>2
  <2>6. /\ at' = [at EXCEPT ![r] = at'[r]] /\ at'[r] \in Nat
        /\ pc' = [pc EXCEPT ![r] = pc'[r]] /\ pc'[r] \in Stages
    BY <1>3, <2>1 DEF UploadInv, Stages
  <2> QED
    BY <1>2, <2>2, <2>4, <2>5, <2>6, OwnStep
<1> QED
  BY <1>4, <1>5, <1>6

\* A deletion, by perform_destroy or around it, of a dataset that everybody sees.
Deletion(d) == Unlink(d) \/ DestroyRow(d) \/ AdminDelete(d)

LEMMA DeletionStep ==
  ASSUME UploadInv, NEW d \in rows \cup deleted, Deletion(d)
  PROVE  /\ UNCHANGED <<form, pc, at, path, queue>>
         /\ d \in AllDatasets /\ ~Open(d[1])
         /\ rows \ {d} \subseteq rows' /\ rows' \subseteq rows
         /\ files' \subseteq files
         /\ rows' \cup deleted' = rows \cup deleted
         /\ deleted' \subseteq deleted \cup {d} /\ unlinked' \subseteq unlinked \cup {d}
<1>1. d \in AllDatasets
  BY DEF UploadInv
<1>2. ~Open(d[1])
  <2>1. CASE DestroyRow(d)
    <3>1. PICK y \in Request : d \in Datasets(y)
      BY <1>1 DEF AllDatasets
    <3>2. PICK j \in 1..Len(Sheets(y)) : d = <<y, j>>
      BY <3>1 DEF Datasets, Positions, Sheets
    <3> QED
      BY <2>1, <3>2 DEF DestroyRow, UploadInv, Progress
  <2> QED
    BY <2>1 DEF Deletion, Unlink, AdminDelete, Deletable
<1> QED
  BY <1>1, <1>2 DEF Deletion, Unlink, DestroyRow, AdminDelete

LEMMA DeletionInv ==
  ASSUME UploadInv, [Next]_vars, NEW d \in rows \cup deleted, Deletion(d)
  PROVE  UploadInv'
<1>1. /\ UNCHANGED <<form, pc, at, path, queue>>
      /\ d \in AllDatasets /\ ~Open(d[1])
      /\ rows' \subseteq rows /\ files' \subseteq files
      /\ rows' \cup deleted' = rows \cup deleted
      /\ deleted' \subseteq deleted \cup {d} /\ unlinked' \subseteq unlinked \cup {d}
  BY DeletionStep
<1>2. AllDatasets' = AllDatasets /\ \A x : Sheets(x)' = Sheets(x)
  BY FormsKept
<1>3. PICK y \in Request : d \in Datasets(y)
  BY <1>1 DEF AllDatasets
<1>4. PICK j \in 1..Len(Sheets(y)) : d = <<y, j>>
  BY <1>3 DEF Datasets, Positions, Sheets
<1>5. \A x \in Request : Upto(x)'
  BY <1>1, <1>2 DEF Upto, UploadInv
<1>6. ASSUME NEW x \in Request PROVE Progress(x)'
  <2>1. Progress(x)
    BY DEF UploadInv
  <2>2. \A i : Existed(x, i)' <=> Existed(x, i)
    BY <1>1 DEF Existed
  <2>3. Open(x) => \A i : <<x, i>> # d
    BY <1>1, <1>4
  <2>4. Open(x)' <=> Open(x)
    BY <1>1 DEF Open
  <2>5. \A i : <<x, i>> \in unlinked' =>
          ~Open(x) /\ i \in 1..Len(Sheets(x)) /\ Existed(x, i)
    <3> SUFFICES ASSUME NEW i, <<x, i>> = d
                 PROVE  ~Open(x) /\ i \in 1..Len(Sheets(x)) /\ Existed(x, i)
      BY <1>1, <2>1 DEF Progress
    <3> QED
      BY <1>4, <2>3 DEF Existed
  <2> QED
    BY <1>1, <1>2, <2>1, <2>2, <2>3, <2>4, <2>5 DEF Progress, AllOf, NoneOf
<1>7. (rows \cup files \cup queue \cup unlinked \cup deleted)' \subseteq AllDatasets
  BY <1>1 DEF UploadInv
<1> QED
  BY <1>1, <1>2, <1>5, <1>6, <1>7 DEF UploadInv

LEMMA StepInv == UploadInv /\ [Next]_vars => UploadInv'
<1> SUFFICES ASSUME UploadInv, [Next]_vars PROVE UploadInv'
  OBVIOUS
<1>1. ASSUME NEW r \in Request, Check(r) PROVE UploadInv'
  <2>1. Upto(r) /\ Progress(r) /\ Sheets(r)' = Sheets(r)
    BY FormsKept DEF UploadInv
  <2>2. /\ pc[r] = "check" /\ pc'[r] \in {"rejected", "save"}
        /\ pc' = [pc EXCEPT ![r] = pc'[r]]
        /\ UNCHANGED <<form, at, rows, path, files, queue, unlinked, deleted>>
    BY <1>1 DEF Check, UploadInv
  <2>3. Len(Sheets(r)) \in Nat \ {0} /\ at[r] = 1
    BY <2>1, <2>2, SheetCount DEF Upto, UploadInv
  <2>4. Upto(r)'
    BY <2>1, <2>2, <2>3 DEF Upto, Stages, Failed
  <2>5. Progress(r)'
    BY <2>1, <2>2, <2>3 DEF Progress, NoneOf, Existed, Open
  <2>6. at' = [at EXCEPT ![r] = at'[r]] /\ at'[r] \in Nat /\ pc'[r] \in Stages
    BY <2>2 DEF UploadInv, Stages, Failed
  <2> QED
    BY <2>2, <2>4, <2>5, <2>6, OwnStep DEF UploadInv
<1>2. ASSUME NEW r \in Request, SaveFile(r) PROVE UploadInv'
  <2>1. Upto(r) /\ Progress(r) /\ Sheets(r)' = Sheets(r)
    BY FormsKept DEF UploadInv
  <2>2. /\ pc[r] = "save" /\ pc'[r] = "insert"
        /\ pc' = [pc EXCEPT ![r] = pc'[r]]
        /\ files' = files \cup {<<r, at[r]>>} /\ at[r] \in 1..Len(Sheets(r))
        /\ UNCHANGED <<form, at, rows, queue, unlinked, deleted>>
    BY <1>2, <2>1 DEF SaveFile, Upto, UploadInv
  <2>3. Upto(r)'
    BY <2>1, <2>2 DEF Upto, Stages
  <2>4. Progress(r)'
    BY <2>1, <2>2 DEF Progress, Existed, Open
  <2>5. at' = [at EXCEPT ![r] = at'[r]] /\ at'[r] \in Nat /\ pc'[r] \in Stages
    BY <2>2 DEF UploadInv, Stages
  <2>6. files' \subseteq files \cup Datasets(r)
    BY <2>2, Apart
  <2>7. path' \in [AllDatasets -> AllDatasets]
    <3>1. PICK p \in FreePaths(<<r, at[r]>>) : path' = [path EXCEPT ![<<r, at[r]>>] = p]
      BY <1>2 DEF SaveFile
    <3>2. <<r, at[r]>> \in AllDatasets
      BY <2>2, Apart DEF AllDatasets
    <3>3. p \in AllDatasets
      BY <3>2 DEF FreePaths, Paths, UploadInv
    <3> QED
      BY <3>1, <3>3 DEF UploadInv
  <2> QED
    BY <2>2, <2>3, <2>4, <2>5, <2>6, <2>7, OwnStep DEF UploadInv
<1>3. ASSUME NEW r \in Request, Commit(r) PROVE UploadInv'
  <2>1. Upto(r) /\ Progress(r) /\ Sheets(r)' = Sheets(r)
    BY FormsKept DEF UploadInv
  <2>2. /\ pc[r] = "commit" /\ pc'[r] = "delay" /\ at'[r] = 1
        /\ pc' = [pc EXCEPT ![r] = pc'[r]] /\ at' = [at EXCEPT ![r] = at'[r]]
        /\ UNCHANGED <<form, rows, path, files, queue, unlinked, deleted>>
    BY <1>3 DEF Commit, UploadInv
  <2>3. Len(Sheets(r)) \in Nat \ {0}
    BY SheetCount DEF UploadInv
  <2>4. Upto(r)'
    BY <2>1, <2>2, <2>3 DEF Upto, Stages
  <2>5. Progress(r)'
    BY <2>1, <2>2 DEF Progress, AllOf, Existed, Open
  <2> QED
    BY <2>2, <2>4, <2>5, OwnStep DEF UploadInv, Stages
<1>4. ASSUME NEW r \in Request, Delay(r) PROVE UploadInv'
  <2>1. Upto(r) /\ Progress(r) /\ Sheets(r)' = Sheets(r)
    BY FormsKept DEF UploadInv
  <2>2. /\ pc[r] = "delay" /\ queue' = queue \cup {<<r, at[r]>>}
        /\ UNCHANGED <<form, rows, path, files, unlinked, deleted>>
    BY <1>4 DEF Delay
  <2>3. Len(Sheets(r)) \in Nat \ {0} /\ at[r] \in 1..Len(Sheets(r))
    BY <2>1, <2>2, SheetCount DEF Upto, UploadInv
  <2>4. /\ pc' = [pc EXCEPT ![r] = pc'[r]] /\ at' = [at EXCEPT ![r] = at'[r]]
        /\ \/ pc'[r] = "delay" /\ at'[r] \in 1..Len(Sheets(r))
           \/ pc'[r] = "done" /\ at'[r] = at[r]
    BY <1>4, <2>3 DEF Delay, UploadInv
  <2>5. Upto(r)'
    BY <2>1, <2>3, <2>4 DEF Upto, Stages
  <2>6. Progress(r)'
    BY <2>1, <2>2, <2>4 DEF Progress, AllOf, Existed, Open
  <2>7. /\ queue' \subseteq queue \cup Datasets(r)
        /\ \A x, i : x # r => (<<x, i>> \in queue' <=> <<x, i>> \in queue)
    BY <2>2, <2>3, Apart
  <2>8. at'[r] \in Nat /\ pc'[r] \in Stages
    BY <2>3, <2>4 DEF Stages
  <2> QED
    BY <2>2, <2>4, <2>5, <2>6, <2>7, <2>8, OwnStep DEF UploadInv
<1>5. ASSUME NEW r \in Request, Dies(r) PROVE UploadInv'
  BY <1>5, CrashInv DEF Dies
<1>6. ASSUME NEW r \in Request, Victim(r) PROVE UploadInv'
  <2>1. WaitsFor(r) # {} /\ Crash(r)
    BY <1>6 DEF Victim
  <2>2. pc[r] = "insert"
    BY <2>1 DEF WaitsFor
  <2> QED
    BY <2>1, <2>2, CrashInv DEF Failed
<1>7. CASE UNCHANGED vars
  BY <1>7, FormsKept DEF vars, UploadInv, Upto, Progress, AllOf, NoneOf, Existed, Open
<1> QED
  BY <1>1, <1>2, <1>3, <1>4, <1>5, <1>6, <1>7, InsertInv, DeletionInv
  DEF Next, Step, Deletion

\* Every upload stays within its sheets, and only files of datasets that everybody
\* could see are deleted.
THEOREM UploadTyped == Spec => []UploadTypeOK
<1>1. UploadInv => unlinked \subseteq rows \cup deleted
  <2> SUFFICES ASSUME UploadInv, NEW d \in unlinked PROVE d \in rows \cup deleted
    OBVIOUS
  <2>1. PICK r \in Request : d \in Datasets(r)
    BY DEF UploadInv, AllDatasets
  <2>2. PICK i \in 1..Len(Sheets(r)) : d = <<r, i>>
    BY <2>1 DEF Datasets, Positions, Sheets
  <2> QED
    BY <2>2 DEF UploadInv, Progress, Existed
<1>2. UploadInv => UploadTypeOK
  BY <1>1 DEF UploadInv, UploadTypeOK, Upto, Stages
<1> QED
  BY <1>2, InitInv, StepInv, PTL DEF Spec

\* All sheets of an upload become datasets or none does: whatever it waits for
\* or collides with, and wherever it stops.
THEOREM AllOrNone == Spec => []AllSheetsOrNone
<1>1. UploadInv => AllSheetsOrNone
  <2> SUFFICES ASSUME UploadInv, NEW r \in Request, ~Open(r)
               PROVE  /\ (rows \cup deleted) \cap Datasets(r) \in {{}, Datasets(r)}
                      /\ pc[r] \in {"delay", "done"} =>
                           (rows \cup deleted) \cap Datasets(r) = Datasets(r)
    BY DEF AllSheetsOrNone
  <2>1. Progress(r) /\ Upto(r)
    BY DEF UploadInv
  <2>2. AllOf(r) => (rows \cup deleted) \cap Datasets(r) = Datasets(r)
    BY DEF AllOf, Existed, Datasets, Positions, Sheets
  <2>3. NoneOf(r) => (rows \cup deleted) \cap Datasets(r) = {}
    BY DEF NoneOf, Existed, Datasets, Positions, Sheets
  <2> QED
    BY <2>1, <2>2, <2>3 DEF Progress, Upto, Open, Stages, Failed
<1> QED
  BY <1>1, InitInv, StepInv, PTL DEF Spec

\* The datasets that have a name in the storage: those that are there, and those
\* that are about to be.
Held == rows \cup {<<r, at[r]>> : r \in {x \in Request : pc[x] = "insert"}}

Stray(d) ==
  \/ pc[d[1]] \in {"collided", "crashed"}
  \/ pc[d[1]] = "insert" /\ d[2] = at[d[1]]
  \/ d \in deleted

FileInv ==
  /\ \A d, e \in files : path[d] = path[e] => d = e
  /\ files \cap unlinked = {}
  /\ \A d \in Held : d \in files \/ path[d] \in Paths(unlinked)
  /\ \A d \in files \ rows : Stray(d)

LEMMA SaveKeepsFiles ==
  ASSUME UploadInv, FileInv, NEW r \in Request, SaveFile(r)
  PROVE  FileInv'
<1> DEFINE d == <<r, at[r]>>
<1>1. PICK p \in FreePaths(d) : path' = [path EXCEPT ![d] = p]
  BY DEF SaveFile
<1>2. /\ pc[r] = "save" /\ pc' = [pc EXCEPT ![r] = "insert"]
      /\ files' = files \cup {d}
      /\ UNCHANGED <<at, rows, unlinked, deleted>>
  BY DEF SaveFile
<1>3. /\ at[r] \in 1..Len(Sheets(r)) /\ Open(r) /\ at[r] \in Nat
      /\ d \in AllDatasets
      /\ d \notin rows \cup deleted \cup unlinked
  BY <1>2, Apart DEF UploadInv, Upto, Progress, Existed, Open, AllDatasets
<1>4. d \notin files
  BY <1>2, <1>3 DEF FileInv, Stray
<1>5. p \notin Paths(files)
  BY DEF FreePaths
<1>6. path'[d] = p /\ \A e \in AllDatasets \ {d} : path'[e] = path[e]
  BY <1>1, <1>3 DEF UploadInv
<1>7. Held' \subseteq Held \cup {d}
  BY <1>2 DEF Held, UploadInv
<1> HIDE DEF d
<1>8. \A e \in files : e \in AllDatasets \ {d} /\ path'[e] = path[e] /\ path[e] # p
  BY <1>4, <1>5, <1>6 DEF UploadInv, Paths
<1>9. \A e \in Held : e # d /\ e \in AllDatasets => path'[e] = path[e]
  BY <1>6
<1>10. Paths(unlinked)' = Paths(unlinked)
  BY <1>2, <1>3, <1>6 DEF Paths, UploadInv
<1>11. \A e \in Held : e \in AllDatasets
  BY Apart DEF Held, UploadInv, Upto, AllDatasets
<1>12. ASSUME NEW e \in files' \ rows' PROVE Stray(e)'
  <2>1. CASE e = d
    BY <1>2, <2>1 DEF Stray, UploadInv, d
  <2>2. CASE e # d
    <3>1. e \in files \ rows
      BY <1>2, <2>2
    <3>2. e[1] \in Request
      BY <3>1 DEF UploadInv, AllDatasets, Datasets
    <3> QED
      BY <1>2, <3>1, <3>2 DEF Stray, UploadInv, FileInv
  <2> QED
    BY <2>1, <2>2
<1>13. \A e, f \in files' : path'[e] = path'[f] => e = f
  BY <1>2, <1>6, <1>8 DEF FileInv
<1>14. \A e \in Held' : e \in files' \/ path'[e] \in Paths(unlinked)'
  BY <1>2, <1>7, <1>9, <1>10, <1>11 DEF FileInv
<1>15. files' \cap unlinked' = {}
  BY <1>2, <1>3 DEF FileInv
<1> QED
  BY <1>12, <1>13, <1>14, <1>15 DEF FileInv

\* What is deleted, or not yet inserted, has no name; the other steps of an upload
\* leave the storage alone.
LEMMA OtherStepsKeepFiles ==
  ASSUME UploadInv, FileInv, NEW r \in Request,
         Check(r) \/ Insert(r) \/ Commit(r) \/ Delay(r) \/ Crash(r)
  PROVE  FileInv'
<1>1. UNCHANGED <<path, files, unlinked, deleted>>
  BY DEF Check, Insert, Commit, Delay, Crash
<1>2. Paths(unlinked)' = Paths(unlinked)
  BY <1>1 DEF Paths
<1>3. /\ pc' = [pc EXCEPT ![r] = pc'[r]]
      /\ \A x \in Request \ {r} : pc'[x] = pc[x] /\ at'[x] = at[x]
  BY DEF Check, Insert, Commit, Delay, Crash, UploadInv
<1>4. \A d \in AllDatasets : d[1] \in Request /\ d = <<d[1], d[2]>>
  BY DEF AllDatasets, Datasets
<1>5. Held' \subseteq Held
  <2>1. pc'[r] # "insert"
    BY DEF Check, Insert, Commit, Delay, Crash, UploadInv
  <2>2. rows' \subseteq Held
    BY DEF Check, Insert, Commit, Delay, Crash, RolledBack, Held
  <2> QED
    BY <1>3, <2>1, <2>2 DEF Held
<1>6. ASSUME NEW d \in files \ rows' PROVE Stray(d)'
  <2>1. d[1] \in Request /\ d = <<d[1], d[2]>>
    BY <1>4 DEF UploadInv
  <2>2. CASE d[1] # r
    <3>1. d \notin rows
      BY <2>1, <2>2 DEF Check, Insert, Commit, Delay, Crash, RolledBack, Datasets
    <3> QED
      BY <1>1, <1>3, <2>1, <2>2, <3>1 DEF FileInv, Stray
  <2>3. CASE d[1] = r /\ (Check(r) \/ Commit(r) \/ Delay(r))
    <3>1. d \in files \ rows /\ pc[r] \in {"check", "commit", "delay"}
      BY <2>3 DEF Check, Commit, Delay
    <3> QED
      BY <1>1, <2>3, <3>1 DEF FileInv, Stray
  <2>4. CASE d[1] = r /\ Crash(r)
    BY <2>4 DEF Crash, Stray, UploadInv
  <2>5. CASE d[1] = r /\ Insert(r)
    <3>1. CASE Rivals(<<r, at[r]>>) # {}
      BY <2>5, <3>1 DEF Insert, Stray, UploadInv
    <3>2. CASE Rivals(<<r, at[r]>>) = {}
      <4>1. d \in files \ rows /\ d # <<r, at[r]>> /\ pc[r] = "insert"
        BY <2>5, <3>2 DEF Insert
      <4> QED
        BY <1>1, <2>1, <2>5, <4>1 DEF FileInv, Stray
    <3> QED
      BY <3>1, <3>2
  <2> QED
    BY <2>2, <2>3, <2>4, <2>5
<1> QED
  BY <1>1, <1>2, <1>5, <1>6 DEF FileInv

LEMMA DeletionsKeepFiles ==
  ASSUME UploadInv, FileInv, NEW d \in rows \cup deleted, Deletion(d)
  PROVE  FileInv'
<1>1. /\ UNCHANGED <<pc, at, path>> /\ rows' \subseteq rows /\ deleted \subseteq deleted'
      /\ unlinked \subseteq unlinked' /\ files' \subseteq files
  BY DEF Deletion, Unlink, DestroyRow, AdminDelete
<1>2. Held' \subseteq Held /\ Paths(unlinked) \subseteq Paths(unlinked)'
  BY <1>1 DEF Held, Paths
<1>3. \A e : Stray(e) => Stray(e)'
  BY <1>1 DEF Stray
<1>4. CASE Unlink(d)
  <2>1. /\ files' = {e \in files : path[e] # path[d]} /\ rows' = rows
        /\ unlinked' = unlinked \cup {d} /\ path[d] \in Paths(unlinked)'
    BY <1>1, <1>4 DEF Unlink, Paths
  <2>2. \A e \in Held' : e \in files' \/ path'[e] \in Paths(unlinked)'
    BY <1>1, <1>2, <2>1 DEF FileInv
  <2> QED
    BY <1>1, <1>3, <2>1, <2>2 DEF FileInv
<1>5. CASE DestroyRow(d) \/ AdminDelete(d)
  <2>1. /\ UNCHANGED <<files, unlinked>>
        /\ rows' = rows \ {d} /\ d \in deleted'
    BY <1>5 DEF DestroyRow, AdminDelete
  <2>2. Stray(d)'
    BY <2>1 DEF Stray
  <2> QED
    BY <1>1, <1>2, <1>3, <2>1, <2>2 DEF FileInv
<1> QED
  BY <1>4, <1>5 DEF Deletion

\* Who left a file without a dataset, and why a dataset may lack its own: because
\* perform_destroy deletes the file first, and its name may be given again.
THEOREM FilesAreAccountedFor == Spec => []FilesAccountedFor
<1>1. Init => FileInv
  BY DEF Init, FileInv, Held
<1>2. UploadInv /\ FileInv /\ [Next]_vars => FileInv'
  <2> SUFFICES ASSUME UploadInv, FileInv, [Next]_vars PROVE FileInv'
    OBVIOUS
  <2>1. CASE UNCHANGED vars
    BY <2>1 DEF vars, FileInv, Held, Stray, Paths
  <2> QED
    BY <2>1, SaveKeepsFiles, OtherStepsKeepFiles, DeletionsKeepFiles
    DEF Next, Step, Dies, Victim, Deletion
<1>3. UploadInv /\ FileInv => FilesAccountedFor
  <2> SUFFICES ASSUME UploadInv, FileInv PROVE FilesAccountedFor
    OBVIOUS
  <2>1. ASSUME NEW d \in rows, path[d] \notin Paths(unlinked)
        PROVE  {e \in files : path[e] = path[d]} = {d}
    BY <2>1 DEF FileInv, Held
  <2>2. ASSUME NEW d \in files \ rows
        PROVE  \/ pc[d[1]] \in {"collided", "crashed"}
               \/ pc[d[1]] = "insert" /\ d[2] = at[d[1]]
               \/ d \in deleted \ unlinked
    BY <2>2 DEF FileInv, Stray
  <2> QED
    BY <2>1, <2>2 DEF FilesAccountedFor
<1> QED
  BY <1>1, <1>2, <1>3, InitInv, StepInv, PTL DEF Spec

\* No message is sent for a dataset whose row is not committed.
THEOREM QueuedAreVisible == Spec => []QueuedIsVisible
<1>1. UploadInv => QueuedIsVisible
  <2> SUFFICES ASSUME UploadInv, NEW d \in queue
               PROVE  ~Open(d[1]) /\ d \in rows \cup deleted
    BY DEF QueuedIsVisible
  <2>1. PICK r \in Request : d \in Datasets(r)
    BY DEF UploadInv, AllDatasets
  <2>2. PICK i \in 1..Len(Sheets(r)) : d = <<r, i>>
    BY <2>1 DEF Datasets, Positions, Sheets
  <2>3. Progress(r)
    BY DEF UploadInv
  <2> QED
    BY <2>2, <2>3 DEF Progress, AllOf, Existed, Open
<1> QED
  BY <1>1, InitInv, StepInv, PTL DEF Spec

------------------------------------------------------------------------------
\* No owner has two datasets of one name: each INSERT finds no rival, and the
\* names that are there can only be given back.
THEOREM NamesAreTakenOnce == Spec => []NameTakenOnce
<1>1. Init => NameTakenOnce
  BY DEF Init, NameTakenOnce
<1>2. NameTakenOnce /\ [Next]_vars => NameTakenOnce'
  <2> SUFFICES ASSUME NameTakenOnce, [Next]_vars PROVE NameTakenOnce'
    OBVIOUS
  <2>1. \A d : Key(d)' = Key(d)
    BY FormsKept
  <2>2. CASE rows' \subseteq rows
    BY <2>1, <2>2 DEF NameTakenOnce
  <2>3. ASSUME NEW r \in Request, Insert(r), ~(rows' \subseteq rows)
        PROVE  NameTakenOnce'
    <3> DEFINE d == <<r, at[r]>>
    <3>1. Rivals(d) = {} /\ rows' = rows \cup {d}
      BY <2>3 DEF Insert, RolledBack
    <3>2. \A e \in rows : Key(e) # Key(d)
      BY <3>1 DEF Rivals, Sharing
    <3> HIDE DEF d
    <3> QED
      BY <2>1, <3>1, <3>2 DEF NameTakenOnce
  <2> QED
    BY <2>2, <2>3 DEF Next, Step, Check, SaveFile, Commit, Delay, Victim, Dies,
       Crash, RolledBack, Unlink, DestroyRow, AdminDelete, vars
<1> QED
  BY <1>1, <1>2, PTL DEF Spec

------------------------------------------------------------------------------
\* Messages are sent in the order of the sheets.
SentInv ==
  \A r \in Request :
    pc[r] = "delay" =>
      \A i \in 1..Len(Sheets(r)) : <<r, i>> \in queue <=> i < at[r]

LEMMA SentInductive ==
  ASSUME UploadInv, SentInv, [Next]_vars
  PROVE  SentInv'
<1> USE DEF SentInv
<1>0. /\ \A x \in Request : Upto(x) /\ Progress(x) /\ Len(Sheets(x)) \in Nat \ {0}
      /\ \A x : Sheets(x)' = Sheets(x)
      /\ pc \in [Request -> Stages] /\ at \in [Request -> Nat]
  BY FormsKept, SheetCount DEF UploadInv
<1>1. ASSUME NEW r \in Request, Commit(r) PROVE SentInv'
  <2>1. /\ pc' = [pc EXCEPT ![r] = "delay"] /\ at' = [at EXCEPT ![r] = 1]
        /\ pc[r] = "commit" /\ queue' = queue
    BY <1>1 DEF Commit
  <2>2. \A i : <<r, i>> \notin queue
    BY <1>0, <2>1 DEF Progress
  <2> QED
    BY <1>0, <2>1, <2>2
<1>2. ASSUME NEW r \in Request, Delay(r) PROVE SentInv'
  <2>1. /\ pc[r] = "delay" /\ queue' = queue \cup {<<r, at[r]>>}
        /\ at[r] \in 1..Len(Sheets(r))
        /\ \A x \in Request \ {r} : pc'[x] = pc[x] /\ at'[x] = at[x]
        /\ pc'[r] = "delay" => at'[r] = at[r] + 1
    BY <1>0, <1>2 DEF Delay, Upto
  <2>2. ASSUME NEW x \in Request, pc'[x] = "delay", NEW i \in 1..Len(Sheets(x))
        PROVE  <<x, i>> \in queue' <=> i < at'[x]
    <3>1. CASE x = r
      BY <1>0, <2>1, <2>2, <3>1
    <3>2. CASE x # r
      BY <1>0, <2>1, <2>2, <3>2
    <3> QED
      BY <3>1, <3>2
  <2> QED
    BY <1>0, <2>2
<1>3. CASE /\ \A x \in Request : pc'[x] = "delay" => pc[x] = "delay" /\ at'[x] = at[x]
           /\ queue' = queue
  BY <1>0, <1>3
<1>4. ASSUME NEW r \in Request, Check(r) \/ SaveFile(r) \/ Insert(r) \/ Crash(r)
      PROVE  SentInv'
  BY <1>0, <1>3, <1>4 DEF Check, SaveFile, Insert, Crash
<1>5. CASE UNCHANGED <<pc, at, queue>>
  BY <1>3, <1>5
<1> QED
  BY <1>1, <1>2, <1>4, <1>5 DEF Next, Step, Victim, Dies, Unlink, DestroyRow,
     AdminDelete, vars

------------------------------------------------------------------------------
\* Each step is one of AtomicUpload, or none.
Maps == Atomic!Next \/ UNCHANGED Atomic!absVars

Visible == {d \in rows : ~Open(d[1])}

\* The positions and names of the datasets are those of AtomicUpload.
LEMMA SameDatasets ==
  ASSUME form \in [Request -> Forms]
  PROVE  /\ \A r : Atomic!Datasets(r) = Datasets(r)
         /\ \A d : Atomic!Name(d) = Key(d)
BY DEF Atomic!Datasets, Datasets, Atomic!Name, Key

\* What a step of r may do to what is seen of other uploads.
LEMMA StageOf ==
  ASSUME UploadInv, NEW r \in Request, pc' = [pc EXCEPT ![r] = pc'[r]]
  PROVE  /\ \A x \in Request \ {r} : Open(x)' <=> Open(x)
         /\ [x \in Request |-> Stage(x)]' =
              [[x \in Request |-> Stage(x)] EXCEPT ![r] = Stage(r)']
<1>1. \A x \in Request \ {r} : pc'[x] = pc[x]
  BY DEF UploadInv
<1> QED
  BY <1>1 DEF Open, Stage

LEMMA StutterMaps ==
  ASSUME UploadInv, [Next]_vars, NEW r \in Request, pc' = [pc EXCEPT ![r] = pc'[r]],
         Stage(r)' = Stage(r), Visible' = Visible, queue' = queue
  PROVE  Maps
<1>1. UNCHANGED Atomic!absVars
  BY StageOf, FormsKept DEF Atomic!absVars, Visible
<1> QED
  BY <1>1 DEF Maps

LEMMA EndsMaps ==
  ASSUME UploadInv, [Next]_vars, NEW r \in Request, pc' = [pc EXCEPT ![r] = pc'[r]],
         Stage(r) \in {"asked", "sending"}, Stage(r)' = "over",
         Visible' = Visible, queue' = queue
  PROVE  Maps
<1>1. Atomic!Refuse(r) \/ Atomic!Stop(r)
  BY StageOf, FormsKept DEF Atomic!Refuse, Atomic!Stop, Visible
<1> QED
  BY <1>1 DEF Maps, Atomic!Next

\* The rows of an upload are seen, all of them, unless its transaction is open.
LEMMA VisibleOf ==
  ASSUME UploadInv, UploadInv', [Next]_vars, NEW r \in Request,
         pc' = [pc EXCEPT ![r] = pc'[r]],
         \A x, i : x # r => (<<x, i>> \in rows' <=> <<x, i>> \in rows)
  PROVE  /\ \A i : /\ <<r, i>> \in Visible <=> <<r, i>> \in rows /\ ~Open(r)
                   /\ <<r, i>> \in Visible' <=> <<r, i>> \in rows' /\ ~Open(r)'
         /\ \A x, i : x # r => (<<x, i>> \in Visible' <=> <<x, i>> \in Visible)
         /\ \A d \in Visible \cup Visible' : \E x \in Request, i \in Nat : d = <<x, i>>
<1>1. \A d \in rows : \E x \in Request, i \in Nat : d = <<x, i>>
  BY DEF UploadInv, AllDatasets, Datasets, Positions
<1>2. \A d \in rows' : \E x \in Request, i \in Nat : d = <<x, i>>
  BY DEF UploadInv, AllDatasets, Datasets, Positions
<1> QED
  BY <1>1, <1>2, StageOf DEF Visible

LEMMA VisibleKept ==
  ASSUME UploadInv, UploadInv', [Next]_vars, NEW r \in Request,
         pc' = [pc EXCEPT ![r] = pc'[r]],
         \A x, i : x # r => (<<x, i>> \in rows' <=> <<x, i>> \in rows),
         \A i : <<r, i>> \in rows' /\ ~Open(r)' <=> <<r, i>> \in rows /\ ~Open(r)
  PROVE  Visible' = Visible
<1>1. \A x, i : <<x, i>> \in Visible' <=> <<x, i>> \in Visible
  BY VisibleOf
<1>2. \A d \in Visible \cup Visible' : \E x \in Request, i \in Nat : d = <<x, i>>
  BY VisibleOf
<1> QED
  BY <1>1, <1>2

LEMMA CrashMaps ==
  ASSUME UploadInv, UploadInv', [Next]_vars, NEW r \in Request, Crash(r),
         pc[r] \notin Failed \cup {"done"}
  PROVE  Maps
<1>1. /\ pc' = [pc EXCEPT ![r] = pc'[r]] /\ pc'[r] = "crashed" /\ queue' = queue
      /\ rows' = IF Open(r) THEN rows \ Datasets(r) ELSE rows
  BY DEF Crash, RolledBack, UploadInv
<1>2. \A x, i : x # r => (<<x, i>> \in rows' <=> <<x, i>> \in rows)
  BY <1>1, Apart
<1>3. Open(r) => \A i : <<r, i>> \notin rows'
  BY <1>1, <1>2 DEF UploadInv, AllDatasets, Datasets
<1>4. Visible' = Visible
  BY <1>1, <1>2, <1>3, VisibleKept DEF Open
<1>5. Stage(r) \in {"asked", "sending"} /\ Stage(r)' = "over"
  BY <1>1 DEF Stage, Open, Failed, UploadInv, Upto, Stages
<1> QED
  BY <1>1, <1>4, <1>5, EndsMaps

LEMMA CommitMaps ==
  ASSUME UploadInv, UploadInv', NameTakenOnce, [Next]_vars, NEW r \in Request, Commit(r)
  PROVE  Maps
<1>1. /\ pc[r] = "commit" /\ pc' = [pc EXCEPT ![r] = pc'[r]] /\ pc'[r] = "delay"
      /\ UNCHANGED <<form, rows, queue>>
  BY DEF Commit, UploadInv
<1>2. Datasets(r) \subseteq rows
  BY <1>1 DEF UploadInv, Progress, AllOf, Existed, Open, Datasets, Positions, Sheets
<1>3. \A i : <<r, i>> \in rows => <<r, i>> \in Datasets(r)
  BY DEF UploadInv, AllDatasets, Datasets
<1>4. Visible' = Visible \cup Datasets(r)
  <2>1. \A d \in Datasets(r) : \E i \in Nat : d = <<r, i>>
    BY DEF Datasets, Positions
  <2> QED
    BY <1>1, <1>2, <1>3, <2>1, VisibleOf DEF Open
<1>5. \A d, e \in Visible \cup Datasets(r) : Key(d) = Key(e) => d = e
  BY <1>2 DEF NameTakenOnce, Visible
<1>6. Stage(r) = "asked" /\ Stage(r)' = "sending"
  BY <1>1 DEF Stage, Open
<1>7. Atomic!Appear(r)
  BY <1>1, <1>4, <1>5, <1>6, SameDatasets, StageOf DEF Atomic!Appear, Visible, UploadInv
<1> QED
  BY <1>7 DEF Maps, Atomic!Next

LEMMA DelayMaps ==
  ASSUME UploadInv, UploadInv', SentInv, [Next]_vars, NEW r \in Request, Delay(r)
  PROVE  Maps
<1> DEFINE d == <<r, at[r]>>
           n == Len(Sheets(r))
<1>1. /\ pc[r] = "delay" /\ pc' = [pc EXCEPT ![r] = pc'[r]]
      /\ pc'[r] = IF at[r] < n THEN "delay" ELSE "done"
      /\ UNCHANGED <<form, rows>> /\ queue' = queue \cup {d}
  BY DEF Delay, UploadInv
<1>2. n \in Nat \ {0} /\ at[r] \in 1..n
  BY <1>1, SheetCount DEF UploadInv, Upto
<1>3. \A i \in 1..n : <<r, i>> \in queue <=> i < at[r]
  BY <1>1 DEF SentInv
<1>4. d \in Datasets(r) \ queue
  BY <1>2, <1>3, Apart
<1>5. Datasets(r) \subseteq queue' <=> ~(at[r] < n)
  <2>1. Datasets(r) = {<<r, i>> : i \in 1..n}
    BY DEF Datasets, Positions, Sheets
  <2>2. CASE at[r] < n
    <3>1. <<r, n>> \in Datasets(r) /\ <<r, n>> \notin queue'
      BY <1>1, <1>2, <1>3, <2>1, <2>2
    <3> QED
      BY <2>2, <3>1
  <2>3. CASE ~(at[r] < n)
    <3>1. \A i \in 1..n : <<r, i>> \in queue'
      BY <1>1, <1>2, <1>3, <2>3
    <3> QED
      BY <2>1, <2>3, <3>1
  <2> QED
    BY <2>2, <2>3
<1>6. Visible' = Visible
  <2>1. rows' = rows /\ ~Open(r) /\ ~Open(r)'
    BY <1>1 DEF Open
  <2> QED
    BY <1>1, <2>1, VisibleKept
<1>7. /\ Stage(r) = "sending"
      /\ Stage(r)' = IF Datasets(r) \subseteq queue' THEN "over" ELSE "sending"
  BY <1>1, <1>5 DEF Stage, Open
<1> HIDE DEF d, n
<1>8. Atomic!Send(r, d)
  BY <1>1, <1>4, <1>6, <1>7, SameDatasets, StageOf DEF Atomic!Send, Visible, UploadInv
<1> QED
  BY <1>4, <1>8, SameDatasets DEF Maps, Atomic!Next, UploadInv

LEMMA InsertMaps ==
  ASSUME UploadInv, UploadInv', [Next]_vars, NEW r \in Request, Insert(r)
  PROVE  Maps
<1> DEFINE d == <<r, at[r]>>
<1>1. /\ pc[r] = "insert" /\ pc' = [pc EXCEPT ![r] = pc'[r]] /\ queue' = queue
      /\ Open(r) /\ Stage(r) = "asked"
  BY DEF Insert, Open, Stage, UploadInv
<1>2. CASE Rivals(d) # {}
  <2>1. rows' = rows \ Datasets(r) /\ pc'[r] = "collided"
    BY <1>2 DEF Insert, RolledBack, UploadInv
  <2>2. \A x, i : x # r => (<<x, i>> \in rows' <=> <<x, i>> \in rows)
    BY <2>1, Apart
  <2>3. \A i : <<r, i>> \notin rows'
    BY <2>1 DEF UploadInv, AllDatasets, Datasets
  <2>4. Visible' = Visible /\ Stage(r)' = "over"
    BY <1>1, <2>1, <2>2, <2>3, VisibleKept DEF Open, Stage
  <2> QED
    BY <1>1, <2>4, EndsMaps
<1>3. CASE Rivals(d) = {}
  <2>1. rows' = rows \cup {d} /\ pc'[r] \in {"save", "commit"}
    BY <1>3 DEF Insert, UploadInv
  <2>2. Open(r)' /\ Stage(r)' = "asked"
    BY <2>1 DEF Open, Stage
  <2>3. \A x, i : x # r => (<<x, i>> \in rows' <=> <<x, i>> \in rows)
    BY <2>1
  <2>4. Visible' = Visible
    BY <1>1, <2>2, <2>3, VisibleKept
  <2> QED
    BY <1>1, <2>2, <2>4, StutterMaps
<1> QED
  BY <1>2, <1>3

LEMMA BeforeMaps ==
  ASSUME UploadInv, UploadInv', [Next]_vars, NEW r \in Request, Check(r) \/ SaveFile(r)
  PROVE  Maps
<1>1. /\ pc' = [pc EXCEPT ![r] = pc'[r]] /\ UNCHANGED <<rows, queue>>
      /\ \/ pc[r] = "check" /\ pc'[r] \in {"save", "rejected"}
         \/ pc[r] = "save" /\ pc'[r] = "insert"
  BY DEF Check, SaveFile, UploadInv
<1>2. pc[r] = "check" => \A i : <<r, i>> \notin rows
  BY DEF UploadInv, Progress, NoneOf, Existed, AllDatasets, Datasets, Positions, Sheets
<1>3. Visible' = Visible
  BY <1>1, <1>2, VisibleKept DEF Open
<1>4. Stage(r) = "asked" /\ Stage(r)' \in {"asked", "over"}
  BY <1>1 DEF Stage, Open
<1> QED
  BY <1>1, <1>3, <1>4, StutterMaps, EndsMaps

\* Uploads take effect as AtomicUpload says: the datasets of each appear in one
\* step, under names that are free at that moment, or never, and a message for
\* each is sent after that, once.
THEOREM UploadsAreAtomic == Spec => ImplementsAtomicUpload
<1>1. Init => SentInv
  BY DEF Init, SentInv
<1>2. Init => Atomic!Init
  <2> SUFFICES ASSUME Init PROVE Atomic!Init
    OBVIOUS
  <2>1. \A r \in Request : Positions(form[r]) # {}
    <3>1. ASSUME NEW r \in Request PROVE 1 \in 1..Len(Sheets(r))
      <4>1. Len(Sheets(r)) \in Nat \ {0}
        BY SheetCount DEF Init
      <4> QED
        BY <4>1
    <3> QED
      BY <3>1 DEF Positions, Sheets
  <2> QED
    BY <2>1 DEF Init, Atomic!Init, Stage, Open
<1>3. /\ UploadInv /\ UploadInv' /\ SentInv /\ NameTakenOnce /\ [Next]_vars
      => [Atomic!Next]_Atomic!absVars
  <2> SUFFICES ASSUME UploadInv, UploadInv', SentInv, NameTakenOnce, [Next]_vars
               PROVE  Maps
    BY DEF Maps, Atomic!absVars
  <2>1. CASE UNCHANGED vars
    BY <2>1 DEF vars, Maps, Atomic!absVars, Open, Stage
  <2>2. ASSUME NEW r \in Request, Dies(r) \/ Victim(r) PROVE Maps
    <3>1. CASE Dies(r)
      BY <3>1, CrashMaps DEF Dies
    <3>2. CASE Victim(r)
      <4>1. WaitsFor(r) # {} /\ Crash(r)
        BY <3>2 DEF Victim
      <4>2. pc[r] = "insert"
        BY <4>1 DEF WaitsFor
      <4> QED
        BY <4>1, <4>2, CrashMaps DEF Failed
    <3> QED
      BY <2>2, <3>1, <3>2
  <2>3. ASSUME NEW d \in rows \cup deleted, Deletion(d) PROVE Maps
    <3>1. UNCHANGED <<form, queue, pc>> /\ ~Open(d[1])
      BY <2>3, DeletionStep
    <3>2. [x \in Request |-> Stage(x)]' = [x \in Request |-> Stage(x)]
      BY <3>1 DEF Stage, Open
    <3>3. CASE Unlink(d)
      <4>1. Visible' = Visible
        BY <3>1, <3>3 DEF Unlink, Visible, Open
      <4> QED
        BY <3>1, <3>2, <4>1 DEF Maps, Atomic!absVars, Visible
    <3>4. CASE DestroyRow(d) \/ AdminDelete(d)
      <4>1. d \in Visible /\ Visible' = Visible \ {d}
        BY <3>1, <3>4 DEF DestroyRow, AdminDelete, Visible, Open
      <4>2. Atomic!Delete(d)
        BY <3>1, <3>2, <4>1 DEF Atomic!Delete, Visible
      <4> QED
        BY <4>1, <4>2 DEF Maps, Atomic!Next, Visible
    <3> QED
      BY <2>3, <3>3, <3>4 DEF Deletion
  <2> QED
    BY <2>1, <2>2, <2>3, BeforeMaps, InsertMaps, CommitMaps, DelayMaps
       DEF Next, Step, Deletion
<1> QED
  BY <1>1, <1>2, <1>3, SentInductive, InitInv, StepInv, NamesAreTakenOnce, PTL
     DEF Spec, ImplementsAtomicUpload, Atomic!Spec

------------------------------------------------------------------------------
\* Why every upload ends.

Over(r) == pc[r] \in Failed \cup {"done"}

\* How many steps an upload still takes at most.
StepsLeft(r) ==
  LET n == Len(Sheets(r))
  IN  IF pc[r] = "check" THEN 3 * n + 2
      ELSE IF pc[r] = "save" THEN n + 1 + 2 * (n + 1 - at[r])
      ELSE IF pc[r] = "insert" THEN n + 2 * (n + 1 - at[r])
      ELSE IF pc[r] = "commit" THEN n + 1
      ELSE IF pc[r] = "delay" THEN n + 1 - at[r]
      ELSE 0

\* An upload of n sheets is over after 3n + 2 steps at most, whatever they are:
\* each step of one leaves it fewer, and leaves the others as many as they had.
StepsRunOut ==
  \A r \in Request : /\ StepsLeft(r) \in Nat
                     /\ StepsLeft(r) = 0 <=> Over(r)

Advance ==
  \A r \in Request : /\ StepsLeft(r)' \in 0..StepsLeft(r)
                     /\ Step(r) \/ Dies(r) => StepsLeft(r)' < StepsLeft(r)

\* As long as an upload is not over, one of them need not wait, or is among some
\* that wait for each other, so that the database makes it fail.
NobodyIsStuck ==
  (\E r \in Request : ~Over(r)) =>
    \E r \in Request :
      /\ ~Over(r)
      /\ \/ WaitsFor(r) = {}
         \/ \E S \in SUBSET Request : r \in S /\ \A x \in S : WaitsFor(x) \cap S # {}

LEMMA StepsCount == UploadInv => StepsRunOut
<1> SUFFICES ASSUME UploadInv, NEW r \in Request
             PROVE  StepsLeft(r) \in Nat /\ (StepsLeft(r) = 0 <=> Over(r))
  BY DEF StepsRunOut
<1> DEFINE n == Len(Sheets(r))
<1>1. n \in Nat \ {0} /\ at[r] \in Nat
  BY SheetCount DEF UploadInv
<1>2. /\ pc[r] \in Stages
      /\ pc[r] \in {"save", "insert", "commit", "delay"} => at[r] \in 1..n
  BY DEF UploadInv, Upto
<1> HIDE DEF n
<1> QED
  BY <1>1, <1>2 DEF StepsLeft, Over, Stages, Failed, n

\* A step takes an upload further, and nobody else back.
LEMMA StepAdvances ==
  ASSUME UploadInv, [Next]_vars, NEW r \in Request, Step(r) \/ Dies(r)
  PROVE  /\ StepsLeft(r)' < StepsLeft(r)
         /\ \A x \in Request \ {r} : StepsLeft(x)' = StepsLeft(x)
<1> DEFINE n == Len(Sheets(r))
<1>1. n \in Nat \ {0} /\ at[r] \in Nat /\ Sheets(r)' = Sheets(r)
  BY SheetCount, FormsKept DEF UploadInv
<1>2. /\ pc[r] \in Stages
      /\ pc[r] \in {"save", "insert", "commit", "delay"} => at[r] \in 1..n
      /\ pc[r] = "check" => at[r] = 1
  BY DEF UploadInv, Upto
<1>3. \A x \in Request \ {r} : StepsLeft(x)' = StepsLeft(x)
  <2>1. \A x \in Request \ {r} : pc'[x] = pc[x] /\ at'[x] = at[x] /\ Sheets(x)' = Sheets(x)
    BY FormsKept DEF Step, Check, SaveFile, Insert, Commit, Delay, Victim, Dies, Crash,
       UploadInv
  <2> QED
    BY <2>1 DEF StepsLeft
<1>4. CASE Crash(r) /\ pc[r] \notin Failed \cup {"done"}
  <2>1. pc'[r] = "crashed"
    BY <1>4 DEF Crash, UploadInv
  <2>2. StepsLeft(r)' = 0
    BY <2>1 DEF StepsLeft
  <2>3. StepsLeft(r) \in Nat \ {0}
    BY <1>4, StepsCount DEF StepsRunOut, Over
  <2> QED
    BY <1>3, <2>2, <2>3
<1>5. CASE Victim(r) \/ Dies(r)
  <2>1. CASE Dies(r)
    BY <1>4, <2>1 DEF Dies
  <2>2. CASE Victim(r)
    <3>1. WaitsFor(r) # {} /\ Crash(r)
      BY <2>2 DEF Victim
    <3>2. pc[r] = "insert"
      BY <3>1 DEF WaitsFor
    <3> QED
      BY <1>4, <3>1, <3>2 DEF Failed
  <2> QED
    BY <1>5, <2>1, <2>2
<1>6. CASE Check(r) \/ SaveFile(r) \/ Insert(r) \/ Commit(r) \/ Delay(r)
  <2>1. \/ pc[r] = "check" /\ pc'[r] \in {"save", "rejected"} /\ at'[r] = at[r]
        \/ pc[r] = "save" /\ pc'[r] = "insert" /\ at'[r] = at[r]
        \/ /\ pc[r] = "insert"
           /\ \/ pc'[r] = "collided"
              \/ pc'[r] = "save" /\ at'[r] = at[r] + 1
              \/ pc'[r] = "commit"
        \/ pc[r] = "commit" /\ pc'[r] = "delay" /\ at'[r] = 1
        \/ /\ pc[r] = "delay"
           /\ \/ pc'[r] = "delay" /\ at'[r] = at[r] + 1
              \/ pc'[r] = "done"
    BY <1>6 DEF Check, SaveFile, Insert, Commit, Delay, UploadInv
  <2> HIDE DEF n
  <2>2. StepsLeft(r)' < StepsLeft(r)
    BY <1>1, <1>2, <2>1 DEF StepsLeft, n
  <2> QED
    BY <1>3, <2>2
<1> QED
  BY <1>5, <1>6 DEF Step

\* An upload of n sheets is over after 3n + 2 steps at most.
THEOREM UploadsAreBounded == Spec => []StepsRunOut /\ [][Advance]_vars
<1>1. UploadInv /\ StepsRunOut /\ StepsRunOut' /\ [Next]_vars => [Advance]_vars
  <2> SUFFICES ASSUME UploadInv, StepsRunOut, StepsRunOut', Next PROVE Advance
    OBVIOUS
  <2> SUFFICES ASSUME NEW r \in Request
               PROVE  /\ StepsLeft(r)' \in 0..StepsLeft(r)
                      /\ Step(r) \/ Dies(r) => StepsLeft(r)' < StepsLeft(r)
    BY DEF Advance
  <2>1. StepsLeft(r) \in Nat /\ StepsLeft(r)' \in Nat
    BY DEF StepsRunOut
  <2>2. \A x \in Request : Step(x) \/ Dies(x) =>
           /\ StepsLeft(x)' < StepsLeft(x)
           /\ x # r => StepsLeft(r)' = StepsLeft(r)
    BY StepAdvances
  <2>3. ASSUME NEW d \in rows \cup deleted, Deletion(d) PROVE StepsLeft(r)' = StepsLeft(r)
    BY <2>3, FormsKept, DeletionStep DEF StepsLeft
  <2> QED
    BY <2>1, <2>2, <2>3 DEF Next, Deletion
<1>2. UploadInv => StepsRunOut
  BY StepsCount
<1> QED
  BY <1>1, <1>2, InitInv, StepInv, PTL DEF Spec

\* Uploads that wait for each other's names never all wait for ever.
THEOREM SomeUploadGoesOn == Spec => []NobodyIsStuck
<1>1. UploadInv => NobodyIsStuck
  <2> SUFFICES ASSUME UploadInv, NEW r \in Request, ~Over(r),
                      \A x \in Request : Over(x) \/ WaitsFor(x) # {}
               PROVE  \E S \in SUBSET Request :
                        r \in S /\ \A x \in S : WaitsFor(x) \cap S # {}
    BY DEF NobodyIsStuck
  <2> DEFINE S == {x \in Request : ~Over(x)}
  <2>1. ASSUME NEW x \in S, NEW y \in WaitsFor(x) PROVE y \in S
    <3>1. PICK e \in rows : y = e[1] /\ Open(y)
      BY <2>1 DEF WaitsFor, Rivals, Sharing
    <3>2. y \in Request
      BY <3>1 DEF UploadInv, AllDatasets, Datasets
    <3> QED
      BY <3>1, <3>2 DEF Open, Over, Failed
  <2>2. \A x \in S : WaitsFor(x) \cap S # {}
    BY <2>1
  <2> QED
    BY <2>2
<1> QED
  BY <1>1, InitInv, StepInv, PTL DEF Spec

==============================================================================
