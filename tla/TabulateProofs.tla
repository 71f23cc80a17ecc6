---------------------------- MODULE TabulateProofs ---------------------------
(***************************************************************************)
(* What Tabulate makes of any file: any header, any number of rows, any    *)
(* cap and sample size.                                                    *)
(***************************************************************************)
EXTENDS Tabulate, ColumnNamesProofs, FiniteSetTheorems, FunctionTheorems,
        WellFoundedInduction

\* Tabulation names columns as ColumnNames does, and does nothing else to them.
THEOREM ImplementsColumnNames == Spec => NamesSpec
<1>1. Init => NamesInit
  BY DEF Init
<1>2. [Next]_vars => [NamesNext]_namesVars
  BY DEF Next, vars, RaiseIfEmpty, ParseCsvRows, LoadWorkbook, ReadRow, MalformedRow,
         EndOfSheet, Fail, Proceed, Name, DetectColumnTypes, Show, Store
<1> QED
  BY <1>1, <1>2, PTL DEF Spec, NamesSpec

------------------------------------------------------------------------------
\* Files and types

FileOK ==
  /\ file \in Files
  /\ header = Slugs(file.header)

LEMMA FileKept == Spec => []FileOK
<1>1. Init => FileOK
  BY DEF Init, FileOK
<1>2. FileOK /\ [Next]_vars => FileOK'
  BY DEF FileOK, Next, vars, namesVars, RaiseIfEmpty, ParseCsvRows, LoadWorkbook,
         ReadRow, MalformedRow, EndOfSheet, Fail, Proceed, Name, NamesNext, FirstUse,
         Repeated, CandidateTaken, CandidateFree, DetectColumnTypes, Show, Store
<1> QED
  BY <1>1, <1>2, PTL DEF Spec

LEMMA Sizes ==
  ASSUME FileOK
  PROVE  /\ Lines \in Nat
         /\ Len(header) \in Nat /\ Len(header) = Len(file.header)
         /\ Len(file.body) \in Nat
         /\ Lines > 0 => Lines = 1 + Len(file.body)
<1>1. file.header \in Seq(Cell \cup {Blank}) /\ file.body \in Seq(Seq(Object))
  BY TabulateAssumption DEF FileOK
<1>2. Len(file.header) \in Nat /\ Len(file.body) \in Nat
  BY <1>1
<1>3. Len(header) = Len(file.header)
  BY <1>2 DEF FileOK, Slugs
<1> QED
  BY <1>2, <1>3 DEF Lines, RowsOf

\* A file without rows has no header.
LEMMA RowsForHeader ==
  ASSUME FileOK, ~NoHeader
  PROVE  Lines > 0
<1>1. file.header # <<>>
  BY DEF NoHeader
<1> QED
  BY <1>1, Sizes DEF Lines, RowsOf

LEMMA TableTypeStep ==
  FileOK /\ FileOK' /\ NamesTypeOK' /\ TableTypeOK /\ [Next]_vars => TableTypeOK'
<1> SUFFICES ASSUME FileOK, FileOK', NamesTypeOK', TableTypeOK, [Next]_vars
             PROVE  TableTypeOK'
  OBVIOUS
<1>0. /\ Lines \in Nat /\ Len(header) \in Nat /\ read \in 0..Lines
      /\ Len(header') = Len(header)
      /\ header' = Slugs(file'.header)
      /\ NamesTypeOK'
  BY Sizes DEF TableTypeOK, FileOK, Next, vars, namesVars, RaiseIfEmpty, ParseCsvRows,
         LoadWorkbook, ReadRow, MalformedRow, EndOfSheet, Fail, Proceed, Name,
         NamesNext, FirstUse, Repeated, CandidateTaken, CandidateFree,
         DetectColumnTypes, Show, Store
<1>1. ASSUME NEW e \in Errors, Fail(e), done = {} PROVE TableTypeOK'
  BY <1>0, <1>1 DEF Fail, TableTypeOK, Errors, outVars, Lines
<1>2. ASSUME NEW s \in {"rows", "names"}, NEW n \in 0..Lines, Proceed(s, n),
             done = {}, error = "", s = "names" => n = Lines /\ Lines > 0
      PROVE  TableTypeOK'
  BY <1>0, <1>2 DEF Proceed, TableTypeOK, outVars, Lines
<1>3. CASE RaiseIfEmpty
  BY <1>1, <1>3 DEF RaiseIfEmpty, Errors, TableTypeOK
<1>4. CASE ParseCsvRows
  <2>1. step = "open" /\ done = {} /\ error = ""
    BY <1>4 DEF ParseCsvRows, TableTypeOK
  <2>2. CASE ~NoHeader /\ Proceed("names", Lines)
    <3>1. Lines \in 0..Lines /\ Lines > 0
      BY <1>0, <2>2, RowsForHeader
    <3> QED
      BY <1>2, <2>1, <2>2, <3>1
  <2>3. CASE \E e \in Errors : Fail(e)
    BY <1>1, <2>1, <2>3
  <2> QED
    BY <1>4, <2>2, <2>3 DEF ParseCsvRows, Errors
<1>5. CASE LoadWorkbook
  <2>1. step = "open" /\ done = {} /\ error = ""
    BY <1>5 DEF LoadWorkbook, TableTypeOK
  <2>2. CASE Proceed("rows", 0)
    <3>1. 0 \in 0..Lines
      BY <1>0
    <3> QED
      BY <1>2, <2>1, <2>2, <3>1
  <2>3. CASE \E e \in Errors : Fail(e)
    BY <1>1, <2>1, <2>3
  <2> QED
    BY <1>5, <2>2, <2>3 DEF LoadWorkbook, WorkbookError, Errors
<1>6. CASE ReadRow
  <2>1. read + 1 \in 0..Lines
    BY <1>0, <1>6 DEF ReadRow
  <2> QED
    BY <1>1, <1>2, <1>6, <2>1 DEF ReadRow, Errors, TableTypeOK
<1>7. CASE MalformedRow
  BY <1>1, <1>7 DEF MalformedRow, WorkbookError, Errors, TableTypeOK
<1>8. CASE EndOfSheet
  BY <1>0, <1>1, <1>2, <1>8, RowsForHeader DEF EndOfSheet, Errors, TableTypeOK
<1>9. CASE Name
  BY <1>0, <1>9 DEF Name, TableTypeOK, outVars, Lines
<1>10. CASE DetectColumnTypes
  BY <1>0, <1>10 DEF DetectColumnTypes, TableTypeOK, outVars, namesVars, Lines
<1>11. CASE Show
  BY <1>0, <1>11 DEF Show, TableTypeOK, namesVars, Lines
<1>12. CASE Store
  <2>1. read - 1 \in Nat /\ read = Lines
    <3>1. read = Lines /\ Lines > 0
      BY <1>12 DEF Store, TableTypeOK
    <3> QED
      BY <1>0, <3>1
  <2>2. Len(columns') = Len(header) /\ Len(table') = Lines - 1
    BY <1>0, <1>12, <2>1 DEF Store, Described
  <2> QED
    BY <1>0, <1>12, <2>2 DEF Store, TableTypeOK, namesVars, Lines
<1>13. CASE UNCHANGED vars
  BY <1>0, <1>13 DEF vars, TableTypeOK, outVars, namesVars, Lines
<1> QED
  BY <1>3, <1>4, <1>5, <1>6, <1>7, <1>8, <1>9, <1>10, <1>11, <1>12, <1>13 DEF Next

\* Whatever is tabulated stays within its file, and what is stored has the
\* size of the file.
THEOREM TableTyped == Spec => []TableTypeOK
<1>1. Init /\ NamesTypeOK => TableTypeOK
  <2> SUFFICES ASSUME Init, NamesTypeOK PROVE TableTypeOK
    OBVIOUS
  <2>1. FileOK
    BY DEF Init, FileOK
  <2>2. 0 \in 0..Lines
    BY <2>1, Sizes
  <2> QED
    BY <2>2 DEF Init, TableTypeOK
<1>2. Spec => []NamesTypeOK
  BY ImplementsColumnNames, NamesTyped
<1> QED
  BY <1>1, <1>2, FileKept, TableTypeStep, PTL DEF Spec

\* The names stay those ColumnNames finds.
LEMMA NamesHold == Spec => [](FileOK /\ NamesTypeOK /\ NamesDistinct /\ TableTypeOK)
<1>1. Spec => []NamesTypeOK /\ []NamesDistinct
  BY ImplementsColumnNames, NamesTyped, NamesAreDistinct
<1> QED
  BY <1>1, FileKept, TableTyped, PTL

\* A row is read only below the cap, and refused only if there are more.
CapInv ==
  file.format = "xlsx" =>
    /\ step \in {"rows", "names", "typed"} => read <= MaxRows
    /\ error = "TooManyRows" => Lines > MaxRows

LEMMA CapStep == FileOK /\ TableTypeOK /\ CapInv /\ [Next]_vars => CapInv'
<1> SUFFICES ASSUME FileOK, TableTypeOK, CapInv, [Next]_vars PROVE CapInv'
  OBVIOUS
<1>1. Lines \in Nat /\ read \in 0..Lines /\ MaxRows \in Nat
  BY Sizes, TabulateAssumption DEF TableTypeOK
<1>2. CASE UNCHANGED <<file, step, error, read>>
  BY <1>2 DEF CapInv, Lines
<1>3. CASE RaiseIfEmpty \/ ParseCsvRows \/ LoadWorkbook \/ MalformedRow
  <2>1. file' = file /\ step' \in {"failed", "names", "rows"}
    BY <1>3 DEF RaiseIfEmpty, ParseCsvRows, LoadWorkbook, MalformedRow, Fail, Proceed
  <2>2. error' = "TooManyRows" => error = "TooManyRows"
    BY <1>3 DEF RaiseIfEmpty, ParseCsvRows, LoadWorkbook, MalformedRow, Fail, Proceed,
           WorkbookError
  <2>3. file.format = "xlsx" => step' = "failed" \/ (step' = "rows" /\ read' = 0)
    BY <1>3 DEF RaiseIfEmpty, ParseCsvRows, LoadWorkbook, MalformedRow, Fail, Proceed
  <2> QED
    BY <1>1, <2>1, <2>2, <2>3 DEF CapInv, Lines
<1>4. CASE ReadRow
  <2>1. CASE AtCap
    <3>1. file' = file /\ step' = "failed" /\ read >= MaxRows /\ read < Lines
      BY <1>4, <2>1 DEF ReadRow, AtCap, Fail
    <3> QED
      BY <1>1, <3>1 DEF CapInv, Lines
  <2>2. CASE ~AtCap
    <3>1. /\ file' = file /\ error' = error /\ read' = read + 1
          /\ read < MaxRows
      BY <1>1, <1>4, <2>2 DEF ReadRow, AtCap, Proceed
    <3> QED
      BY <1>1, <3>1 DEF CapInv, Lines
  <2> QED
    BY <2>1, <2>2
<1>6. CASE EndOfSheet
  <2>1. /\ file' = file /\ step = "rows" /\ read' = read
        /\ error' = "TooManyRows" => error = "TooManyRows"
    BY <1>6 DEF EndOfSheet, Fail, Proceed
  <2> QED
    BY <2>1 DEF CapInv, Lines
<1>5. CASE DetectColumnTypes
  BY <1>5 DEF DetectColumnTypes, CapInv, Lines
<1> QED
  BY <1>2, <1>3, <1>4, <1>5, <1>6 DEF Next, Name, Show, Store, vars

\* A sheet is refused for its rows if and only if they are more than the cap.
THEOREM CapIsExact == Spec => []CapExact
<1>1. Init => CapInv
  BY DEF Init, CapInv
<1>2. TableTypeOK /\ CapInv => CapExact
  BY DEF TableTypeOK, CapInv, CapExact
<1> QED
  BY <1>1, <1>2, CapStep, NamesHold, PTL DEF Spec

------------------------------------------------------------------------------
\* What is stored

\* Types and rows are those of the rows that were read.
OutInv ==
  /\ step = "typed" =>
       types = [j \in 1..Len(header) |->
                  Detect([i \in 1..Len(file.body) |-> Text(i, j)])]
  /\ "ingest" \in done => /\ columns = Described
                          /\ table = [i \in 1..Len(file.body) |-> Data(i)]

LEMMA OutStep == FileOK /\ TableTypeOK /\ OutInv /\ [Next]_vars => OutInv'
<1> SUFFICES ASSUME FileOK, TableTypeOK, OutInv, [Next]_vars PROVE OutInv'
  OBVIOUS
<1>1. step \in {"names", "typed"} => read - 1 = Len(file.body)
  <2>1. step \in {"names", "typed"} => read = Lines /\ Lines > 0
    BY DEF TableTypeOK
  <2> QED
    BY <2>1, Sizes
<1>2. step # "typed" => done = {}
  BY DEF TableTypeOK
<1>3. ASSUME step' # "typed", done' = {} PROVE OutInv'
  BY <1>3 DEF OutInv
<1>4. CASE RaiseIfEmpty \/ ParseCsvRows \/ LoadWorkbook
  <2>1. step' # "typed" /\ done' = {}
    BY <1>2, <1>4 DEF RaiseIfEmpty, ParseCsvRows, LoadWorkbook, Fail, Proceed, outVars
  <2> QED
    BY <1>3, <2>1
<1>5. CASE ReadRow \/ MalformedRow \/ EndOfSheet
  <2>1. step' # "typed" /\ done' = {}
    BY <1>2, <1>5 DEF ReadRow, MalformedRow, EndOfSheet, Fail, Proceed, outVars
  <2> QED
    BY <1>3, <2>1
<1>6. CASE Name
  <2>1. step' # "typed" /\ done' = {}
    BY <1>2, <1>6 DEF Name, outVars
  <2> QED
    BY <1>3, <2>1
<1>7. CASE DetectColumnTypes
  <2>1. /\ step = "names" /\ done' = {} /\ file' = file /\ header' = header
        /\ types' = [j \in 1..Len(header) |->
                       Detect([i \in 1..(read - 1) |-> Text(i, j)])]
    BY <1>2, <1>7 DEF DetectColumnTypes, namesVars, outVars
  <2>2. types' = [j \in 1..Len(header) |->
                    Detect([i \in 1..Len(file.body) |-> Text(i, j)])]
    BY <1>1, <2>1
  <2>3. \A i, j : Text(i, j)' = Text(i, j)
    BY <2>1 DEF Text
  <2> QED
    BY <2>1, <2>2, <2>3 DEF OutInv
<1>8. CASE Show \/ Store \/ UNCHANGED vars
  <2>1. UNCHANGED <<file, header, out, read, types, step>>
    BY <1>8 DEF Show, Store, vars, namesVars
  <2>2. Described' = Described
    BY <2>1 DEF Described
  <2>3. \A i, j : Text(i, j)' = Text(i, j)
    BY <2>1 DEF Text
  <2>4. Names' = Names
    BY <2>1 DEF Names
  <2>5. \A i : Data(i)' = Data(i)
    BY <2>1, <2>3, <2>4 DEF Data
  <2>6. [i \in 1..Len(file.body) |-> Data(i)]' = [i \in 1..Len(file.body) |-> Data(i)]
    BY <2>1, <2>5
  <2>7. [j \in 1..Len(header) |-> Detect([i \in 1..Len(file.body) |-> Text(i, j)])]'
          = [j \in 1..Len(header) |-> Detect([i \in 1..Len(file.body) |-> Text(i, j)])]
    BY <2>1, <2>3
  <2>8. CASE Show
    <3>1. done' = done \cup {"preview"} /\ UNCHANGED <<columns, table>>
      BY <2>8 DEF Show
    <3> QED
      BY <2>1, <2>2, <2>6, <2>7, <3>1 DEF OutInv
  <2>9. CASE Store
    <3>1. /\ columns' = Described
          /\ table' = [i \in 1..Len(file.body) |-> Data(i)]
      BY <1>1, <2>9 DEF Store
    <3> QED
      BY <2>1, <2>2, <2>6, <2>7, <3>1 DEF OutInv
  <2>10. CASE UNCHANGED vars
    BY <2>1, <2>2, <2>6, <2>7, <2>10 DEF OutInv, vars, outVars
  <2> QED
    BY <1>8, <2>8, <2>9, <2>10
<1> QED
  BY <1>4, <1>5, <1>6, <1>7, <1>8 DEF Next

LEMMA OutHolds == Spec => []OutInv
<1>1. Init => OutInv
  BY DEF Init, OutInv
<1> QED
  BY <1>1, OutStep, NamesHold, PTL DEF Spec

\* With distinct names, a row has under each name the cell of its column.
LEMMA Cells ==
  ASSUME FileOK, NamesTypeOK, NamesDistinct, TableTypeOK, OutInv, "ingest" \in done
  PROVE  /\ Len(table) = Len(file.body) /\ Len(columns) = Len(header)
         /\ \A j \in 1..Len(header) : columns[j].name = out[j]
         /\ \A i \in 1..Len(file.body) : DOMAIN table[i] = Names
         /\ \A i \in 1..Len(file.body), j \in 1..Len(header) :
              table[i][columns[j].name] = Text(i, j)
<1>1. step = "typed" /\ Len(out) = Len(header) /\ Len(header) \in Nat
      /\ Len(file.body) \in Nat
  BY Sizes DEF TableTypeOK
<1>2. /\ columns = [j \in 1..Len(header) |-> [name |-> out[j], type |-> types[j]]]
      /\ table = [i \in 1..Len(file.body) |-> Data(i)]
  BY DEF OutInv, Described
<1>3. /\ Len(table) = Len(file.body) /\ Len(columns) = Len(header)
      /\ \A j \in 1..Len(header) : columns[j].name = out[j]
  BY <1>1, <1>2
<1>4. ASSUME NEW i \in 1..Len(file.body), NEW j \in 1..Len(header)
      PROVE  table[i][columns[j].name] = Text(i, j)
  <2>1. table[i][columns[j].name] = Data(i)[out[j]]
    BY <1>2, <1>3
  <2>2. out[j] \in Names
    BY <1>1 DEF Names
  <2> DEFINE last(l) == /\ out[l] = out[j]
                        /\ \A k \in (l + 1)..Len(out) : out[k] # out[j]
  <2>3. \A l \in 1..Len(out) : last(l) <=> l = j
    BY <1>1 DEF NamesDistinct
  <2>4. (CHOOSE l \in 1..Len(out) : last(l)) = j
    BY <1>1, <2>3
  <2>5. Data(i)[out[j]] = Text(i, CHOOSE l \in 1..Len(out) : last(l))
    BY <2>2 DEF Data
  <2> QED
    BY <2>1, <2>4, <2>5
<1>5. \A i \in 1..Len(file.body) : DOMAIN table[i] = Names
  BY <1>2 DEF Data
<1> QED
  BY <1>3, <1>4, <1>5

\* No cell under the header is lost, shifted or overwritten, and what a short row
\* lacks is empty.
THEOREM CellsAreKept == Spec => []CellsKept
<1>1. ASSUME FileOK, NamesTypeOK, NamesDistinct, TableTypeOK, OutInv, "ingest" \in done,
             NEW i \in 1..Len(file.body)
      PROVE  DOMAIN table[i] = {columns[j].name : j \in 1..Len(header)}
  <2>1. Len(out) = Len(header)
    BY <1>1 DEF TableTypeOK
  <2>2. \A j \in 1..Len(header) : columns[j].name = out[j]
    BY <1>1, Cells
  <2>3. Names = {columns[j].name : j \in 1..Len(header)}
    BY <2>1, <2>2 DEF Names
  <2> QED
    BY <1>1, <2>3, Cells
<1>2. ASSUME FileOK, NamesTypeOK, NamesDistinct, TableTypeOK, OutInv, "ingest" \in done,
             NEW i \in 1..Len(file.body), NEW j \in 1..Len(header)
      PROVE  \/ /\ j <= Len(file.body[i])
                /\ table[i][columns[j].name] = Stringify(file.body[i][j])
             \/ /\ j > Len(file.body[i])
                /\ table[i][columns[j].name] = Empty
  <2>1. file.body[i] \in Seq(Object) /\ Len(file.body[i]) \in Nat
    BY <1>2, TabulateAssumption DEF FileOK
  <2>2. Len(header) \in Nat /\ j \in Nat
    BY <1>2, Sizes
  <2>3. table[i][columns[j].name] = Text(i, j)
    BY <1>2, Cells
  <2>4. CASE j <= Len(file.body[i])
    BY <2>3, <2>4 DEF Text
  <2>5. CASE ~(j <= Len(file.body[i]))
    <3>1. j > Len(file.body[i])
      BY <2>1, <2>2, <2>5
    <3> QED
      BY <2>3, <2>5, <3>1 DEF Text
  <2> QED
    BY <2>4, <2>5
<1>3. FileOK /\ NamesTypeOK /\ NamesDistinct /\ TableTypeOK /\ OutInv => CellsKept
  BY <1>1, <1>2 DEF CellsKept
<1> QED
  BY <1>3, NamesHold, OutHolds, PTL

\* A filter by a column finds its cells, or nothing if its name is taken for an
\* index.  Lookups are left out.
THEOREM FiltersFindCells == Spec => []FilterFindsCells
<1>1. ASSUME FileOK, NamesTypeOK, NamesDistinct, TableTypeOK, OutInv,
             "ingest" \in done,
             NEW c \in 1..Len(columns), NEW o \in Object,
             columns[c].name \notin Lookup
      PROVE  RowQueryset([name \in {columns[c].name} |-> Stringify(o)]) =
               {i \in 1..Len(file.body) :
                  columns[c].name \notin Index /\ Text(i, c) = Stringify(o)}
  <2> DEFINE n == columns[c].name
             v == Stringify(o)
             params == [name \in {n} |-> v]
  <2>1. /\ Len(table) = Len(file.body) /\ Len(columns) = Len(header)
        /\ \A i \in 1..Len(file.body) : table[i][n] = Text(i, c)
    BY <1>1, Cells
  <2>2. n \in Known /\ DOMAIN params = {n} /\ params[n] = v /\ n \notin Lookup
    BY <1>1 DEF Known
  <2>3. IContains(v, v)
    BY TabulateAssumption
  <2> HIDE DEF n, v, params
  <2>4. Filters(params) = {n} /\ DOMAIN params \subseteq Known \cup Reserved
    BY <2>2 DEF Filters
  <2>5. RowQueryset(params) =
          {i \in 1..Len(table) :
             Found(table[i], params) /\ n \notin Index /\ table[i][n] = v}
    BY <2>2, <2>4 DEF RowQueryset, Matches
  <2>6. \A i \in 1..Len(table) :
          n \notin Index /\ table[i][n] = v => Found(table[i], params)
    BY <2>2, <2>3 DEF Found
  <2>7. RowQueryset(params) =
          {i \in 1..Len(file.body) : n \notin Index /\ Text(i, c) = v}
    BY <2>1, <2>5, <2>6
  <2> QED
    BY <2>7 DEF n, v, params
<1>2. FileOK /\ NamesTypeOK /\ NamesDistinct /\ TableTypeOK /\ OutInv
        => FilterFindsCells
  BY <1>1 DEF FilterFindsCells
<1> QED
  BY <1>2, NamesHold, OutHolds, PTL

\* Where tabulation stands, what it passed has nothing wrong.
WholeInv ==
  /\ step = "rows" => /\ file.format = "xlsx" /\ file.content = "readable"
                      /\ file.sheet = "found"
                      /\ file.badRow \notin 1..read
                      /\ read <= MaxRows
  /\ step \in {"names", "typed"} => Whole
  /\ step = "failed" => ~Whole

LEMMA WholeStep == FileOK /\ TableTypeOK /\ WholeInv /\ [Next]_vars => WholeInv'
<1> SUFFICES ASSUME FileOK, TableTypeOK, WholeInv, [Next]_vars PROVE WholeInv'
  OBVIOUS
<1>1. /\ Lines \in Nat /\ read \in 0..Lines /\ MaxRows \in Nat
      /\ file.badRow \in 0..(1 + Lines)
      /\ file.format \in {"csv", "xlsx"}
      /\ file.content \in {"empty", "unreadable", "readable"}
      /\ file.sheet \in {"found", "missing", "chart"}
  BY Sizes, TabulateAssumption DEF TableTypeOK, FileOK, Lines
<1>2. file' = file => Whole' = Whole
  BY DEF Whole, NoHeader, Lines
<1>3. ASSUME NEW e, Fail(e), ~Whole PROVE WholeInv'
  BY <1>2, <1>3 DEF Fail, WholeInv
<1>4. ASSUME NEW n, Proceed("names", n), Whole PROVE WholeInv'
  BY <1>2, <1>4 DEF Proceed, WholeInv
<1>5. CASE UNCHANGED <<file, step, read>>
  BY <1>2, <1>5 DEF WholeInv
<1>6. CASE RaiseIfEmpty
  BY <1>3, <1>6 DEF RaiseIfEmpty, Whole
<1>7. CASE ParseCsvRows
  <2>1. CASE file.content = "unreadable" \/ file.badRow # 0 \/ NoHeader
    <3>1. ~Whole
      BY <2>1 DEF Whole
    <3>2. \E e \in {"InvalidCsvError", "NoHeaderError"} : Fail(e)
      BY <1>1, <1>7, <2>1 DEF ParseCsvRows
    <3> QED
      BY <1>3, <3>1, <3>2
  <2>2. CASE ~(file.content = "unreadable" \/ file.badRow # 0 \/ NoHeader)
    <3>1. Whole
      BY <1>1, <1>7, <2>2 DEF ParseCsvRows, Whole
    <3>2. Proceed("names", Lines)
      BY <1>1, <1>7, <2>2 DEF ParseCsvRows
    <3> QED
      BY <1>4, <3>1, <3>2
  <2> QED
    BY <2>1, <2>2
<1>8. CASE LoadWorkbook
  <2>1. file.format = "xlsx" /\ file.content # "empty"
    BY <1>8 DEF LoadWorkbook
  <2>2. CASE file.content = "unreadable" \/ file.sheet # "found"
    <3>1. ~Whole
      BY <2>1, <2>2 DEF Whole
    <3>2. \E e \in {WorkbookError, "InvalidExcelError", "AttributeError"} : Fail(e)
      BY <1>1, <1>8, <2>2 DEF LoadWorkbook
    <3> QED
      BY <1>3, <3>1, <3>2
  <2>3. CASE file.content = "readable" /\ file.sheet = "found"
    <3>1. Proceed("rows", 0)
      BY <1>8, <2>3 DEF LoadWorkbook
    <3>2. /\ file' = file /\ step' = "rows" /\ read' = 0
      BY <3>1 DEF Proceed
    <3> QED
      BY <1>1, <2>1, <2>3, <3>2 DEF WholeInv
  <2> QED
    BY <1>1, <2>1, <2>2, <2>3
<1>9. CASE ReadRow
  <2>1. step = "rows" /\ file.badRow # read + 1 /\ read < Lines
    BY <1>9 DEF ReadRow
  <2>2. CASE AtCap
    <3>1. ~Whole
      BY <1>1, <2>1, <2>2 DEF AtCap, Whole, WholeInv
    <3> QED
      BY <1>3, <1>9, <2>2, <3>1 DEF ReadRow
  <2>3. CASE ~AtCap
    <3>1. file' = file /\ step' = "rows" /\ read' = read + 1 /\ read < MaxRows
      BY <1>1, <1>9, <2>3 DEF ReadRow, Proceed, AtCap
    <3>2. file.badRow \notin 1..(read + 1)
      BY <1>1, <2>1 DEF WholeInv
    <3> QED
      BY <1>1, <2>1, <3>1, <3>2 DEF WholeInv
  <2> QED
    BY <2>2, <2>3
<1>10. CASE MalformedRow
  <2>1. ~Whole
    BY <1>1, <1>10 DEF MalformedRow, Whole
  <2> QED
    BY <1>3, <1>10, <2>1 DEF MalformedRow
<1>11. CASE EndOfSheet
  <2>1. file.badRow = 0 /\ Lines <= MaxRows /\ step = "rows"
    BY <1>1, <1>11 DEF EndOfSheet, WholeInv
  <2>2. ~NoHeader => Whole
    BY <2>1 DEF WholeInv, Whole
  <2>3. NoHeader => ~Whole
    BY DEF Whole
  <2> QED
    BY <1>3, <1>4, <1>11, <2>2, <2>3 DEF EndOfSheet
<1>12. CASE DetectColumnTypes
  BY <1>2, <1>12 DEF DetectColumnTypes, WholeInv
<1> QED
  BY <1>5, <1>6, <1>7, <1>8, <1>9, <1>10, <1>11, <1>12 DEF Next, Name, Show, Store, vars

\* Files are stored and shown whole, and those without a fault are not refused.
THEOREM OnlyWholeFilesAreStored == Spec => []OnlyWholeFiles
<1>1. Init => WholeInv
  BY DEF Init, WholeInv
<1>2. TableTypeOK /\ WholeInv => OnlyWholeFiles
  BY DEF TableTypeOK, WholeInv, OnlyWholeFiles
<1> QED
  BY <1>1, <1>2, WholeStep, NamesHold, PTL DEF Spec

------------------------------------------------------------------------------
\* The quality report

\* Sets of indices are finite.
LEMMA Indices ==
  ASSUME NEW n \in Nat, NEW S \in SUBSET (1..n)
  PROVE  /\ IsFiniteSet(S) /\ Cardinality(S) \in Nat
         /\ Cardinality(1..n) = n
         /\ \A T \in SUBSET S : /\ IsFiniteSet(T) /\ Cardinality(T) \in Nat
                                /\ Cardinality(S \ T) = Cardinality(S) - Cardinality(T)
<1>1. IsFiniteSet(1..n) /\ Cardinality(1..n) = n
  BY FS_Interval
<1>2. IsFiniteSet(S)
  BY <1>1, FS_Subset
<1>3. ASSUME NEW T \in SUBSET S
      PROVE  /\ IsFiniteSet(T)
             /\ Cardinality(S \ T) = Cardinality(S) - Cardinality(T)
  <2>1. IsFiniteSet(T) /\ S \cap T = T
    BY <1>2, FS_Subset
  <2> QED
    BY <1>2, <2>1, FS_Difference
<1> QED
  BY <1>1, <1>2, <1>3, FS_CardinalityType

\* The first check that passes is one that passes.
LEMMA FirstCheck ==
  ASSUME NEW values, NonEmpty(values) # {}
  PROVE  \/ Detect(values) = "string"
         \/ \E i \in DOMAIN TypeChecks : /\ Detect(values) = TypeChecks[i]
                                         /\ Majority(values, TypeChecks[i])
<1>1. DOMAIN TypeChecks = 1..4
  BY DEF TypeChecks
<1> DEFINE passes(i) == Majority(values, TypeChecks[i])
           first(i) == passes(i) /\ \A k \in 1..(i - 1) : ~passes(k)
<1> HIDE DEF passes
<1>2. ASSUME NEW m \in 1..4, passes(m) PROVE \E i \in 1..4 : first(i)
  <2>1. CASE passes(1)
    <3>1. first(1)
      BY <2>1
    <3> QED
      BY <3>1
  <2>2. CASE ~passes(1) /\ passes(2)
    <3>1. first(2)
      BY <2>2
    <3> QED
      BY <3>1
  <2>3. CASE ~passes(1) /\ ~passes(2) /\ passes(3)
    <3>1. first(3)
      BY <2>3
    <3> QED
      BY <3>1
  <2>4. CASE ~passes(1) /\ ~passes(2) /\ ~passes(3)
    <3>1. m = 4
      BY <1>2, <2>4
    <3>2. first(4)
      BY <1>2, <2>4, <3>1
    <3> QED
      BY <3>2
  <2> QED
    BY <2>1, <2>2, <2>3, <2>4
<1>3. CASE \A i \in 1..4 : ~passes(i)
  BY <1>1, <1>3 DEF Detect, passes
<1>4. CASE \E i \in 1..4 : passes(i)
  <2> DEFINE i == CHOOSE k \in 1..4 : first(k)
  <2>1. i \in 1..4 /\ first(i)
    BY <1>2, <1>4
  <2>2. Detect(values) = TypeChecks[i]
    BY <1>1, <1>4 DEF Detect, passes
  <2> QED
    BY <1>1, <2>1, <2>2 DEF passes
<1> QED
  BY <1>3, <1>4

\* Of the values a type was detected for, at most a tenth is invalid.
LEMMA DetectedIsValid ==
  ASSUME NEW n \in Nat, NEW values, DOMAIN values = 1..n
  PROVE  /\ Detect(values) = "unknown" <=> NonEmpty(values) = {}
         /\ 10 * Cardinality({i \in NonEmpty(values) : ~IsValid(values[i], Detect(values))})
              <= Cardinality(NonEmpty(values))
<1> DEFINE N == NonEmpty(values)
           type == Detect(values)
           wrong == {i \in N : ~IsValid(values[i], type)}
<1>1. N \in SUBSET (1..n)
  BY DEF NonEmpty
<1>2. Cardinality(N) \in Nat
  BY <1>1, Indices
<1>3. CASE N = {}
  <2>1. wrong = {} /\ type = "unknown"
    BY <1>3 DEF Detect
  <2> QED
    BY <1>2, <1>3, <2>1, FS_EmptySet
<1>4. CASE N # {} /\ type = "string"
  <2>1. wrong = {}
    BY <1>4 DEF IsValid, TypeChecks
  <2> QED
    BY <1>2, <1>4, <2>1, FS_EmptySet
<1>5. ASSUME N # {}, NEW i \in DOMAIN TypeChecks,
             type = TypeChecks[i], Majority(values, TypeChecks[i])
      PROVE  type # "unknown" /\ 10 * Cardinality(wrong) <= Cardinality(N)
  <2> DEFINE right == Matching(values, type)
  <2>1. wrong = N \ right /\ right \in SUBSET N
    BY <1>5 DEF IsValid, Matching
  <2>2. /\ Cardinality(right) \in Nat
        /\ Cardinality(wrong) = Cardinality(N) - Cardinality(right)
    BY <1>1, <2>1, Indices
  <2>3. 10 * Cardinality(right) >= 9 * Cardinality(N)
    BY <1>5 DEF Majority
  <2>4. type # "unknown"
    BY <1>5 DEF TypeChecks
  <2> HIDE DEF right, wrong, N
  <2> QED
    BY <1>2, <2>2, <2>3, <2>4
<1> QED
  BY <1>3, <1>4, <1>5, FirstCheck

\* All but one of each kind are duplicates.
LEMMA Duplicates ==
  ASSUME NEW n \in Nat, NEW f
  PROVE  Cardinality({i \in 1..n : \E k \in 1..(i - 1) : f[k] = f[i]})
           = n - Cardinality({f[i] : i \in 1..n})
<1> DEFINE again == {i \in 1..n : \E k \in 1..(i - 1) : f[k] = f[i]}
           firsts == {i \in 1..n : \A k \in 1..(i - 1) : f[k] # f[i]}
           values == {f[i] : i \in 1..n}
           value == [i \in firsts |-> f[i]]
<1>1. firsts \in SUBSET (1..n) /\ again = (1..n) \ firsts
  OBVIOUS
<1>2. ASSUME NEW v \in values PROVE \E i \in firsts : f[i] = v
  <2> DEFINE T == {i \in 1..n : f[i] = v}
  <2>1. T \subseteq Nat /\ T # {}
    OBVIOUS
  <2>2. PICK i \in T : \A k \in T : <<k, i>> \notin OpToRel(<, Nat)
    <3> HIDE DEF T
    <3> QED
      BY <2>1, NatLessThanWellFounded, WFMin
  <2>3. \A k \in T : ~(k < i)
    BY <2>1, <2>2 DEF OpToRel
  <2> QED
    BY <2>3
<1>3. value \in Bijection(firsts, values)
  <2>1. value \in [firsts -> values]
    OBVIOUS
  <2>2. \A i, k \in firsts : value[i] = value[k] => i = k
    OBVIOUS
  <2>3. \A v \in values : \E i \in firsts : value[i] = v
    BY <1>2
  <2> HIDE DEF value, values, firsts
  <2>4. value \in Injection(firsts, values)
    BY <2>1, <2>2, Fun_IsInj
  <2>5. value \in Surjection(firsts, values)
    BY <2>1, <2>3, Fun_IsSurj
  <2> QED
    BY <2>4, <2>5 DEF Bijection
<1>4. IsFiniteSet(firsts) /\ Cardinality(again) = n - Cardinality(firsts)
  <2> HIDE DEF again, firsts
  <2>1. /\ IsFiniteSet(firsts)
        /\ Cardinality((1..n) \ firsts) = Cardinality(1..n) - Cardinality(firsts)
    BY <1>1, Indices
  <2>2. Cardinality(1..n) = n
    BY FS_Interval
  <2> QED
    BY <1>1, <2>1, <2>2
<1>5. Cardinality(values) = Cardinality(firsts)
  <2>1. ExistsBijection(firsts, values)
    BY <1>3 DEF ExistsBijection
  <2> QED
    BY <1>4, <2>1, FS_Bijection
<1> QED
  BY <1>4, <1>5

\* The report finds as missing what is missing in the file, no more than a
\* tenth of the rest invalid, and all rows but the first of their kind again.
THEOREM QualityReportsAgree == Spec => []QualityAgrees
<1>1. ASSUME FileOK, NamesTypeOK, NamesDistinct, TableTypeOK, OutInv,
             "ingest" \in done, NEW j \in 1..Len(columns)
      PROVE  /\ 10 * ColumnReport(j).invalid <= Len(table) - ColumnReport(j).missing
             /\ ColumnReport(j).missing =
                  Cardinality({i \in 1..Len(file.body) : Look(Text(i, j)) = "blank"})
             /\ columns[j].type = "unknown" <=> ColumnReport(j).missing = Len(table)
  <2> DEFINE n == Len(file.body)
             values == [i \in 1..n |-> Text(i, j)]
             type == Detect(values)
             N == NonEmpty(values)
             wrong == {i \in N : ~IsValid(values[i], type)}
             blank == {i \in 1..n : Look(Text(i, j)) = "blank"}
  <2>1. n \in Nat /\ Len(table) = n /\ j \in 1..Len(header) /\ Len(header) \in Nat
    BY <1>1, Cells, Sizes
  <2>2. Stored(j) = values
    BY <1>1, <2>1, Cells DEF Stored
  <2>3. columns[j].type = type
    <3>1. step = "typed"
      BY <1>1 DEF TableTypeOK
    <3>2. /\ columns = [k \in 1..Len(header) |-> [name |-> out[k], type |-> types[k]]]
          /\ types = [k \in 1..Len(header) |->
                        Detect([i \in 1..Len(file.body) |-> Text(i, k)])]
      BY <1>1, <3>1 DEF OutInv, Described
    <3> QED
      BY <2>1, <3>2
  <2>4. N \in SUBSET (1..n) /\ blank = (1..n) \ N
    BY DEF NonEmpty
  <2>5. /\ Cardinality(N) \in Nat /\ Cardinality(1..n) = n
        /\ Cardinality(blank) = n - Cardinality(N)
        /\ Cardinality(N) = 0 <=> N = {}
    <3>1. (1..n) \in SUBSET (1..n)
      OBVIOUS
    <3>2. IsFiniteSet(N) /\ Cardinality(N) \in Nat /\ Cardinality(1..n) = n
      BY <2>1, <2>4, Indices
    <3>3. Cardinality((1..n) \ N) = Cardinality(1..n) - Cardinality(N)
      BY <2>1, <2>4, <3>1, Indices
    <3> QED
      BY <2>4, <3>2, <3>3, FS_EmptySet
  <2>6. ColumnReport(j) = [missing |-> n - Cardinality(N), invalid |-> Cardinality(wrong)]
    BY <2>1, <2>2, <2>3 DEF ColumnReport
  <2>7. DOMAIN values = 1..n
    OBVIOUS
  <2>8. (type = "unknown" <=> N = {}) /\ 10 * Cardinality(wrong) <= Cardinality(N)
    <3> HIDE DEF values, n
    <3> QED
      BY <2>1, <2>7, DetectedIsValid
  <2> HIDE DEF n, values, type, N, wrong
  <2> QED
    BY <2>1, <2>3, <2>5, <2>6, <2>8 DEF blank, n
<1>2. ASSUME FileOK, NamesTypeOK, NamesDistinct, TableTypeOK, OutInv, "ingest" \in done
      PROVE  DuplicateRowCount = Len(table) - Cardinality({table[i] : i \in 1..Len(table)})
  <2>1. Len(table) \in Nat
    BY <1>2, Cells, Sizes
  <2> QED
    BY <2>1, Duplicates DEF DuplicateRowCount
<1>3. FileOK /\ NamesTypeOK /\ NamesDistinct /\ TableTypeOK /\ OutInv => QualityAgrees
  BY <1>1, <1>2 DEF QualityAgrees
<1> QED
  BY <1>3, NamesHold, OutHolds, PTL

------------------------------------------------------------------------------
\* Why tabulation ends.

\* How many steps it still takes at most.
StepsLeft ==
  IF step = "failed" THEN 0
  ELSE IF step = "typed" THEN (IF "preview" \in done THEN 0 ELSE 1)
                              + (IF "ingest" \in done THEN 0 ELSE 1)
  ELSE IF step = "names" THEN NamingLeft + 3
  ELSE IF step = "rows" THEN NamingLeft + 4 + (Lines - read)
  ELSE NamingLeft + 5 + Lines

StepsRunOut ==
  /\ StepsLeft \in Nat
  /\ StepsLeft = 0 <=> step = "failed" \/ done = {"preview", "ingest"}

LEMMA StepsCount == FileOK /\ TableTypeOK /\ SuffixesRunOut => StepsRunOut
<1> SUFFICES ASSUME FileOK, TableTypeOK, SuffixesRunOut PROVE StepsRunOut
  OBVIOUS
<1>1. NamingLeft \in Nat /\ Lines \in Nat /\ read \in 0..Lines
  BY Sizes DEF SuffixesRunOut, TableTypeOK
<1>2. /\ step \in {"open", "rows", "names", "typed", "failed"}
      /\ done \subseteq {"preview", "ingest"}
      /\ done # {} => step = "typed"
  BY DEF TableTypeOK
<1>3. CASE step = "typed"
  <2>1. done = {"preview", "ingest"} <=> "preview" \in done /\ "ingest" \in done
    BY <1>2
  <2> QED
    BY <1>3, <2>1 DEF StepsRunOut, StepsLeft
<1>4. CASE step # "typed"
  <2>1. done # {"preview", "ingest"}
    BY <1>2, <1>4
  <2> QED
    BY <1>1, <1>2, <1>4, <2>1 DEF StepsRunOut, StepsLeft
<1> QED
  BY <1>3, <1>4

\* Every step leaves fewer.
LEMMA StepAdvances ==
  ASSUME FileOK, TableTypeOK, TakenInv, SuffixesRunOut, SuffixesRunOut', Next
  PROVE  StepsLeft' < StepsLeft
<1>1. /\ NamingLeft \in Nat /\ NamingLeft' \in Nat
      /\ Lines \in Nat /\ read \in 0..Lines
  BY Sizes DEF SuffixesRunOut, TableTypeOK
<1>2. done \subseteq {"preview", "ingest"} /\ (done # {} => step = "typed")
  BY DEF TableTypeOK
<1>3. UNCHANGED namesVars => NamingLeft' = NamingLeft
  BY DEF namesVars, NamingLeft, Slug
<1>4. ASSUME NEW e, Fail(e), step \in {"open", "rows"} PROVE StepsLeft' < StepsLeft
  BY <1>1, <1>4 DEF Fail, StepsLeft
<1>5. ASSUME NEW s \in {"rows", "names"}, NEW n \in 0..Lines, Proceed(s, n),
             step = "open" \/ (step = "rows" /\ (s = "names" \/ n = read + 1))
      PROVE  StepsLeft' < StepsLeft
  <2>1. Lines' = Lines /\ NamingLeft' = NamingLeft /\ step' = s /\ read' = n
    BY <1>3, <1>5 DEF Proceed, Lines
  <2> QED
    BY <1>1, <1>5, <2>1 DEF StepsLeft
<1>6. CASE RaiseIfEmpty
  BY <1>4, <1>6 DEF RaiseIfEmpty
<1>7. CASE ParseCsvRows
  <2>1. Lines \in 0..Lines
    BY <1>1
  <2> QED
    BY <1>4, <1>5, <1>7, <2>1 DEF ParseCsvRows
<1>8. CASE LoadWorkbook
  <2>1. 0 \in 0..Lines
    BY <1>1
  <2> QED
    BY <1>4, <1>5, <1>8, <2>1 DEF LoadWorkbook
<1>9. CASE ReadRow
  <2>1. read + 1 \in 0..Lines
    BY <1>1, <1>9 DEF ReadRow
  <2> QED
    BY <1>4, <1>5, <1>9, <2>1 DEF ReadRow
<1>10. CASE MalformedRow
  BY <1>4, <1>10 DEF MalformedRow
<1>11. CASE EndOfSheet
  BY <1>1, <1>4, <1>5, <1>11 DEF EndOfSheet
<1>12. CASE Name
  <2>1. NamingLeft' < NamingLeft
    BY <1>12, NamingAdvances DEF Name, TableTypeOK
  <2>2. StepsLeft = NamingLeft + 3 /\ StepsLeft' = NamingLeft' + 3
    BY <1>12 DEF Name, StepsLeft
  <2>3. NamingLeft \in Nat /\ NamingLeft' \in Nat
    BY <1>1
  <2>4. \A m, n \in Nat : m < n => m + 3 < n + 3
    OBVIOUS
  <2> QED
    BY <2>1, <2>2, <2>3, <2>4
<1>13. CASE DetectColumnTypes
  BY <1>1, <1>2, <1>13 DEF DetectColumnTypes, StepsLeft, outVars
<1>14. CASE Show
  BY <1>14 DEF Show, StepsLeft
<1>15. CASE Store
  BY <1>15 DEF Store, StepsLeft
<1> QED
  BY <1>6, <1>7, <1>8, <1>9, <1>10, <1>11, <1>12, <1>13, <1>14, <1>15 DEF Next

\* A file of so many lines under n columns is refused or stored, and shown, after
\* that many steps and n * n + 5 more, at most.
THEOREM TabulationIsBounded ==
  Spec => []StepsRunOut /\ [][StepsLeft' < StepsLeft]_vars
<1>1. Spec => []TakenInv /\ []SuffixesRunOut
  BY ImplementsColumnNames, TakenHolds, NamingIsBounded, PTL
<1>2. FileOK /\ TableTypeOK /\ SuffixesRunOut => StepsRunOut
  BY StepsCount
<1>3. /\ FileOK /\ TableTypeOK /\ TakenInv /\ SuffixesRunOut /\ SuffixesRunOut'
      /\ [Next]_vars
      => [StepsLeft' < StepsLeft]_vars
  BY StepAdvances
<1> QED
  BY <1>1, <1>2, <1>3, NamesHold, PTL DEF Spec

==============================================================================
