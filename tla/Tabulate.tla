------------------------------- MODULE Tabulate -------------------------------
(***************************************************************************)
(* From a file to the columns and rows of a dataset (services/ingestion.py *)
(* with ColumnNames and TypeDetection), and what readers make of those:    *)
(* the quality report (services/quality.py) and row filters (filters.py).  *)
(*                                                                         *)
(* preview_file() and the ingestion of a file make the same calls on it.   *)
(* One pass stands for both, so that nothing here compares them; Show and  *)
(* Store are what each of them makes of the result.                        *)
(***************************************************************************)
EXTENDS ColumnNames, TypeDetection

CONSTANTS
  Files,      \* the files, with the sheet that is asked for
  Object,     \* the Python objects in their cells, as <<type, what it holds>>
  Empty,      \* the value ""
  Blank,      \* a header cell without a character of a slug's but spaces,
  Unnamed,    \* and its slug, "column"
  MaxRows,    \* FILEBRIDGE_MAX_XLSX_ROWS
  SampleSize, \* PREVIEW_SAMPLE_SIZE
  Search,     \* the parameter "search"
  Reserved,   \* RESERVED_QUERY_PARAMS
  Lookup,     \* names that are lookups of a JSONField: "in", "contains", ...,
  LookupHolds(_, _, _),  \* and which rows they hold for, given a value
  Index,      \* names that int() reads: "2024", "1_000", also "2024_2"
  IContains(_, _)        \* icontains

\* What the Python types look like as strings.
LookOf ==
  [bool |-> "boolean", datetime |-> "date", date |-> "date", time |-> "text",
   timedelta |-> "number", float |-> "number", int |-> "number"]

Slugs(cells) ==
  [j \in 1..Len(cells) |-> IF cells[j] = Blank THEN Unnamed ELSE cells[j]]

\* How many rows a file has, its header among them.
RowsOf(f) == IF f.header = <<>> THEN 0 ELSE 1 + Len(f.body)

\* _stringify_cell(); the cells of a CSV are strings.  A datetime, a pair of a
\* day and a time, keeps its day, and a float that is integer looks like one.
Stringify(o) ==
  CASE o[1] = "none" -> Empty
    [] o[1] = "str" -> o[2]
    [] o[1] = "datetime" -> <<"date", o[2][1]>>
    [] OTHER -> <<LookOf[o[1]], o[2]>>

\* A file is a record of
\*   format   "csv" or "xlsx"
\*   content  "empty", "unreadable" (as UTF-8, or as a workbook) or "readable"
\*   sheet    "found", "missing", or "chart", a sheet without rows
\*   header   the cells of its first row, or none if it has no rows
\*   body     the cells of its other rows
\*   badRow   the row at which its reader raises an error, which may be the one
\*            after the last that could be read, or 0
\*   fault    "listed" if the error of an unreadable workbook or of such a row is
\*            one of _INVALID_WORKBOOK_ERRORS, and "other" for the rest of what
\*            openpyxl, zipfile and zlib raise (ValueError, zlib.error, ...)
ASSUME TabulateAssumption ==
  /\ \A f \in Files : /\ f.header \in Seq(Cell \cup {Blank})
                      /\ f.body \in Seq(Seq(Object))
                      /\ f.format \in {"csv", "xlsx"}
                      /\ f.content \in {"empty", "unreadable", "readable"}
                      /\ f.sheet \in {"found", "missing", "chart"}
                      /\ f.badRow \in 0..(1 + RowsOf(f))
                      /\ Slugs(f.header) \in Headers
  /\ \A o \in Object : IContains(Stringify(o), Stringify(o))
  /\ MaxRows \in Nat /\ SampleSize \in Nat

VARIABLES
  file,
  step,    \* what is to be done next
  error,   \* the exception that ended it, or ""
  read,    \* how many rows of the file were read, the header among them
  types,   \* the types of the columns
  columns, \* the stored columns,
  table,   \* and rows, each a function of the names of the columns
  preview, \* the answer of preview_file()
  done     \* "preview" or "ingest", once it is done

outVars == <<columns, table, preview, done>>
vars == <<namesVars, outVars, file, step, error, read, types>>

Init ==
  /\ file \in Files
  /\ header = Slugs(file.header) /\ NamesInit
  /\ step = "open" /\ error = "" /\ read = 0
  /\ types = <<>> /\ columns = <<>> /\ table = <<>>
  /\ preview = <<>> /\ done = {}

------------------------------------------------------------------------------
\* Parsing

Fail(exception) ==
  /\ step' = "failed"
  /\ error' = exception
  /\ UNCHANGED <<namesVars, outVars, file, read, types>>

Proceed(next, rows) ==
  /\ step' = next
  /\ read' = rows
  /\ UNCHANGED <<namesVars, outVars, file, error, types>>

Lines == RowsOf(file)

NoHeader == \A j \in DOMAIN file.header : file.header[j] = Blank

RaiseIfEmpty ==
  /\ step = "open"
  /\ file.content = "empty"
  /\ Fail("EmptyFileError")

\* The header is judged before the rows after it are read.  All that a decoder
\* and the csv module raise is handled.
ParseCsvRows ==
  /\ step = "open" /\ file.format = "csv"
  /\ file.content # "empty"
  /\ IF file.content = "unreadable" \/ file.badRow = 1 THEN Fail("InvalidCsvError")
     ELSE IF NoHeader THEN Fail("NoHeaderError")
     ELSE IF file.badRow > 1 THEN Fail("InvalidCsvError")
     ELSE Proceed("names", Lines)

\* Only what is in the list is turned into an error that the task handles.
WorkbookError == IF file.fault = "listed" THEN "InvalidExcelError" ELSE "OtherError"

\* A chart has no iter_rows().
LoadWorkbook ==
  /\ step = "open" /\ file.format = "xlsx"
  /\ file.content # "empty"
  /\ IF file.content = "unreadable" THEN Fail(WorkbookError)
     ELSE IF file.sheet = "missing" THEN Fail("InvalidExcelError")
     ELSE IF file.sheet = "chart" THEN Fail("AttributeError")
     ELSE Proceed("rows", 0)

\* Mutant: one row more than the cap.
Exceeds == read > MaxRows

AtCap == read >= MaxRows

\* Mutant: the loop ends at a malformed row, as if the sheet did.
EndAtMalformedRow ==
  /\ step = "rows" /\ file.badRow = read + 1
  /\ IF NoHeader THEN Fail("NoHeaderError") ELSE Proceed("names", read)

MalformedRow ==
  /\ step = "rows" /\ file.badRow = read + 1
  /\ Fail(WorkbookError)

ReadRow ==
  /\ step = "rows" /\ file.badRow # read + 1
  /\ read < Lines
  /\ IF AtCap THEN Fail("TooManyRows") ELSE Proceed("rows", read + 1)

EndOfSheet ==
  /\ step = "rows" /\ file.badRow # read + 1
  /\ read = Lines
  /\ IF NoHeader THEN Fail("NoHeaderError") ELSE Proceed("names", read)

------------------------------------------------------------------------------
\* Columns and rows

\* Cell j of data row i, padded to the header.
Text(i, j) ==
  IF j <= Len(file.body[i]) THEN Stringify(file.body[i][j]) ELSE Empty

Name ==
  /\ step = "names"
  /\ NamesNext
  /\ UNCHANGED <<outVars, file, step, error, read, types>>

\* Mutant: types are detected before every column has its name.
DetectNamedTypes ==
  /\ step = "names"
  /\ types' = [j \in 1..Len(out) |-> Detect([i \in 1..(read - 1) |-> Text(i, j)])]
  /\ step' = "typed"
  /\ UNCHANGED <<namesVars, outVars, file, error, read>>

DetectColumnTypes ==
  /\ step = "names" /\ Len(out) = Len(header)
  /\ types' = [j \in 1..Len(header) |-> Detect([i \in 1..(read - 1) |-> Text(i, j)])]
  /\ step' = "typed"
  /\ UNCHANGED <<namesVars, outVars, file, error, read>>

Described == [j \in 1..Len(header) |-> [name |-> out[j], type |-> types[j]]]

Names == {out[j] : j \in 1..Len(out)}

\* The dictionary of a row: of two columns with one name, the last one counts.
Data(i) ==
  [name \in Names |->
     Text(i, CHOOSE j \in 1..Len(out) :
               /\ out[j] = name
               /\ \A k \in (j + 1)..Len(out) : out[k] # name)]

Smallest(m, n) == IF m < n THEN m ELSE n

Sampled == Smallest(read - 1, SampleSize)

\* preview_file()
Show ==
  /\ step = "typed" /\ "preview" \notin done
  /\ preview' = [columns |-> Described,
                 rowCount |-> read - 1,
                 sample |-> [i \in 1..Sampled |-> Data(i)]]
  /\ done' = done \cup {"preview"}
  /\ UNCHANGED <<namesVars, columns, table, file, step, error, read, types>>

\* The transaction of _ingest_rows(); Ingestion and PublishTxn say more of it.
Store ==
  /\ step = "typed" /\ "ingest" \notin done
  /\ columns' = Described
  /\ table' = [i \in 1..(read - 1) |-> Data(i)]
  /\ done' = done \cup {"ingest"}
  /\ UNCHANGED <<namesVars, preview, file, step, error, read, types>>

Next ==
  \/ RaiseIfEmpty \/ ParseCsvRows \/ LoadWorkbook
  \/ ReadRow \/ MalformedRow \/ EndOfSheet
  \/ Name \/ DetectColumnTypes \/ Show \/ Store

Spec == Init /\ [][Next]_vars

\* Nothing it does waits for others.
FairSpec == Spec /\ WF_vars(Next)

------------------------------------------------------------------------------
\* Readers

Stored(j) == [i \in 1..Len(table) |-> table[i][columns[j].name]]

\* _column_report()
ColumnReport(j) ==
  [missing |-> Len(table) - Cardinality(NonEmpty(Stored(j))),
   invalid |-> Cardinality({i \in NonEmpty(Stored(j)) :
                              ~IsValid(Stored(j)[i], columns[j].type)})]

DuplicateRowCount ==
  Cardinality({i \in 1..Len(table) : \E k \in 1..(i - 1) : table[k] = table[i]})

Known == {columns[j].name : j \in 1..Len(columns)}

\* search=... in any column.  An empty search is none.  Django takes the name of
\* a column for the index of an array if int() reads it, which no row has: rows
\* are objects.  (An index of more than 32 bits makes PostgreSQL raise instead.)
Found(row, params) ==
  Search \in DOMAIN params /\ params[Search] # Empty =>
    \E c \in Known \ Index : IContains(row[c], params[Search])

\* Mutant: reserved parameters are never taken as columns.
Unreserved(params) == DOMAIN params \ Reserved

\* The parameters taken as columns, reserved or not.
Filters(params) == DOMAIN params \cap Known

\* data__name=value means the key, unless the name is that of a lookup, or is
\* taken for an index.
Matches(row, name, value) ==
  IF name \in Lookup THEN LookupHolds(row, name, value)
  ELSE name \notin Index /\ row[name] = value

\* build_row_queryset(); without columns, a search ends before the parameters
\* are looked at.
RowQueryset(params) ==
  IF /\ ~(Known = {} /\ Search \in DOMAIN params /\ params[Search] # Empty)
     /\ ~(DOMAIN params \subseteq Known \cup Reserved)
    THEN "UnknownColumnError"
    ELSE {i \in 1..Len(table) :
            /\ Found(table[i], params)
            /\ \A name \in Filters(params) : Matches(table[i], name, params[name])}

------------------------------------------------------------------------------
\* Properties

Errors == {"EmptyFileError", "InvalidCsvError", "InvalidExcelError", "TooManyRows",
           "NoHeaderError", "AttributeError", "OtherError"}

\* What is read is part of the file, names are those of its header, and columns
\* have their types when all of them have their names.
TableTypeOK ==
  /\ NamesTypeOK
  /\ header = Slugs(file.header)
  /\ step \in {"open", "rows", "names", "typed", "failed"}
  /\ error \in Errors \cup {""}
  /\ error # "" <=> step = "failed"
  /\ read \in 0..Lines
  /\ step \in {"names", "typed"} => read = Lines /\ Lines > 0
  /\ step = "typed" => /\ Len(out) = Len(header)
                       /\ DOMAIN types = 1..Len(header)
  /\ done \subseteq {"preview", "ingest"}
  /\ done # {} => step = "typed"
  /\ "ingest" \in done => /\ Len(columns) = Len(header)
                          /\ Len(table) = Lines - 1
  /\ "ingest" \notin done => columns = <<>> /\ table = <<>>

\* "Max rows read from a single .xlsx sheet" (README.md) is exact: a sheet of
\* that many rows, its header included, is stored, and no larger one.
CapExact ==
  file.format = "xlsx" =>
    /\ step = "typed" => Lines <= MaxRows
    /\ error = "TooManyRows" => Lines > MaxRows

\* Every cell under the header is stored in its row under the name of its
\* column, also where names were repeated; a short row has nothing in the columns
\* it lacks, and a row has no other columns, however long it is.
CellsKept ==
  "ingest" \in done =>
    \A i \in 1..Len(file.body) :
      /\ DOMAIN table[i] = {columns[j].name : j \in 1..Len(header)}
      /\ \A j \in 1..Len(header) :
           \/ /\ j <= Len(file.body[i])
              /\ table[i][columns[j].name] = Stringify(file.body[i][j])
           \/ /\ j > Len(file.body[i])
              /\ table[i][columns[j].name] = Empty

\* Ingestion and the report agree on what a type means: of what is there in a
\* column at most a tenth is invalid; missing is what is missing in the file;
\* only columns without values have no type; and all rows but the first of
\* their kind are duplicates.
QualityAgrees ==
  "ingest" \in done =>
    /\ \A j \in 1..Len(columns) :
         LET report == ColumnReport(j)
         IN  /\ 10 * report.invalid <= Len(table) - report.missing
             /\ report.missing =
                  Cardinality({i \in 1..Len(file.body) : Look(Text(i, j)) = "blank"})
             /\ columns[j].type = "unknown" <=> report.missing = Len(table)
    /\ DuplicateRowCount = Len(table) - Cardinality({table[i] : i \in 1..Len(table)})

\* A filter by a column finds the rows with that value in the column of the
\* file, and only those, even if the column is named like a reserved parameter.
\* By a column whose name is taken for an index it finds nothing at all; of one
\* named like a lookup this says nothing.
FilterFindsCells ==
  "ingest" \in done =>
    \A j \in 1..Len(columns), o \in Object :
      columns[j].name \notin Lookup =>
        RowQueryset([name \in {columns[j].name} |-> Stringify(o)]) =
          {i \in 1..Len(file.body) :
             columns[j].name \notin Index /\ Text(i, j) = Stringify(o)}

\* Nothing in a file is wrong.
Whole ==
  /\ file.content = "readable" /\ ~NoHeader /\ file.badRow = 0
  /\ file.format = "xlsx" => file.sheet = "found" /\ Lines <= MaxRows

\* What is stored or shown is a file that was read to its end without an error,
\* wherever that error may come (before or after the header was judged, at a row
\* below or above the cap, after the last row): no part of a damaged file is ever
\* taken for the whole.  And no file is refused that has nothing wrong.
OnlyWholeFiles ==
  /\ done # {} => Whole
  /\ step = "failed" => ~Whole

\* The loops end: every file is stored or refused.
TabulationEnds == <>(step = "failed" \/ "ingest" \in done)

==============================================================================
