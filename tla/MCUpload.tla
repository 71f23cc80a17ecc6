------------------------------ MODULE MCUpload -------------------------------
(***************************************************************************)
(* Instances of Upload for TLC.  A name is the sequence of its parts, cut  *)
(* after two of them: "x-a" is <<"x", "a">>, whether it is asked for or    *)
(* given to a sheet, and the long name <<"x", "y">> loses every suffix.    *)
(***************************************************************************)
EXTENDS Upload, SequencesExt

CutName(base, sheet) == SubSeq(Append(base, sheet), 1, 2)

Form(owner, base, available, requested) ==
  [owner |-> owner, base |-> base, available |-> available,
   requested |-> requested, size |-> 1, webhook |-> "none",
   format |-> IF available = <<"csv">> THEN "csv" ELSE "xlsx"]

Csv == Form("o1", <<"x", "a">>, <<"csv">>, <<>>)
Workbook == Form("o1", <<"x">>, <<"a", "b", "c">>, <<"b", "a">>)

\* A CSV file whose name is that of a sheet, and whose webhook may be refused;
\* workbooks with the same two sheets in either order; another owner's, whose name
\* is so long that its sheets share it.  Others are refused: a workbook with too
\* many sheets, or without one asked for; a file that is no workbook, and too large.
AllForms ==
  {[Csv EXCEPT !.webhook = "http"],
   Workbook,
   Form("o1", <<"x">>, <<"a", "b">>, <<>>),
   Form("o2", <<"x", "a">>, <<"a", "b">>, <<>>),
   Form("o1", <<"x">>, <<"a", "b", "c">>, <<>>),
   Form("o1", <<"x">>, <<"a", "b">>, <<"a", "c">>),
   [Workbook EXCEPT !.format = "broken", !.size = 2]}

==============================================================================
