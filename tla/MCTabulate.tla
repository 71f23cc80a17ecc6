----------------------------- MODULE MCTabulate ------------------------------
(***************************************************************************)
(* Instances of Tabulate for TLC.  A name is its slug followed by the      *)
(* suffixes appended to it, so that <<"a", 2>> is the slug "a_2", whether  *)
(* it comes from a cell or from the renaming of a second "a".              *)
(***************************************************************************)
EXTENDS Tabulate, SequencesExt

CONSTANTS MaxLen, MaxGood

AppendSuffix(s, n) == Append(s, n)

Colliding == {<<"a">>, <<"b">>, <<"a", 2>>, <<"a", 3>>, <<"a", 2, 2>>}

SearchParam == <<"search">>
ReservedParams == {SearchParam, <<"page">>, <<"format">>}
LookupNames == {<<"in">>}
BlankCell == <<" ">>
ColumnSlug == <<"column">>

\* int() reads "2024", and the "2024_2" of its second column.
IndexNames == {<<"2024">>, <<"2024", 2>>}

Cells == Colliding \cup {ColumnSlug, SearchParam, <<"page">>, <<"in">>, <<"2024">>}

EmptyValue == <<"blank", 0>>
Strings == {EmptyValue, <<"blank", 1>>, <<"number", 1>>, <<"text", 1>>, <<"text", 2>>}
Objects ==
  {<<"str", v>> : v \in Strings} \cup
  {<<"none", 0>>, <<"bool", 1>>, <<"datetime", <<1, 1>>>>, <<"datetime", <<1, 2>>>>,
   <<"date", 1>>, <<"time", 1>>, <<"timedelta", 2>>, <<"float", 1>>, <<"int", 1>>}

\* Text 2 contains text 1.
ContainsText(v, s) == v = s \/ (v = <<"text", 2>> /\ s = <<"text", 1>>)
NoLookupHolds(row, name, value) == FALSE

File(format, cells, body) ==
  [format |-> format, content |-> "readable", sheet |-> "found",
   header |-> cells, body |-> body, badRow |-> 0, fault |-> "listed"]

\* Every header of colliding names, without rows.
HeaderFiles == {File("csv", h, <<>>) : h \in BoundedSeq(Colliding, MaxLen)}

\* A column with so many numbers, words and missing values.
Repeat(v, n) == [i \in 1..n |-> <<<<"str", v>>>>]
RatioFiles ==
  {File("csv", <<<<"a">>>>,
        Repeat(<<"number", 1>>, good) \o Repeat(<<"text", 1>>, bad)
          \o Repeat(EmptyValue, missing)) :
     good \in 0..MaxGood, bad \in 0..2, missing \in 0..1}

\* Short and long rows under headers with repeated, blank and reserved names.
Rows ==
  BoundedSeq({<<"str", v>> : v \in {EmptyValue, <<"text", 1>>, <<"text", 2>>}}, 2)
    \cup {<<<<"str", <<"text", 1>>>>, <<"none", 0>>, <<"str", <<"text", 2>>>>>>}
SmallHeaders ==
  {<<<<"a">>, <<"a">>>>, <<BlankCell, ColumnSlug>>, <<BlankCell, BlankCell>>,
   <<SearchParam, <<"page">>>>, <<<<"in">>, SearchParam>>, <<<<"a">>>>,
   <<<<"2024">>, <<"2024">>>>, <<SearchParam, <<"2024">>>>,
   <<<<"a">>, <<"a">>, <<"a", 2>>>>}
RowFiles ==
  {File("csv", h, b) : h \in SmallHeaders, b \in BoundedSeq(Rows, 2)} \cup
  {File("csv", <<<<"a">>>>, <<r, s, r>>) : r, s \in Rows}

\* Cells of every type, in columns of a workbook.
ObjectFiles ==
  {File("xlsx", <<<<"a">>>>, [i \in 1..Len(b) |-> <<b[i]>>]) :
     b \in BoundedSeq(Objects, 2)}

\* Everything that can be wrong with a file, up to more rows than the cap.
BrokenFiles ==
  {[format |-> format, content |-> content, sheet |-> sheet, header |-> h,
    body |-> IF h = <<>> THEN <<>> ELSE Repeat(<<"number", 1>>, n), badRow |-> bad,
    fault |-> fault] :
     format \in {"csv", "xlsx"}, content \in {"empty", "unreadable", "readable"},
     sheet \in {"found", "missing", "chart"},
     h \in {<<>>, <<BlankCell>>, <<<<"a">>>>}, n \in 0..(MaxRows + 1),
     bad \in 0..(MaxRows + 3), fault \in {"listed", "other"}}

AllFiles == HeaderFiles \cup RatioFiles \cup RowFiles \cup ObjectFiles \cup
            {f \in BrokenFiles :
               /\ f.badRow <= 1 + RowsOf(f)
               /\ f.format = "csv" => f.sheet = "found" /\ f.fault = "listed"
               /\ f.fault = "other" => f.content = "unreadable" \/ f.badRow > 0}

AllHeaders == BoundedSeq(Cells, MaxLen)

==============================================================================
