----------------------------- MODULE ColumnNames -----------------------------
(***************************************************************************)
(* normalize_column_name (services/ingestion.py) over the cells of one     *)
(* header, with the dictionary "seen" its callers share between the calls: *)
(* _ingest_rows for the columns it stores, and preview_file.  Each cell is *)
(* taken as its slug; a suffixed name may be the slug of another cell.     *)
(***************************************************************************)
EXTENDS Naturals, Sequences

CONSTANTS
  Cell,          \* the slugs of cells
  Suffix(_, _),  \* f"{slug}_{n}"
  Headers        \* the headers to normalize, as sequences of slugs

ASSUME HeadersAssumption == Headers \subseteq Seq(Cell)

\* Suffixes make names that differ from each other and from the slug.
ASSUME SuffixAssumption ==
  \A n \in {Len(h) : h \in Headers}, slug \in Cell : \A i, j \in 2..n :
    /\ Suffix(slug, i) # slug
    /\ Suffix(slug, i) = Suffix(slug, j) => i = j

VARIABLES
  header,
  seen,   \* the dictionary: the last suffix tried for each of its keys
  out,    \* the names returned so far
  pc      \* "call" normalize_column_name, or "probe" its next candidate

namesVars == <<header, seen, out, pc>>

NamesInit ==
  /\ header \in Headers
  /\ seen = [n \in {} |-> 0]
  /\ out = <<>>
  /\ pc = "call"

Slug == header[Len(out) + 1]

InHeader == Len(out) < Len(header)

Seen(n) == n \in DOMAIN seen

SetSeen(n, count) ==
  seen' = [k \in DOMAIN seen \cup {n} |-> IF k = n THEN count ELSE seen[k]]

\* Mutant: an unseen slug is not entered in the dictionary.
FirstUseForgotten ==
  /\ pc = "call" /\ InHeader
  /\ ~Seen(Slug)
  /\ out' = Append(out, Slug)
  /\ UNCHANGED <<header, seen, pc>>

\* Mutant: every name gets a suffix.
FirstUseNumbered ==
  /\ pc = "call" /\ InHeader
  /\ ~Seen(Slug)
  /\ SetSeen(Slug, 1)
  /\ out' = Append(out, Suffix(Slug, 1))
  /\ UNCHANGED <<header, pc>>

FirstUse ==
  /\ pc = "call" /\ InHeader
  /\ ~Seen(Slug)
  /\ SetSeen(Slug, 1)
  /\ out' = Append(out, Slug)
  /\ UNCHANGED <<header, pc>>

Repeated ==
  /\ pc = "call" /\ InHeader
  /\ Seen(Slug)
  /\ SetSeen(Slug, seen[Slug] + 1)
  /\ pc' = "probe"
  /\ UNCHANGED <<header, out>>

Candidate == Suffix(Slug, seen[Slug])

\* Mutant: the loop tries the same candidate again.
TakenAgain ==
  /\ pc = "probe"
  /\ Seen(Candidate)
  /\ UNCHANGED namesVars

CandidateTaken ==
  /\ pc = "probe"
  /\ Seen(Candidate)
  /\ SetSeen(Slug, seen[Slug] + 1)
  /\ UNCHANGED <<header, out, pc>>

\* Mutant: the candidate is not entered in the dictionary.
CandidateForgotten ==
  /\ pc = "probe"
  /\ ~Seen(Candidate)
  /\ out' = Append(out, Candidate)
  /\ pc' = "call"
  /\ UNCHANGED <<header, seen>>

CandidateFree ==
  /\ pc = "probe"
  /\ ~Seen(Candidate)
  /\ SetSeen(Candidate, 1)
  /\ out' = Append(out, Candidate)
  /\ pc' = "call"
  /\ UNCHANGED header

NamesNext == FirstUse \/ Repeated \/ CandidateTaken \/ CandidateFree

NamesSpec == NamesInit /\ [][NamesNext]_namesVars

------------------------------------------------------------------------------
\* The keys of the dictionary are the names returned, and a candidate is only
\* looked for when its slug is one of them.
NamesTypeOK ==
  /\ header \in Headers
  /\ seen \in [DOMAIN seen -> Nat \ {0}]
  /\ out \in Seq(DOMAIN seen)
  /\ Len(out) <= Len(header)
  /\ pc \in {"call", "probe"}
  /\ pc = "probe" => InHeader /\ Seen(Slug) /\ seen[Slug] > 1

\* No two columns of a dataset have the same name, though suffixed names and
\* headers that look like them meet: the constraint unique_dataset_column_name
\* never rejects an ingestion, and no cell of a row overwrites another.
NamesDistinct ==
  \A i, j \in 1..Len(out) : out[i] = out[j] => i = j

\* A header without repetitions keeps its names.
Unrepeated == \A i, j \in 1..Len(header) : header[i] = header[j] => i = j

UnrepeatedKept ==
  Unrepeated => \A i \in 1..Len(out) : out[i] = header[i]

==============================================================================
