-------------------------- MODULE ColumnNamesProofs --------------------------
(***************************************************************************)
(* Safety of ColumnNames for every set of headers, of any length, and      *)
(* whatever the suffixes look like: the loop alone keeps names apart, not  *)
(* the form of "name_2".  That the loop ends does need that different       *)
(* suffixes make different names.                                          *)
(***************************************************************************)
EXTENDS ColumnNames, FiniteSetTheorems, TLAPS

\* A name appended to out and entered in the dictionary leaves both in order.
LEMMA Named ==
  ASSUME NamesTypeOK, NEW n, NEW count \in Nat \ {0},
         SetSeen(n, count), out' = Append(out, n),
         header' = header, pc' = "call", InHeader
  PROVE  NamesTypeOK'
<1>1. seen' \in [DOMAIN seen' -> Nat \ {0}] /\ DOMAIN seen' = DOMAIN seen \cup {n}
  BY DEF NamesTypeOK, SetSeen
<1>2. out \in Seq(DOMAIN seen')
  <2>1. \A i \in 1..Len(out) : out[i] \in DOMAIN seen'
    BY <1>1 DEF NamesTypeOK
  <2>2. Len(out) \in Nat /\ out = [i \in 1..Len(out) |-> out[i]]
    BY DEF NamesTypeOK
  <2> QED BY <2>1, <2>2, SMTT(30)
<1>3. out' \in Seq(DOMAIN seen')
  BY <1>1, <1>2
<1>4. header \in Seq(Cell)
  BY HeadersAssumption DEF NamesTypeOK
<1>5. Len(out') <= Len(header')
  BY <1>2, <1>4 DEF InHeader
<1> QED BY <1>1, <1>3, <1>5 DEF NamesTypeOK

\* Counting up the suffix of a name that is in the dictionary changes no key.
LEMMA Counted ==
  ASSUME NamesTypeOK, InHeader, Seen(Slug), SetSeen(Slug, seen[Slug] + 1),
         UNCHANGED <<header, out>>, pc' = "probe"
  PROVE  NamesTypeOK' /\ DOMAIN seen' = DOMAIN seen
<1>1. seen[Slug] \in Nat \ {0}
  BY DEF NamesTypeOK, Seen
<1>2. DOMAIN seen' = DOMAIN seen
  BY DEF SetSeen, Seen
<1>3. seen' \in [DOMAIN seen' -> Nat \ {0}]
  BY <1>1, <1>2 DEF SetSeen, NamesTypeOK
<1>4. Slug' = Slug /\ InHeader'
  BY DEF Slug, InHeader
<1>5. seen'[Slug'] > 1 /\ Seen(Slug)'
  BY <1>1, <1>2, <1>4 DEF SetSeen, Seen
<1> QED BY <1>2, <1>3, <1>4, <1>5 DEF NamesTypeOK

LEMMA TypeStep == NamesTypeOK /\ [NamesNext]_namesVars => NamesTypeOK'
<1> SUFFICES ASSUME NamesTypeOK, [NamesNext]_namesVars PROVE NamesTypeOK'
  OBVIOUS
<1>1. CASE FirstUse
  BY <1>1, Named DEF FirstUse
<1>2. CASE Repeated
  BY <1>2, Counted DEF Repeated
<1>3. CASE CandidateTaken
  BY <1>3, Counted DEF CandidateTaken, NamesTypeOK
<1>4. CASE CandidateFree
  BY <1>4, Named DEF CandidateFree, NamesTypeOK
<1>5. CASE UNCHANGED namesVars
  BY <1>5 DEF namesVars, NamesTypeOK, InHeader, Seen, Slug
<1> QED BY <1>1, <1>2, <1>3, <1>4, <1>5 DEF NamesNext

\* The names returned are keys of the dictionary, and its counters are
\* positive, throughout the calls of one header.
THEOREM NamesTyped == NamesSpec => []NamesTypeOK
<1>1. NamesInit => NamesTypeOK
  <2> SUFFICES ASSUME NamesInit PROVE NamesTypeOK
    OBVIOUS
  <2>1. header \in Seq(Cell)
    BY HeadersAssumption DEF NamesInit
  <2>2. Len(out) = 0 /\ Len(header) \in Nat
    BY <2>1 DEF NamesInit
  <2> QED BY <2>2 DEF NamesInit, NamesTypeOK
<1> QED BY <1>1, TypeStep, PTL DEF NamesSpec

\* A name that is appended is no key, hence none of the names returned before.
LEMMA DistinctStep ==
  NamesTypeOK /\ NamesDistinct /\ [NamesNext]_namesVars => NamesDistinct'
<1> SUFFICES ASSUME NamesTypeOK, NamesDistinct, [NamesNext]_namesVars
             PROVE  NamesDistinct'
  OBVIOUS
<1>1. ASSUME NEW n, ~Seen(n), out' = Append(out, n)
      PROVE  NamesDistinct'
  <2>1. \A i \in 1..Len(out) : out[i] \in DOMAIN seen
    BY DEF NamesTypeOK
  <2>2. /\ Len(out) \in Nat
        /\ Len(out') = Len(out) + 1
        /\ out'[Len(out) + 1] = n
        /\ \A i \in 1..Len(out) : out'[i] = out[i]
    BY <1>1 DEF NamesTypeOK
  <2> QED BY <1>1, <2>1, <2>2 DEF NamesDistinct, Seen
<1>2. CASE UNCHANGED out
  BY <1>2 DEF NamesDistinct
<1>3. CASE FirstUse
  BY <1>1, <1>3 DEF FirstUse
<1>4. CASE CandidateFree
  BY <1>1, <1>4 DEF CandidateFree
<1> QED BY <1>2, <1>3, <1>4 DEF NamesNext, Repeated, CandidateTaken, namesVars

\* No two columns of a dataset have the same name: normalize_column_name
\* returns a name its dictionary does not hold, and enters it there.
THEOREM NamesAreDistinct == NamesSpec => []NamesDistinct
<1>1. NamesInit => NamesDistinct
  BY DEF NamesInit, NamesDistinct
<1> QED BY <1>1, NamesTyped, DistinctStep, PTL DEF NamesSpec

------------------------------------------------------------------------------
\* In a header without repetitions the keys are the cells dealt with so far,
\* so that every cell takes the first branch.
Verbatim ==
  Unrepeated =>
    /\ pc = "call"
    /\ DOMAIN seen = {header[i] : i \in 1..Len(out)}
    /\ \A i \in 1..Len(out) : out[i] = header[i]

LEMMA VerbatimStep == NamesTypeOK /\ Verbatim /\ [NamesNext]_namesVars => Verbatim'
<1> SUFFICES ASSUME NamesTypeOK, Verbatim, [NamesNext]_namesVars, Unrepeated'
             PROVE  Verbatim'
  BY DEF Verbatim
<1>1. header' = header /\ Unrepeated
  BY DEF NamesNext, namesVars, FirstUse, Repeated, CandidateTaken, CandidateFree,
         Unrepeated
<1>2. Len(out) \in Nat /\ Len(header) \in Nat
  BY HeadersAssumption DEF NamesTypeOK
<1>3. pc = "call" /\ (InHeader => ~Seen(Slug))
  BY <1>1, <1>2 DEF Verbatim, Unrepeated, InHeader, Seen, Slug
<1>4. CASE FirstUse
  <2>1. /\ Len(out') = Len(out) + 1
        /\ out'[Len(out) + 1] = header[Len(out) + 1]
        /\ \A i \in 1..Len(out) : out'[i] = out[i]
    BY <1>4, <1>2 DEF FirstUse, Slug, NamesTypeOK
  <2>2. DOMAIN seen' = {header[i] : i \in 1..Len(out')}
    BY <1>1, <1>2, <1>4, <2>1 DEF FirstUse, SetSeen, Slug, Verbatim
  <2>3. \A i \in 1..Len(out') : out'[i] = header'[i]
    BY <1>1, <1>2, <2>1 DEF Verbatim
  <2> QED BY <1>1, <1>3, <1>4, <2>2, <2>3 DEF FirstUse, Verbatim
<1>5. CASE UNCHANGED namesVars
  BY <1>5, <1>1 DEF namesVars, Verbatim
<1> QED BY <1>3, <1>4, <1>5
        DEF NamesNext, Repeated, CandidateTaken, CandidateFree

\* A header that repeats no slug keeps its slugs as column names.
THEOREM UnrepeatedIsKept == NamesSpec => []UnrepeatedKept
<1>1. NamesInit => Verbatim
  BY DEF NamesInit, Verbatim
<1>2. Verbatim => UnrepeatedKept
  BY DEF Verbatim, UnrepeatedKept
<1> QED BY <1>1, <1>2, NamesTyped, VerbatimStep, PTL DEF NamesSpec

------------------------------------------------------------------------------
\* Why the loop ends.  Each suffix that it passes over is the name of a column
\* before this one, and these are finitely many.

\* The last suffix of a name that is known to be taken.
LastTaken(n) == IF pc = "probe" /\ n = Slug THEN seen[n] - 1 ELSE seen[n]

TakenInv ==
  /\ DOMAIN seen = {out[i] : i \in 1..Len(out)}
  /\ \A n \in DOMAIN seen :
       /\ LastTaken(n) <= Len(out)
       /\ \A k \in 2..LastTaken(n) : Suffix(n, k) \in DOMAIN seen

\* How many branches and turns of the loop are left at most.
NamingLeft ==
  LET n == Len(header)
      k == n - Len(out)
  IN  IF pc = "call" THEN k * n
      ELSE (k - 1) * n + (Len(out) + 2 - seen[Slug])

\* No column gets a suffix larger than its position, and the header of n cells
\* is named after n * n turns at most.
SuffixesRunOut ==
  /\ pc = "probe" => seen[Slug] <= Len(out) + 1
  /\ NamingLeft \in Nat
  /\ NamingLeft = 0 <=> Len(out) = Len(header)

LEMMA Lengths ==
  ASSUME NamesTypeOK
  PROVE  /\ header \in Seq(Cell)
         /\ Len(header) \in Nat /\ Len(out) \in Nat
         /\ Len(out) <= Len(header)
         /\ InHeader => Slug \in Cell /\ Len(out) < Len(header)
<1>1. header \in Seq(Cell)
  BY HeadersAssumption DEF NamesTypeOK
<1>2. Len(header) \in Nat /\ Len(out) \in Nat /\ Len(out) <= Len(header)
  BY <1>1 DEF NamesTypeOK
<1> QED
  BY <1>1, <1>2 DEF InHeader, Slug

\* Of a cell and its suffixes no more are taken than there are columns.
LEMMA FewTaken ==
  ASSUME NamesTypeOK, DOMAIN seen = {out[i] : i \in 1..Len(out)},
         NEW slug \in Cell, slug \in DOMAIN seen, NEW n \in 1..Len(header),
         \A k \in 2..n : Suffix(slug, k) \in DOMAIN seen
  PROVE  n <= Len(out)
<1>1. Len(out) \in Nat /\ Len(header) \in Nat
  BY Lengths
<1>2. IsFiniteSet(DOMAIN seen) /\ Cardinality(DOMAIN seen) <= Len(out)
  <2>1. out \in Surjection(1..Len(out), DOMAIN seen)
    BY <1>1 DEF Surjection, NamesTypeOK
  <2>2. IsFiniteSet(1..Len(out)) /\ Cardinality(1..Len(out)) = Len(out)
    <3>1. 1 \in Int /\ Len(out) \in Int
      BY <1>1
    <3>2. /\ IsFiniteSet(1..Len(out))
          /\ Cardinality(1..Len(out)) = IF 1 > Len(out) THEN 0 ELSE Len(out) - 1 + 1
      BY <3>1, FS_Interval
    <3> QED
      BY <1>1, <3>2
  <2> QED
    BY <2>1, <2>2, FS_Surjection
<1>3. [k \in 1..n |-> IF k = 1 THEN slug ELSE Suffix(slug, k)]
        \in Injection(1..n, DOMAIN seen)
  <2>1. \A i, j \in 2..n : /\ Suffix(slug, i) # slug
                           /\ Suffix(slug, i) = Suffix(slug, j) => i = j
    <3>1. \A i, j \in 2..Len(header) : /\ Suffix(slug, i) # slug
                                       /\ Suffix(slug, i) = Suffix(slug, j) => i = j
      <4>1. Len(header) \in {Len(h) : h \in Headers}
        BY DEF NamesTypeOK
      <4> QED
        BY <4>1, SuffixAssumption
    <3> QED
      BY <1>1, <3>1
  <2>2. \A i \in 1..n : i = 1 \/ i \in 2..n
    BY <1>1
  <2> QED
    BY <2>1, <2>2 DEF Injection, IsInjective
<1>4. Cardinality(1..n) <= Cardinality(DOMAIN seen)
  BY <1>2, <1>3, FS_Injection
<1>5. Cardinality(1..n) = n
  <2>1. 1 \in Int /\ n \in Int
    BY <1>1
  <2>2. Cardinality(1..n) = IF 1 > n THEN 0 ELSE n - 1 + 1
    BY <2>1, FS_Interval
  <2> QED
    BY <2>2
<1>6. Cardinality(DOMAIN seen) \in Nat
  BY <1>2, FS_CardinalityType
<1> QED
  BY <1>1, <1>2, <1>4, <1>5, <1>6

LEMMA TakenStep == NamesTypeOK /\ TakenInv /\ [NamesNext]_namesVars => TakenInv'
<1> SUFFICES ASSUME NamesTypeOK, TakenInv, [NamesNext]_namesVars
             PROVE  TakenInv'
  OBVIOUS
<1>1. /\ Len(out) \in Nat /\ Len(header) \in Nat
      /\ InHeader => Slug \in Cell /\ Len(out) < Len(header)
      /\ seen \in [DOMAIN seen -> Nat \ {0}]
      /\ pc = "probe" => InHeader /\ Seen(Slug) /\ seen[Slug] > 1
  BY Lengths DEF NamesTypeOK
<1>2. ASSUME NEW n, out' = Append(out, n), DOMAIN seen' = DOMAIN seen \cup {n}
      PROVE  Len(out') = Len(out) + 1 /\ DOMAIN seen' = {out'[i] : i \in 1..Len(out')}
  <2>1. /\ Len(out') = Len(out) + 1
        /\ out'[Len(out) + 1] = n
        /\ \A i \in 1..Len(out) : out'[i] = out[i]
    BY <1>1, <1>2 DEF NamesTypeOK
  <2>2. 1..Len(out') = 1..Len(out) \cup {Len(out) + 1}
    BY <1>1, <2>1
  <2> QED
    BY <1>2, <2>1, <2>2 DEF TakenInv
<1>3. CASE FirstUse
  <2>1. DOMAIN seen' = DOMAIN seen \cup {Slug} /\ out' = Append(out, Slug)
    BY <1>3 DEF FirstUse, SetSeen
  <2>2. \A n \in DOMAIN seen' : LastTaken(n)' = IF n = Slug THEN 1 ELSE LastTaken(n)
    BY <1>3 DEF FirstUse, SetSeen, Seen, LastTaken
  <2>3. ASSUME NEW n \in DOMAIN seen'
        PROVE  /\ LastTaken(n)' <= Len(out')
               /\ \A k \in 2..LastTaken(n)' : Suffix(n, k) \in DOMAIN seen'
    <3>1. CASE n = Slug
      BY <1>1, <1>2, <2>1, <2>2, <3>1
    <3>2. CASE n # Slug
      BY <1>1, <1>2, <1>3, <2>1, <2>2, <3>2 DEF TakenInv, FirstUse, LastTaken
    <3> QED
      BY <3>1, <3>2
  <2> QED
    BY <1>2, <2>1, <2>3 DEF TakenInv
<1>4. CASE Repeated
  <2>1. Slug' = Slug /\ DOMAIN seen' = DOMAIN seen /\ out' = out
    BY <1>4 DEF Repeated, SetSeen, Seen, Slug
  <2>2. \A n \in DOMAIN seen : LastTaken(n)' = LastTaken(n)
    BY <1>1, <1>4, <2>1 DEF Repeated, SetSeen, LastTaken
  <2> QED
    BY <2>1, <2>2 DEF TakenInv
<1>5. ASSUME pc = "probe"
      PROVE  /\ LastTaken(Slug) = seen[Slug] - 1
             /\ seen[Slug] \in Nat \ {0} /\ seen[Slug] <= Len(out) + 1
             /\ Slug \in DOMAIN seen
             /\ \A k \in 2..(seen[Slug] - 1) : Suffix(Slug, k) \in DOMAIN seen
  BY <1>1, <1>5 DEF TakenInv, LastTaken, Seen
<1>6. CASE CandidateTaken
  <2>1. Slug' = Slug /\ DOMAIN seen' = DOMAIN seen /\ out' = out
    BY <1>1, <1>6 DEF CandidateTaken, SetSeen, Seen, Slug
  <2>2. /\ LastTaken(Slug)' = seen[Slug]
        /\ \A n \in DOMAIN seen \ {Slug} : LastTaken(n)' = LastTaken(n)
    BY <1>1, <1>6, <2>1 DEF CandidateTaken, SetSeen, Seen, LastTaken
  <2>3. \A k \in 2..seen[Slug] : Suffix(Slug, k) \in DOMAIN seen
    BY <1>5, <1>6 DEF CandidateTaken, Candidate, Seen
  <2>4. seen[Slug] <= Len(out)
    BY <1>1, <1>5, <1>6, <2>3, FewTaken DEF CandidateTaken, TakenInv
  <2> QED
    BY <2>1, <2>2, <2>3, <2>4 DEF TakenInv
<1>7. CASE CandidateFree
  <2>1. DOMAIN seen' = DOMAIN seen \cup {Candidate} /\ out' = Append(out, Candidate)
    BY <1>7 DEF CandidateFree, SetSeen
  <2>2. \A n \in DOMAIN seen' :
          LastTaken(n)' = IF n = Candidate THEN 1
                          ELSE IF n = Slug THEN seen[Slug]
                          ELSE LastTaken(n)
    BY <1>1, <1>7 DEF CandidateFree, SetSeen, Seen, LastTaken
  <2>3. \A k \in 2..seen[Slug] : Suffix(Slug, k) \in DOMAIN seen'
    BY <1>5, <1>7, <2>1 DEF CandidateFree, Candidate
  <2>4. ASSUME NEW n \in DOMAIN seen'
        PROVE  /\ LastTaken(n)' <= Len(out')
               /\ \A k \in 2..LastTaken(n)' : Suffix(n, k) \in DOMAIN seen'
    <3>1. CASE n = Candidate
      BY <1>1, <1>2, <2>1, <2>2, <3>1
    <3>2. CASE n # Candidate /\ n = Slug
      BY <1>1, <1>2, <1>5, <1>7, <2>1, <2>2, <2>3, <3>2 DEF CandidateFree
    <3>3. CASE n # Candidate /\ n # Slug
      BY <1>1, <1>2, <2>1, <2>2, <3>3 DEF TakenInv, LastTaken
    <3> QED
      BY <3>1, <3>2, <3>3
  <2> QED
    BY <1>2, <2>1, <2>4 DEF TakenInv
<1>8. CASE UNCHANGED namesVars
  BY <1>8 DEF namesVars, TakenInv, LastTaken, Slug
<1> QED
  BY <1>3, <1>4, <1>6, <1>7, <1>8 DEF NamesNext

LEMMA TakenHolds == NamesSpec => []TakenInv
<1>1. NamesInit => TakenInv
  BY DEF NamesInit, TakenInv
<1> QED
  BY <1>1, TakenStep, NamesTyped, PTL DEF NamesSpec

LEMMA NamingCount == NamesTypeOK /\ TakenInv => SuffixesRunOut
<1> SUFFICES ASSUME NamesTypeOK, TakenInv PROVE SuffixesRunOut
  OBVIOUS
<1> DEFINE k == Len(header) - Len(out)
           n == Len(header)
<1>1. Len(out) \in Nat /\ n \in Nat /\ k \in 0..n /\ (InHeader => k > 0)
  BY Lengths
<1>2. CASE pc = "call"
  <2>1. k * n \in Nat /\ (k * n = 0 <=> k = 0)
    <3> HIDE DEF k, n
    <3>1. CASE k = 0
      BY <1>1, <3>1
    <3>2. CASE k > 0
      <4>1. (k - 1) * n \in Nat /\ k * n = (k - 1) * n + n
        BY <1>1, <3>2
      <4> QED
        BY <1>1, <3>2, <4>1
    <3> QED
      BY <1>1, <3>1, <3>2
  <2> QED
    BY <1>1, <1>2, <2>1 DEF SuffixesRunOut, NamingLeft
<1>3. CASE pc = "probe"
  <2>1. /\ InHeader /\ seen[Slug] \in Nat /\ seen[Slug] <= Len(out) + 1
    BY <1>1, <1>3 DEF NamesTypeOK, TakenInv, LastTaken, Seen
  <2>2. (k - 1) * n \in Nat
    <3>1. k - 1 \in Nat
      BY <1>1, <2>1
    <3> HIDE DEF k
    <3> QED
      BY <1>1, <3>1
  <2>3. Len(out) + 2 - seen[Slug] \in Nat \ {0}
    BY <1>1, <2>1
  <2>4. Len(out) # Len(header)
    BY <1>1, <2>1
  <2>5. NamingLeft = (k - 1) * n + (Len(out) + 2 - seen[Slug])
    BY <1>3 DEF NamingLeft
  <2>6. NamingLeft \in Nat \ {0}
    <3> HIDE DEF k, n
    <3> QED BY <2>2, <2>3, <2>5
  <2> QED
    BY <2>1, <2>4, <2>6 DEF SuffixesRunOut
<1> QED
  BY <1>2, <1>3 DEF NamesTypeOK

\* Every branch, and every turn of the loop, leaves fewer.
LEMMA NamingAdvances ==
  ASSUME NamesTypeOK, TakenInv, NamesNext
  PROVE  NamingLeft' < NamingLeft
<1> DEFINE k == Len(header) - Len(out)
           n == Len(header)
<1>1. Len(out) \in Nat /\ n \in Nat /\ k \in 0..n /\ (InHeader => k > 0)
  BY Lengths
<1>2. header' = header
  BY DEF NamesNext, FirstUse, Repeated, CandidateTaken, CandidateFree
<1>3. (k - 1) * n \in Int /\ k * n = (k - 1) * n + n
  <2> HIDE DEF k, n
  <2> QED BY <1>1
<1>4. pc = "probe" => /\ InHeader /\ Seen(Slug) /\ seen[Slug] \in Nat \ {0}
                      /\ seen[Slug] <= Len(out) + 1
  BY <1>1 DEF NamesTypeOK, TakenInv, LastTaken, Seen
<1>5. ASSUME NEW name, out' = Append(out, name), pc' = "call"
      PROVE  NamingLeft' = (k - 1) * n
  <2>1. Len(out') = Len(out) + 1
    BY <1>5 DEF NamesTypeOK
  <2>2. Len(header') - Len(out') = k - 1
    BY <1>1, <1>2, <2>1
  <2> QED
    BY <1>2, <1>5, <2>2 DEF NamingLeft
<1>6. CASE FirstUse
  <2>1. NamingLeft = k * n /\ NamingLeft' = (k - 1) * n
    BY <1>5, <1>6 DEF FirstUse, NamingLeft
  <2>2. k > 0
    BY <1>1, <1>6 DEF FirstUse
  <2> HIDE DEF k, n
  <2> QED
    BY <1>1, <1>3, <2>1, <2>2
<1>7. CASE Repeated
  <2>1. Slug' = Slug /\ out' = out /\ pc' = "probe" /\ seen'[Slug] = seen[Slug] + 1
    BY <1>7 DEF Repeated, SetSeen, Slug
  <2>2. NamingLeft = k * n
    BY <1>7 DEF Repeated, NamingLeft
  <2>3. NamingLeft' = (k - 1) * n + (Len(out) + 2 - (seen[Slug] + 1))
    BY <1>2, <2>1 DEF NamingLeft
  <2>4. seen[Slug] \in Nat \ {0} /\ Len(out) < n
    BY <1>1, <1>7 DEF Repeated, NamesTypeOK, Seen, InHeader
  <2> HIDE DEF k, n
  <2> QED
    BY <1>1, <1>3, <2>2, <2>3, <2>4
<1>8. CASE CandidateTaken
  <2>1. Slug' = Slug /\ out' = out /\ pc' = "probe" /\ seen'[Slug] = seen[Slug] + 1
    BY <1>8 DEF CandidateTaken, SetSeen, Slug
  <2>2. NamingLeft = (k - 1) * n + (Len(out) + 2 - seen[Slug])
    BY <1>8 DEF CandidateTaken, NamingLeft
  <2>3. NamingLeft' = (k - 1) * n + (Len(out) + 2 - (seen[Slug] + 1))
    BY <1>2, <2>1 DEF NamingLeft
  <2>4. seen[Slug] \in Nat
    BY <1>4, <1>8 DEF CandidateTaken
  <2> HIDE DEF k, n
  <2> QED
    BY <1>1, <1>3, <2>2, <2>3, <2>4
<1>9. CASE CandidateFree
  <2>1. NamingLeft = (k - 1) * n + (Len(out) + 2 - seen[Slug])
    BY <1>9 DEF CandidateFree, NamingLeft
  <2>2. NamingLeft' = (k - 1) * n
    BY <1>5, <1>9 DEF CandidateFree
  <2>3. seen[Slug] \in Nat /\ seen[Slug] <= Len(out) + 1
    BY <1>4, <1>9 DEF CandidateFree
  <2> HIDE DEF k, n
  <2> QED
    BY <1>1, <1>3, <2>1, <2>2, <2>3
<1> QED
  BY <1>6, <1>7, <1>8, <1>9 DEF NamesNext

\* The loop of normalize_column_name ends: a header of n cells is named after
\* n * n branches and turns, and no suffix is larger than the position of
\* its column.
THEOREM NamingIsBounded ==
  NamesSpec => []SuffixesRunOut /\ [][NamingLeft' < NamingLeft]_namesVars
<1>1. NamesTypeOK /\ TakenInv => SuffixesRunOut
  BY NamingCount
<1>2. NamesTypeOK /\ TakenInv /\ [NamesNext]_namesVars
        => [NamingLeft' < NamingLeft]_namesVars
  BY NamingAdvances
<1> QED
  BY <1>1, <1>2, TakenHolds, NamesTyped, PTL DEF NamesSpec

==============================================================================
