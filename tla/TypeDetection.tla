---------------------------- MODULE TypeDetection ----------------------------
(***************************************************************************)
(* services/type_detection.py.  A value is a pair of what it looks like,   *)
(* once stripped, and of what tells it from others that look the same.     *)
(***************************************************************************)
EXTENDS Naturals, Sequences, FiniteSets

\* _TYPE_CHECKS, in the order they are tried.  No value passes two of them.
TypeChecks == <<"email", "boolean", "number", "date">>

Looks == {TypeChecks[i] : i \in DOMAIN TypeChecks} \cup {"text", "blank"}

Look(v) == v[1]

NonEmpty(values) == {i \in DOMAIN values : Look(values[i]) # "blank"}

Matching(values, type) == {i \in NonEmpty(values) : Look(values[i]) = type}

\* Mutant: a lower threshold than what README.md says.
TwoThirds(values, type) ==
  3 * Cardinality(Matching(values, type)) >= 2 * Cardinality(NonEmpty(values))

\* match_ratio >= _MAJORITY_THRESHOLD.  A quotient of floats rounds to 0.9 only
\* when the exact one is: no other comes as close.
Majority(values, type) ==
  10 * Cardinality(Matching(values, type)) >= 9 * Cardinality(NonEmpty(values))

\* detect_column_type(): the first check that most values pass.
Detect(values) ==
  IF NonEmpty(values) = {} THEN "unknown"
  ELSE IF \A i \in DOMAIN TypeChecks : ~Majority(values, TypeChecks[i])
    THEN "string"
    ELSE TypeChecks[CHOOSE i \in DOMAIN TypeChecks :
                      /\ Majority(values, TypeChecks[i])
                      /\ \A k \in 1..(i - 1) : ~Majority(values, TypeChecks[k])]

\* is_valid_for_type(): strings and unknown columns have no format.
IsValid(v, type) ==
  (\E i \in DOMAIN TypeChecks : TypeChecks[i] = type) => Look(v) = type

==============================================================================
