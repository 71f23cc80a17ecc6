------------------------------ MODULE MCAccess -------------------------------
(***************************************************************************)
(* Instances of Access for TLC.                                            *)
(***************************************************************************)
EXTENDS Access, TLC

CONSTANTS d1, d2, u1, u2, k1, k2

Owners == d1 :> u1 @@ d2 :> u2

KeyDatasets == k1 :> d1 @@ k2 :> d2

Rates == [s \in Scope |-> 1]

Symmetry == Permutations(Request)

==============================================================================
