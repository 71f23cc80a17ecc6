----------------------------- MODULE MCIngestion -----------------------------
(***************************************************************************)
(* Instances of Ingestion for TLC.  Tasks, requests and datasets are       *)
(* interchangeable model values.                                           *)
(***************************************************************************)
EXTENDS Ingestion, TLC

Symmetry ==
  Permutations(Dataset) \cup Permutations(Task) \cup Permutations(Request)

==============================================================================
