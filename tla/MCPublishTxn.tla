---------------------------- MODULE MCPublishTxn -----------------------------
(***************************************************************************)
(* Instances of PublishTxn for TLC.  Attempts on files with data rows are  *)
(* interchangeable, and so are deletions.                                  *)
(***************************************************************************)
EXTENDS PublishTxn, TLC

Symmetry == Permutations(Ingest \ HeaderOnly) \cup Permutations(Destroy)

==============================================================================
