--------------------------- MODULE MCIngestionAtomic --------------------------
EXTENDS IngestionAtomic, TLC

Symmetry ==
  Permutations(Dataset) \cup Permutations(Task) \cup Permutations(Request)

==============================================================================
