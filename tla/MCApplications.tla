----------------------------- MODULE MCApplications -----------------------------
(* Applications for TLC: the symmetry of its sets of model values.          *)
EXTENDS Applications, TLC

Symmetry == Permutations(Apps) \cup Permutations(Txns) \cup Permutations(Candidates)

================================================================================
