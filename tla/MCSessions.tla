------------------------------- MODULE MCSessions -------------------------------
(* Sessions for TLC: the symmetry of its sets of model values.              *)
EXTENDS Sessions, TLC

Symmetry == Permutations(Sessions) \cup Permutations(Calls) \cup Permutations(Owners)

================================================================================
