------------------------------- MODULE MCListings -------------------------------
(* Listings for TLC: the symmetry of its sets of model values.              *)
EXTENDS Listings, TLC

Symmetry == Permutations(Txns) \cup Permutations(Vacancies) \cup Permutations(Taps)

================================================================================
