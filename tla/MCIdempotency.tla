----------------------------- MODULE MCIdempotency ------------------------------
(* Idempotency for TLC: the symmetry of its sets of model values.           *)
EXTENDS Idempotency, TLC

Symmetry == Permutations(Keys) \cup Permutations(Bodies) \cup Permutations(Resources)
              \cup Permutations(Requests)

================================================================================
