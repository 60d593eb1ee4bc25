------------------------------ MODULE MCEngagement ------------------------------
(* Engagement for TLC: the symmetry of its sets of model values.            *)
EXTENDS Engagement, TLC

Symmetry == Permutations(Invites) \cup Permutations(Threads) \cup Permutations(Txns)

================================================================================
