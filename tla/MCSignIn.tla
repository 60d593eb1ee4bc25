-------------------------------- MODULE MCSignIn --------------------------------
(* SignIn for TLC: the rules of a route, the limits and the symmetry.       *)
EXTENDS SignIn, TLC

CONSTANTS phone, address

MCLimit == (phone :> 1) @@ (address :> 2)

MCRoutes == {<<phone, address>>}

Symmetry ==
  Permutations(Codes) \cup Permutations(Secrets) \cup Permutations(Users)
    \cup Permutations(Telegrams) \cup Permutations(Txns)

================================================================================
