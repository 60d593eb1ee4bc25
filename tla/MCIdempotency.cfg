SPECIFICATION RunSpec
CONSTANTS
  Keys = {k1, k2}
  Bodies = {b1, b2}
  Resources = {x1, x2, x3}
  Requests = {r1, r2, r3}
  MaxAttempts = 4
  Unset = Unset
SYMMETRY Symmetry
INVARIANTS AtMostOncePerKey RunInv
CHECK_DEADLOCK FALSE
