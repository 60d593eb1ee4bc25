SPECIFICATION SessionsSpec
CONSTANTS
  Owners = {u1}
  Sessions = {s1, s2, s3, s4}
  Calls = {t1, t2, t3}
  MaxCalls = 5
  Unset = Unset
SYMMETRY Symmetry
INVARIANTS SessionsInv
PROPERTIES RevokedForEver SweepRevokesWhatItSaw
CHECK_DEADLOCK FALSE
