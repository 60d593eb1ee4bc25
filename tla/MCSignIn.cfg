SPECIFICATION Spec
CONSTANTS
  Phones = {p1, p2}
  Dialled = {p1}
  Codes = {k1, k2}
  Secrets = {s1, s2}
  MaxAttempts = 1
  ResendDelay = 1
  Ttl = 1
  Users = {u1, u2}
  Telegrams = {g1, g2}
  Roles = {candidate}
  phone = phone
  address = address
  Subjects = {phone, address}
  Limit <- MCLimit
  Routes <- MCRoutes
  Window = 2
  Txns = {t1, t2}
  MaxClock = 2
  MaxRequests = 3
  Null = Null
SYMMETRY Symmetry
INVARIANTS CodesHold AccountsHold StatusOnRecord LimitHolds
PROPERTIES OnlyLiveCodesOpen BlockStopsNewRequests
CHECK_DEADLOCK FALSE
