SPECIFICATION Spec
CONSTANTS
  Employer = e1
  Candidates = {c1}
  Vacancies = {v1}
  Apps = {a1}
  Invites = {i1, i2}
  Threads = {h1, h2}
  Txns = {t1, t2}
  Moves = {"rejected", "withdrawn"}
  MaxRequests = 6
  Null = Null
SYMMETRY Symmetry
INVARIANTS RowsHold MessagesNeedConsent
PROPERTIES BlockStopsSends MarkCoversSeen
CHECK_DEADLOCK FALSE
