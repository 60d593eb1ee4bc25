SPECIFICATION Spec
CONSTANTS
  Candidates = {c1, c2}
  Vacancies = {v1}
  Apps = {a1, a2}
  Txns = {t1, t2, t3}
  Targets = {"interview", "hired", "rejected"}
  MaxRequests = 5
  Null = Null
SYMMETRY Symmetry
INVARIANTS OneActivePerPair TablesAgree IInv
PROPERTIES ApplyOnlyToOpen ImplementsHiringBoard
CHECK_DEADLOCK FALSE
