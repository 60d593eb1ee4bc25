SPECIFICATION FairSpec
CONSTANTS
  Candidates = {c1}
  Vacancies = {v1}
  Apps = {a1, a2}
  Txns = {t1, t2, t3}
  Targets = {"interview", "hired"}
  MaxRequests = 3
  Null = Null
PROPERTIES RequestsEnd
CHECK_DEADLOCK FALSE
