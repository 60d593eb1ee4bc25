SPECIFICATION ListingsSpec
CONSTANTS
  Vacancies = {v1}
  Txns = {t1, t2, t3}
  ModerationEnabled = FALSE
  MaxRequests = 6
  Candidates = {c1}
  Notes = {n1}
  Taps = {b1, b2}
  Null = Null
SYMMETRY Symmetry
INVARIANTS ListingsHold HistoryRecordsStatus
PROPERTIES OnlyStaleReadsEscape KeptStays
CHECK_DEADLOCK FALSE
