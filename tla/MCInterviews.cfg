SPECIFICATION Spec
CONSTANTS
  Interviews = {i1}
  Times = {d1, d2}
  Offers <- MCOffers
  Txns = {t1, t2, t3}
  MaxRequests = 5
  Null = Null
SYMMETRY Symmetry
INVARIANTS ChecksHold HistoryRecordsStatus
CHECK_DEADLOCK FALSE
