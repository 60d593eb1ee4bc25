SPECIFICATION Spec
CONSTANTS
  Answers <- MCAnswers
  Evidence <- MCEvidence
  Submissions = {s1, s2}
  Ids = {f1, f2}
  Messages = {m1, m2}
  Purposes <- MCPurposes
  Slots = {"cv"}
  MaxCount <- MCMaxCount
  Txns = {t1, t2}
  MaxRequests = 4
  Null = Null
SYMMETRY Symmetry
INVARIANTS EmployerHolds VerifiedHasEvidence HistoryNamesStatus FilesHold
CHECK_DEADLOCK FALSE
