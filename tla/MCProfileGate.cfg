SPECIFICATION Spec
CONSTANTS
  Null = Null
  CandidateForm <- CANDIDATE_PROFILE_SCHEMA
  VacancyForm <- VACANCY_SCHEMA
  t1 = t1
  t2 = t2
  job = job
  degree = degree
  Items <- MCItems
  Bodies <- MCBodies
  Today <- MCToday
  Jobs <- MCJobs
  Degrees <- MCDegrees
  Txns <- MCTxns
  MaxRequests = 3
  Days <- MCDays
  Samples <- MCSamples
  VacancyBodies <- MCVacancyBodies
  JobFacts <- MCJobFacts
  DegreeLevel <- MCDegreeLevel
  Rivals <- MCRivals
  FilterSets <- MCFilterSets
  Cap = 2
INVARIANT SearchGateIsTrue
CHECK_DEADLOCK FALSE
