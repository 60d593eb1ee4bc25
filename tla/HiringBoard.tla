------------------------------ MODULE HiringBoard -------------------------------
(***************************************************************************)
(* What the hiring tables promise their readers: vacancies, applications,  *)
(* their histories and the hire counter change only by whole operations,   *)
(* one at a time.  There are no requests, statements or locks here;        *)
(* Applications is shown to implement this specification.                  *)
(***************************************************************************)
EXTENDS ApplicationStatus

CONSTANTS Candidates, Vacancies, Apps, Null

VARIABLES vacancyStatus, hiredCount, application, stageHistory, interviews

board == <<vacancyStatus, hiredCount, application, stageHistory, interviews>>

Init ==
  /\ vacancyStatus = [v \in Vacancies |-> "active"]
  /\ hiredCount    = [v \in Vacancies |-> 0]
  /\ application   = [a \in Apps |-> [status |-> NoStatus, vacancy |-> Null,
                                      candidate |-> Null]]
  /\ stageHistory  = [a \in Apps |-> <<>>]
  /\ interviews    = [a \in Apps |-> 0]

Occupied(v, c) ==
  \E a \in Apps : /\ application[a].vacancy = v
                  /\ application[a].candidate = c
                  /\ application[a].status # NoStatus
                  /\ OccupiesActiveSlot(application[a].status)

Record(a, from, to, role) ==
  stageHistory' = [stageHistory EXCEPT ![a] =
                     Append(@, [from |-> from, to |-> to, role |-> role])]

\* A candidate applies: the vacancy is active and the pair's slot is free.
Apply(a, v, c) ==
  /\ application[a].status = NoStatus
  /\ vacancyStatus[v] = "active"
  /\ ~Occupied(v, c)
  /\ application' = [application EXCEPT ![a] =
       [status |-> "submitted", vacancy |-> v, candidate |-> c]]
  /\ Record(a, NoStatus, "submitted", "candidate")
  /\ UNCHANGED <<vacancyStatus, hiredCount, interviews>>

\* The party the stage belongs to moves the application; a hire is counted and
\* an interview may be written in the same step.
Move(a, to) ==
  /\ application[a].status # NoStatus
  /\ CanTransition(application[a].status, to)
  /\ application' = [application EXCEPT ![a].status = to]
  /\ Record(a, application[a].status, to, ActorFor(to))
  /\ hiredCount' = IF to = "hired"
                     THEN [hiredCount EXCEPT ![application[a].vacancy] = @ + 1]
                     ELSE hiredCount
  /\ \/ UNCHANGED interviews
     \/ to = "interview" /\ interviews' = [interviews EXCEPT ![a] = @ + 1]
  /\ UNCHANGED vacancyStatus

\* A further interview, the stage left alone.
AddInterview(a) ==
  /\ application[a].status # NoStatus
  /\ interviews' = [interviews EXCEPT ![a] = @ + 1]
  /\ UNCHANGED <<vacancyStatus, hiredCount, application, stageHistory>>

SetVacancyStatus(v, to) ==
  /\ vacancyStatus' = [vacancyStatus EXCEPT ![v] = to]
  /\ UNCHANGED <<hiredCount, application, stageHistory, interviews>>

Next ==
  \/ \E a \in Apps, v \in Vacancies, c \in Candidates : Apply(a, v, c)
  \/ \E a \in Apps, to \in ApplicationStatuses : Move(a, to)
  \/ \E a \in Apps : AddInterview(a)
  \/ \E v \in Vacancies, to \in {"active", "paused", "closed"} :
       SetVacancyStatus(v, to)

Spec == Init /\ [][Next]_board

================================================================================
