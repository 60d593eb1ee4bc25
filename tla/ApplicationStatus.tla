--------------------------- MODULE ApplicationStatus ---------------------------
(***************************************************************************)
(* The application stage machine: modules/applications/application-status. *)
(* Pure tables and predicates, shared by every module that moves an        *)
(* application.  Enum `application_status` of the schema is                *)
(* ApplicationStatuses; NoStatus stands for the NULL of `from_status`.     *)
(***************************************************************************)
EXTENDS Naturals, Sequences

NoStatus == "none"

\* PROGRESSION: the order in which a stage may be reached.
Progression ==
  <<"submitted", "viewed", "shortlisted", "interview", "offer", "hired">>

\* TERMINAL: the stages in which the interaction is over.
Terminal == {"hired", "rejected", "withdrawn"}

ApplicationStatuses ==
  {"submitted", "viewed", "shortlisted", "interview", "offer", "hired",
   "rejected", "withdrawn"}

IsTerminal(status) == status \in Terminal

\* Forward moves may skip stages, backward moves do not exist.
Precedes(from, to) ==
  \E i, j \in 1..Len(Progression) :
    i < j /\ Progression[i] = from /\ Progression[j] = to

CanTransition(from, to) ==
  /\ ~IsTerminal(from)
  /\ from # to
  /\ to \in {"rejected", "withdrawn"} \/ Precedes(from, to)

\* Who may set a stage; `submitted` is nobody's transition.
ActorFor(to) ==
  CASE to = "withdrawn" -> "candidate"
    [] to = "submitted" -> "nobody"
    [] OTHER            -> "employer"

\* The stages the employer's route accepts.
EmployerStages ==
  {"viewed", "shortlisted", "interview", "offer", "hired", "rejected"}

\* Does this status keep the one-active-application slot occupied?
OccupiesActiveSlot(status) == status \notin {"withdrawn", "rejected"}

================================================================================
