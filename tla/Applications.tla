------------------------------ MODULE Applications ------------------------------
(***************************************************************************)
(* ApplicationsService, with the two writers it shares rows with:          *)
(* VacanciesService.changeStatus (the vacancy row) and                     *)
(* InterviewsService.schedule (the application row).                       *)
(*                                                                         *)
(* Every HTTP request is one transaction slot of Txns.  PostgreSQL runs at *)
(* READ COMMITTED: a statement sees what is committed when it starts, a    *)
(* write is published by the commit, and a row lock is held from the       *)
(* statement that takes it to the end of the transaction.  So the holders  *)
(* of a lock are read off the program counters, and a write waits in `req` *)
(* until its Commit action.                                                *)
(***************************************************************************)
EXTENDS ApplicationStatus, VacancyStatus, FiniteSets

CONSTANTS
  Candidates,   \* users with a candidate profile
  Vacancies,    \* published vacancies
  Apps,         \* ids the applications table may hand out
  Txns,         \* requests that can be in flight at once
  Targets,      \* stages the employers ask for
  MaxRequests,  \* bound: requests that arrive in one behaviour
  Null          \* a column or a field that is not set

ASSUME NullAssumption ==
  Null \notin Candidates \cup Vacancies \cup Apps

ASSUME TargetsAssumption == Targets \subseteq EmployerStages

ASSUME BoundAssumption == MaxRequests \in Nat

VARIABLES
  vacancyStatus,   \* vacancies.status
  hiredCount,      \* vacancies.hired_count
  deadlinePassed,  \* is vacancies.deadline_on before today?
  application,     \* the applications table: id -> row
  stageHistory,    \* application_stage_history, per application, in order
  interviews,      \* how many interviews rows hang off the application
  pc,              \* the statement a request is about to run
  req,             \* what a request carries and has read or written so far
  arrived          \* requests that have arrived

vars == <<vacancyStatus, hiredCount, deadlinePassed, application, stageHistory,
          interviews, pc, req, arrived>>

tables == <<vacancyStatus, hiredCount, application, stageHistory, interviews>>

--------------------------------------------------------------------------------
(* Rows and requests *)

Row == [status    : ApplicationStatuses \cup {NoStatus},
        vacancy   : Vacancies \cup {Null},
        candidate : Candidates \cup {Null}]

NoRow == [status |-> NoStatus, vacancy |-> Null, candidate |-> Null]

HistoryRow == [from : ApplicationStatuses \cup {NoStatus},
               to   : ApplicationStatuses,
               role : {"candidate", "employer"}]

Request == [vacancy   : Vacancies \cup {Null},
            candidate : Candidates \cup {Null},
            app       : Apps \cup {Null},
            to        : ApplicationStatuses \cup VacancyStatuses \cup {NoStatus},
            role      : {"candidate", "employer"},
            late      : BOOLEAN,  \* had the deadline passed when it arrived?
            from      : ApplicationStatuses \cup {NoStatus},
            count     : Nat]      \* the hired_count it is about to publish

NoRequest == [vacancy |-> Null, candidate |-> Null, app |-> Null,
              to |-> NoStatus, role |-> "employer", late |-> FALSE,
              from |-> NoStatus, count |-> 0]

ApplyPcs     == {"lockVacancy", "checkActive", "insert", "commitApply"}
MovePcs      == {"lockApp", "countHire", "commitMove", "commitHire"}
InterviewPcs == {"peekStage", "lockForInterview", "insertInterview",
                 "commitInterview", "commitInterviewMove"}
VacancyPcs   == {"writeVacancy", "commitVacancy"}
Pcs == {"idle"} \cup ApplyPcs \cup MovePcs \cup InterviewPcs \cup VacancyPcs

Exists(a) == application[a].status # NoStatus

\* The rows the partial unique index applications_one_active_idx covers.
ActiveRows(v, c) ==
  {a \in Apps : /\ application[a].vacancy = v
                /\ application[a].candidate = c
                /\ Exists(a)
                /\ OccupiesActiveSlot(application[a].status)}

--------------------------------------------------------------------------------
(* Locks *)

\* Mutant: apply reads the vacancy without FOR SHARE.
ShareHoldersNone(v) == {}

\* SELECT ... FOR SHARE on the vacancy, held to the end of an apply.
ShareHolders(v) ==
  {t \in Txns : /\ pc[t] \in {"checkActive", "insert", "commitApply"}
                /\ req[t].vacancy = v}

\* Mutant: hired_count is read, then written, with no lock on the row between.
VacancyWritersNone(v) == {}

\* An UPDATE of the vacancy row not yet committed.
VacancyWriters(v) ==
  {t \in Txns : /\ pc[t] \in {"commitHire", "commitVacancy"}
                /\ req[t].vacancy = v}

\* Mutant: moveWithin reads the application without FOR UPDATE.
UpdateHoldersNone(a) == {}

\* SELECT ... FOR UPDATE on the application, then its UPDATE.
UpdateHolders(a) ==
  {t \in Txns : /\ pc[t] \in {"countHire", "commitMove", "commitHire",
                              "commitInterviewMove"}
                /\ req[t].app = a}

\* The key-share lock the interviews foreign key takes on its application.
KeyShareHolders(a) ==
  {t \in Txns : pc[t] = "commitInterview" /\ req[t].app = a}

\* Mutant: no unique index, only the friendly check.
PendingInsertsNone(v, c) == {}

\* Uncommitted entries in the unique index for one (vacancy, candidate) pair.
PendingInserts(v, c) ==
  {t \in Txns : /\ pc[t] = "commitApply"
                /\ req[t].vacancy = v
                /\ req[t].candidate = c}

\* Whom the next statement of a request has to wait for.
WaitsFor(t) ==
  CASE pc[t] = "lockVacancy"  -> VacancyWriters(req[t].vacancy)
    [] pc[t] = "insert"       ->
         PendingInserts(req[t].vacancy, req[t].candidate)
           \cup UNION {UpdateHolders(a) :
                         a \in ActiveRows(req[t].vacancy, req[t].candidate)}
    [] pc[t] \in {"lockApp", "lockForInterview"} ->
         UpdateHolders(req[t].app) \cup KeyShareHolders(req[t].app)
    [] pc[t] = "insertInterview" -> UpdateHolders(req[t].app)
    [] pc[t] \in {"countHire", "writeVacancy"} ->
         ShareHolders(req[t].vacancy) \cup VacancyWriters(req[t].vacancy)
    [] OTHER -> {}

Granted(t) == WaitsFor(t) = {}

\* Mutant: a database that never breaks a deadlock.
DeadlockedNever(t) == FALSE

\* t is on a cycle of waits: the deadlock detector may choose it.
Deadlocked(t) ==
  \E S \in SUBSET Txns :
    /\ t \in S
    /\ \A u \in S : /\ \E w \in S : w \in WaitsFor(u)
                    /\ \E w \in S : u \in WaitsFor(w)

--------------------------------------------------------------------------------
(* Control *)

Arrive(t, first, request) ==
  /\ pc[t] = "idle"
  /\ arrived < MaxRequests
  /\ pc' = [pc EXCEPT ![t] = first]
  /\ req' = [req EXCEPT ![t] = request]
  /\ arrived' = arrived + 1
  /\ UNCHANGED <<tables, deadlinePassed>>

Goto(t, next) == pc' = [pc EXCEPT ![t] = next]

\* The transaction ends; its locks go with it.
Finish(t) ==
  /\ Goto(t, "idle")
  /\ req' = [req EXCEPT ![t] = NoRequest]

\* It ends without having written: a refusal, or an error that rolls it back.
Refuse(t) == Finish(t) /\ UNCHANGED tables

--------------------------------------------------------------------------------
(* apply *)

\* `today` is read before the transaction opens.
BeginApply(t, v, c) ==
  Arrive(t, "lockVacancy",
         [NoRequest EXCEPT !.vacancy = v, !.candidate = c,
                           !.role = "candidate", !.late = deadlinePassed[v]])

LockVacancy(t) ==
  /\ pc[t] = "lockVacancy"
  /\ Granted(t)
  /\ \/ /\ IsOpenForApplications(vacancyStatus[req[t].vacancy], req[t].late)
        /\ Goto(t, "checkActive")
        /\ UNCHANGED <<tables, req>>
     \/ /\ ~IsOpenForApplications(vacancyStatus[req[t].vacancy], req[t].late)
        /\ Refuse(t)
  /\ UNCHANGED <<deadlinePassed, arrived>>

\* The friendly check, on what is committed now.
CheckActive(t) ==
  /\ pc[t] = "checkActive"
  /\ \/ /\ ActiveRows(req[t].vacancy, req[t].candidate) = {}
        /\ Goto(t, "insert")
        /\ UNCHANGED <<tables, req>>
     \/ /\ ActiveRows(req[t].vacancy, req[t].candidate) # {}
        /\ Refuse(t)
  /\ UNCHANGED <<deadlinePassed, arrived>>

\* The unique index decides: it waits for a pending entry of the same pair, and
\* fails the statement if an active row is committed.
Insert(t) ==
  /\ pc[t] = "insert"
  /\ Granted(t)
  /\ \/ /\ ActiveRows(req[t].vacancy, req[t].candidate) = {}
        /\ \E a \in Apps :
             /\ ~Exists(a)
             /\ \A u \in Txns : ~(pc[u] = "commitApply" /\ req[u].app = a)
             /\ req' = [req EXCEPT ![t].app = a, ![t].to = "submitted"]
        /\ Goto(t, "commitApply")
        /\ UNCHANGED tables
     \/ /\ ActiveRows(req[t].vacancy, req[t].candidate) # {}
        /\ Refuse(t)
  /\ UNCHANGED <<deadlinePassed, arrived>>

CommitApply(t) ==
  /\ pc[t] = "commitApply"
  /\ application' = [application EXCEPT ![req[t].app] =
                       [status |-> "submitted", vacancy |-> req[t].vacancy,
                        candidate |-> req[t].candidate]]
  /\ stageHistory' = [stageHistory EXCEPT ![req[t].app] =
                        Append(@, [from |-> NoStatus, to |-> "submitted",
                                   role |-> "candidate"])]
  /\ Finish(t)
  /\ UNCHANGED <<vacancyStatus, hiredCount, interviews, deadlinePassed, arrived>>

--------------------------------------------------------------------------------
(* move: withdraw and moveStage *)

BeginWithdraw(t, a) ==
  /\ Exists(a)
  /\ Arrive(t, "lockApp",
            [NoRequest EXCEPT !.app = a, !.vacancy = application[a].vacancy,
                              !.to = "withdrawn", !.role = "candidate"])

BeginMoveStage(t, a, to) ==
  /\ Exists(a)
  /\ Arrive(t, "lockApp",
            [NoRequest EXCEPT !.app = a, !.vacancy = application[a].vacancy,
                              !.to = to, !.role = "employer"])

\* moveWithin's checks, on the row as the lock returns it.
MayMove(t) ==
  /\ CanTransition(application[req[t].app].status, req[t].to)
  /\ ActorFor(req[t].to) = req[t].role

\* moveWithin: FOR UPDATE, the checks, the UPDATE and its history row.
LockAppTo(t, from, next) ==
  /\ pc[t] = from
  /\ Granted(t)
  /\ \/ /\ MayMove(t)
        /\ Goto(t, next)
        /\ req' = [req EXCEPT ![t].from = application[req[t].app].status]
        /\ UNCHANGED tables
     \/ ~MayMove(t) /\ Refuse(t)
  /\ UNCHANGED <<deadlinePassed, arrived>>

LockApp(t) ==
  LockAppTo(t, "lockApp",
            IF req[t].to = "hired" THEN "countHire" ELSE "commitMove")

\* UPDATE vacancies SET hired_count = hired_count + 1.
CountHire(t) ==
  /\ pc[t] = "countHire"
  /\ Granted(t)
  /\ req' = [req EXCEPT ![t].count = hiredCount[req[t].vacancy] + 1]
  /\ Goto(t, "commitHire")
  /\ UNCHANGED <<tables, deadlinePassed, arrived>>

PublishMove(t) ==
  /\ application' = [application EXCEPT ![req[t].app].status = req[t].to]
  /\ stageHistory' = [stageHistory EXCEPT ![req[t].app] =
                        Append(@, [from |-> req[t].from, to |-> req[t].to,
                                   role |-> req[t].role])]

CommitMove(t) ==
  /\ pc[t] \in {"commitMove", "commitHire", "commitInterviewMove"}
  /\ PublishMove(t)
  /\ hiredCount' = IF pc[t] = "commitHire"
                     THEN [hiredCount EXCEPT ![req[t].vacancy] = req[t].count]
                     ELSE hiredCount
  /\ interviews' = IF pc[t] = "commitInterviewMove"
                     THEN [interviews EXCEPT ![req[t].app] = @ + 1]
                     ELSE interviews
  /\ Finish(t)
  /\ UNCHANGED <<vacancyStatus, deadlinePassed, arrived>>

--------------------------------------------------------------------------------
(* InterviewsService.schedule, through ensureInterviewStage *)

BeginSchedule(t, a) ==
  /\ Exists(a)
  /\ Arrive(t, "peekStage",
            [NoRequest EXCEPT !.app = a, !.vacancy = application[a].vacancy,
                              !.to = "interview", !.role = "employer"])

\* The unlocked read: a terminal application throws, a stage at or past
\* `interview` is left alone, anything else goes through moveWithin.
PeekStage(t) ==
  LET status == application[req[t].app].status IN
  /\ pc[t] = "peekStage"
  /\ \/ IsTerminal(status) /\ Refuse(t)
     \/ /\ ~IsTerminal(status)
        /\ Goto(t, IF CanTransition(status, "interview")
                     THEN "lockForInterview" ELSE "insertInterview")
        /\ UNCHANGED <<tables, req>>
  /\ UNCHANGED <<deadlinePassed, arrived>>

LockForInterview(t) ==
  LockAppTo(t, "lockForInterview", "commitInterviewMove")

\* The interviews row's foreign key shares the application row first.
InsertInterview(t) ==
  /\ pc[t] = "insertInterview"
  /\ Granted(t)
  /\ Goto(t, "commitInterview")
  /\ UNCHANGED <<tables, req, deadlinePassed, arrived>>

CommitInterview(t) ==
  /\ pc[t] = "commitInterview"
  /\ interviews' = [interviews EXCEPT ![req[t].app] = @ + 1]
  /\ Finish(t)
  /\ UNCHANGED <<vacancyStatus, hiredCount, application, stageHistory,
                 deadlinePassed, arrived>>

--------------------------------------------------------------------------------
(* VacanciesService.changeStatus *)

\* The status is read and checked outside the transaction.
BeginChangeStatus(t, v, to) ==
  /\ VacancyCanTransition(vacancyStatus[v], to)
  /\ Arrive(t, "writeVacancy", [NoRequest EXCEPT !.vacancy = v, !.to = to])

\* applyStatus: an UPDATE by id, whatever the status is by now.
WriteVacancy(t) ==
  /\ pc[t] = "writeVacancy"
  /\ Granted(t)
  /\ Goto(t, "commitVacancy")
  /\ UNCHANGED <<tables, req, deadlinePassed, arrived>>

CommitVacancy(t) ==
  /\ pc[t] = "commitVacancy"
  /\ vacancyStatus' = [vacancyStatus EXCEPT ![req[t].vacancy] = req[t].to]
  /\ Finish(t)
  /\ UNCHANGED <<hiredCount, application, stageHistory, interviews,
                 deadlinePassed, arrived>>

--------------------------------------------------------------------------------
(* Time and failure *)

\* Midnight in the platform zone takes the calendar past the deadline.
DeadlinePasses(v) ==
  /\ ~deadlinePassed[v]
  /\ deadlinePassed' = [deadlinePassed EXCEPT ![v] = TRUE]
  /\ UNCHANGED <<tables, pc, req, arrived>>

\* The process dies, the connection drops, or the database picks the request as
\* a deadlock's victim: the open transaction rolls back.
Rollback(t) ==
  /\ pc[t] # "idle"
  /\ Refuse(t)
  /\ UNCHANGED <<deadlinePassed, arrived>>

--------------------------------------------------------------------------------

Init ==
  /\ vacancyStatus  = [v \in Vacancies |-> "active"]
  /\ hiredCount     = [v \in Vacancies |-> 0]
  /\ deadlinePassed = [v \in Vacancies |-> FALSE]
  /\ application    = [a \in Apps |-> NoRow]
  /\ stageHistory   = [a \in Apps |-> <<>>]
  /\ interviews     = [a \in Apps |-> 0]
  /\ pc             = [t \in Txns |-> "idle"]
  /\ req            = [t \in Txns |-> NoRequest]
  /\ arrived        = 0

Begin(t) ==
  \/ \E v \in Vacancies, c \in Candidates : BeginApply(t, v, c)
  \/ \E a \in Apps : BeginWithdraw(t, a)
  \/ \E a \in Apps, to \in Targets : BeginMoveStage(t, a, to)
  \/ \E a \in Apps : BeginSchedule(t, a)
  \/ \E v \in Vacancies, to \in {"active", "paused", "closed"} :
       BeginChangeStatus(t, v, to)

\* A statement or the commit of a request already under way.
Step(t) ==
  \/ LockVacancy(t)  \/ CheckActive(t)      \/ Insert(t) \/ CommitApply(t)
  \/ LockApp(t)      \/ CountHire(t)        \/ CommitMove(t)
  \/ PeekStage(t)    \/ LockForInterview(t)
  \/ InsertInterview(t) \/ CommitInterview(t)
  \/ WriteVacancy(t) \/ CommitVacancy(t)

Next ==
  \/ \E t \in Txns : Begin(t) \/ Step(t) \/ Rollback(t)
  \/ \E v \in Vacancies : DeadlinePasses(v)

Spec == Init /\ [][Next]_vars

\* A granted statement runs, and the detector breaks every deadlock.
Fairness ==
  \A t \in Txns : /\ WF_vars(Step(t))
                  /\ WF_vars(Deadlocked(t) /\ Rollback(t))

FairSpec == Spec /\ Fairness

--------------------------------------------------------------------------------
(* Properties *)

TablesOK ==
  /\ vacancyStatus  \in [Vacancies -> VacancyStatuses]
  /\ hiredCount     \in [Vacancies -> Nat]
  /\ application    \in [Apps -> Row]
  /\ stageHistory   \in [Apps -> Seq(HistoryRow)]
  /\ interviews     \in [Apps -> Nat]

ControlOK ==
  /\ deadlinePassed \in [Vacancies -> BOOLEAN]
  /\ pc             \in [Txns -> Pcs]
  /\ req            \in [Txns -> Request]
  /\ arrived        \in Nat

\* Every table column and every request field stays within its enum or range.
TypeOK == TablesOK /\ ControlOK

\* BR-07: a candidate never has two active applications to one vacancy, however
\* many taps of Apply race each other and the employer's moves.
OneActivePerPair ==
  \A a, b \in Apps :
    (/\ Exists(a) /\ Exists(b)
     /\ application[a].vacancy = application[b].vacancy
     /\ application[a].candidate = application[b].candidate
     /\ OccupiesActiveSlot(application[a].status)
     /\ OccupiesActiveSlot(application[b].status)) => a = b

Hires(v) == {a \in Apps : /\ application[a].vacancy = v
                          /\ application[a].status = "hired"}

\* The vacancy's hire counter cannot disagree with the applications it counts,
\* although it is a separate column that concurrent hires increment.
HiredCountAgrees ==
  \A v \in Vacancies : hiredCount[v] = Cardinality(Hires(v))

\* BR-08: the history of an application is the unbroken chain of the stages it
\* went through, from its creation to the status it has now.
HistoryIsChain ==
  \A a \in Apps :
    LET h == stageHistory[a] IN
    /\ Exists(a) <=> h # <<>>
    /\ h # <<>> => /\ h[1].from = NoStatus /\ h[1].to = "submitted"
                   /\ h[Len(h)].to = application[a].status
    /\ \A i \in 2..Len(h) : /\ h[i].from = h[i-1].to
                            /\ CanTransition(h[i].from, h[i].to)

\* What the tables say of one application agrees: its status with its history, and
\* the vacancy's counter with the hires among them.
TablesAgree == HiredCountAgrees /\ HistoryIsChain

\* BR-06: an application appears only on a vacancy that is active at that very
\* moment, for a request that arrived before the deadline passed.
ApplyOnlyToOpen ==
  [][\A a \in Apps :
       (~Exists(a) /\ application'[a].status # NoStatus) =>
         /\ vacancyStatus[application'[a].vacancy] = "active"
         /\ \E t \in Txns : pc[t] = "commitApply" /\ req[t].app = a /\ ~req[t].late]_vars

\* The stage machine holds for what is committed: no interleaving moves an
\* application backwards, out of a terminal stage, or to another owner.
StagesFollowMachine ==
  [][\A a \in Apps :
       Exists(a) =>
         /\ application'[a].vacancy = application[a].vacancy
         /\ application'[a].candidate = application[a].candidate
         /\ application'[a].status # application[a].status
              => CanTransition(application[a].status, application'[a].status)]_vars

(* The inductive invariant: what the locks a request holds let it rely on *)

UpdatePcs == {"countHire", "commitMove", "commitHire", "commitInterviewMove"}
SharePcs  == {"checkActive", "insert", "commitApply"}
WriterPcs == {"commitHire", "commitVacancy"}

\* A row names its vacancy and candidate, an unused id names neither.
RowsOK ==
  \A a \in Apps :
    IF Exists(a) THEN /\ application[a].vacancy \in Vacancies
                      /\ application[a].candidate \in Candidates
                 ELSE application[a] = NoRow

\* A request carries what its statements need.
RequestOK(t) ==
  /\ pc[t] \in ApplyPcs =>
       /\ req[t].vacancy \in Vacancies
       /\ req[t].candidate \in Candidates
  /\ pc[t] \in MovePcs \cup InterviewPcs =>
       /\ req[t].app \in Apps
       /\ Exists(req[t].app)
       /\ req[t].vacancy = application[req[t].app].vacancy
       /\ req[t].to \in ApplicationStatuses
  /\ pc[t] \in {"countHire", "commitHire"} => req[t].to = "hired"
  /\ pc[t] = "commitMove" => req[t].to # "hired"
  /\ pc[t] \in InterviewPcs => req[t].to = "interview"
  /\ pc[t] \in VacancyPcs =>
       /\ req[t].vacancy \in Vacancies
       /\ req[t].to \in {"active", "paused", "closed"}

RequestsOK == \A t \in Txns : RequestOK(t)

\* FOR UPDATE: one holder per application, whose view of the stage is current.
UpdateLocksOK ==
  \A t \in Txns : pc[t] \in UpdatePcs =>
    /\ req[t].from = application[req[t].app].status
    /\ CanTransition(req[t].from, req[t].to)
    /\ ActorFor(req[t].to) = req[t].role
    /\ \A u \in Txns : (pc[u] \in UpdatePcs /\ req[u].app = req[t].app) => u = t

\* FOR SHARE: the vacancy stays open under a request that found it open.
ShareLocksOK ==
  \A t \in Txns : pc[t] \in SharePcs =>
    /\ vacancyStatus[req[t].vacancy] = "active"
    /\ ~req[t].late
    /\ \A u \in Txns : pc[u] \in WriterPcs => req[u].vacancy # req[t].vacancy

\* An uncommitted hire is the only writer of its vacancy, so its count is current.
WritersOK ==
  \A t \in Txns : pc[t] \in WriterPcs =>
    /\ pc[t] = "commitHire" => req[t].count = hiredCount[req[t].vacancy] + 1
    /\ \A u \in Txns :
         (pc[u] \in WriterPcs /\ req[u].vacancy = req[t].vacancy) => u = t

\* The unique index: an uncommitted row is the only claim on its id and its pair.
InsertsOK ==
  \A t \in Txns : pc[t] = "commitApply" =>
    /\ req[t].app \in Apps
    /\ ~Exists(req[t].app)
    /\ ActiveRows(req[t].vacancy, req[t].candidate) = {}
    /\ \A u \in Txns : pc[u] = "commitApply" =>
         \/ u = t
         \/ /\ req[u].app # req[t].app
            /\ \/ req[u].vacancy # req[t].vacancy
               \/ req[u].candidate # req[t].candidate

LocksOK == UpdateLocksOK /\ ShareLocksOK /\ WritersOK /\ InsertsOK

IInv == TypeOK /\ RowsOK /\ RequestsOK /\ LocksOK

--------------------------------------------------------------------------------

\* The whole service, with its interleaved statements, row locks and rollbacks,
\* behaves on the committed tables as the serial HiringBoard does.
Board == INSTANCE HiringBoard
ImplementsHiringBoard == Board!Spec

\* Every request that has begun ends: no statement waits for ever.
RequestsEnd == \A t \in Txns : pc[t] # "idle" ~> pc[t] = "idle"

================================================================================
