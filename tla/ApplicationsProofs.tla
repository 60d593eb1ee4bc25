--------------------------- MODULE ApplicationsProofs ---------------------------
(***************************************************************************)
(* Proofs about Applications for every number of candidates, vacancies,    *)
(* applications and concurrent requests.                                   *)
(***************************************************************************)
EXTENDS Applications, FiniteSetTheorems, TLAPS

\* Two updates of a function keep its range.
LEMMA AppendType ==
  ASSUME NEW D, NEW T, NEW f \in [D -> Seq(T)], NEW x, NEW e \in T
  PROVE  [f EXCEPT ![x] = Append(@, e)] \in [D -> Seq(T)]
  <1>1. \A y \in D : Append(f[y], e) \in Seq(T)
    OBVIOUS
  <1>2. QED
    BY <1>1

LEMMA IncrementType ==
  ASSUME NEW D, NEW f \in [D -> Nat], NEW x
  PROVE  [f EXCEPT ![x] = @ + 1] \in [D -> Nat]
  <1>1. \A y \in D : f[y] + 1 \in Nat
    OBVIOUS
  <1>2. QED
    BY <1>1

LEMMA NoRequestType == NoRequest \in Request
  BY DEF NoRequest, Request, NoStatus

LEMMA RequestCount ==
  ASSUME NEW r \in Request, NEW n \in Nat
  PROVE  [r EXCEPT !.count = n] \in Request
  BY DEF Request

LEMMA RequestFrom ==
  ASSUME NEW r \in Request, NEW s \in ApplicationStatuses \cup {NoStatus}
  PROVE  [r EXCEPT !.from = s] \in Request
  BY DEF Request

LEMMA RequestInsert ==
  ASSUME NEW r \in Request, NEW a \in Apps
  PROVE  [r EXCEPT !.app = a, !.to = "submitted"] \in Request
  BY DEF Request, ApplicationStatuses

\* The tables keep their types when nothing writes them.
LEMMA TablesFrame == ASSUME TablesOK, UNCHANGED tables PROVE TablesOK'
  BY DEF TablesOK, tables

LEMMA ArriveType ==
  ASSUME ControlOK, NEW t \in Txns, NEW p \in Pcs, NEW r \in Request, Arrive(t, p, r)
  PROVE  ControlOK'
  BY DEF Arrive, ControlOK

LEMMA FinishType ==
  ASSUME ControlOK, NEW t \in Txns, Finish(t), UNCHANGED <<deadlinePassed, arrived>>
  PROVE  ControlOK'
  <1>1. "idle" \in Pcs
    BY DEF Pcs
  <1>2. QED
    BY <1>1, NoRequestType DEF Finish, Goto, ControlOK

LEMMA GotoType ==
  ASSUME ControlOK, NEW t \in Txns, NEW p \in Pcs, Goto(t, p),
         UNCHANGED <<req, deadlinePassed, arrived>>
  PROVE  ControlOK'
  BY DEF Goto, ControlOK

LEMMA GotoReqType ==
  ASSUME ControlOK, NEW t \in Txns, NEW p \in Pcs, Goto(t, p),
         NEW r \in Request, req' = [req EXCEPT ![t] = r],
         UNCHANGED <<deadlinePassed, arrived>>
  PROVE  ControlOK'
  BY DEF Goto, ControlOK

LEMMA InitIInv == Init => IInv
  <1> SUFFICES ASSUME Init PROVE IInv
    OBVIOUS
  <1>1. TypeOK
    BY NoRequestType
       DEF Init, TypeOK, TablesOK, ControlOK, Row, NoRow, NoStatus, Pcs, VacancyStatuses
  <1>2. RowsOK
    BY DEF Init, RowsOK, Exists, NoRow, NoStatus
  <1>3. RequestsOK
    BY DEF Init, RequestsOK, RequestOK, ApplyPcs, MovePcs, InterviewPcs, VacancyPcs
  <1>4. LocksOK
    BY DEF Init, LocksOK, UpdateLocksOK, ShareLocksOK, WritersOK, InsertsOK,
           UpdatePcs, SharePcs, WriterPcs
  <1>5. QED
    BY <1>1, <1>2, <1>3, <1>4 DEF IInv

--------------------------------------------------------------------------------

LEMMA BeginType ==
  ASSUME TypeOK, NEW t \in Txns, Begin(t)
  PROVE  TypeOK'
  <1> USE TablesFrame DEF TypeOK
  <1>1. TablesOK /\ ControlOK
    OBVIOUS
  <1>2. \A a \in Apps : application[a].vacancy \in Vacancies \cup {Null}
    BY <1>1 DEF TablesOK, Row
  <1>3. \A p \in {"lockVacancy", "lockApp", "peekStage", "writeVacancy"} : p \in Pcs
    BY DEF Pcs, ApplyPcs, MovePcs, InterviewPcs, VacancyPcs
  <1>4. ASSUME NEW v \in Vacancies, NEW c \in Candidates, BeginApply(t, v, c)
        PROVE  TypeOK'
    <2>1. deadlinePassed[v] \in BOOLEAN
      BY <1>1 DEF ControlOK
    <2>2. [NoRequest EXCEPT !.vacancy = v, !.candidate = c, !.role = "candidate",
                            !.late = deadlinePassed[v]] \in Request
      BY <2>1 DEF NoRequest, Request, NoStatus
    <2>3. ControlOK'
      BY <1>1, <1>3, <1>4, <2>2 DEF BeginApply, Arrive, ControlOK
    <2>4. QED
      BY <1>1, <1>4, <2>3 DEF BeginApply, Arrive
  <1>5. ASSUME NEW a \in Apps, BeginWithdraw(t, a) PROVE TypeOK'
    <2>1. [NoRequest EXCEPT !.app = a, !.vacancy = application[a].vacancy,
             !.to = "withdrawn", !.role = "candidate"] \in Request
      BY <1>2 DEF NoRequest, Request, NoStatus, ApplicationStatuses
    <2>2. ControlOK'
      BY <1>1, <1>3, <1>5, <2>1 DEF BeginWithdraw, Arrive, ControlOK
    <2>3. QED
      BY <1>1, <1>5, <2>2 DEF BeginWithdraw, Arrive
  <1>6. ASSUME NEW a \in Apps, NEW to \in Targets, BeginMoveStage(t, a, to)
        PROVE  TypeOK'
    <2>1. [NoRequest EXCEPT !.app = a, !.vacancy = application[a].vacancy,
             !.to = to, !.role = "employer"] \in Request
      BY <1>2, TargetsAssumption
         DEF NoRequest, Request, NoStatus, ApplicationStatuses, EmployerStages
    <2>2. ControlOK'
      BY <1>1, <1>3, <1>6, <2>1 DEF BeginMoveStage, Arrive, ControlOK
    <2>3. QED
      BY <1>1, <1>6, <2>2 DEF BeginMoveStage, Arrive
  <1>7. ASSUME NEW a \in Apps, BeginSchedule(t, a) PROVE TypeOK'
    <2>1. [NoRequest EXCEPT !.app = a, !.vacancy = application[a].vacancy,
             !.to = "interview", !.role = "employer"] \in Request
      BY <1>2 DEF NoRequest, Request, NoStatus, ApplicationStatuses
    <2>2. ControlOK'
      BY <1>1, <1>3, <1>7, <2>1 DEF BeginSchedule, Arrive, ControlOK
    <2>3. QED
      BY <1>1, <1>7, <2>2 DEF BeginSchedule, Arrive
  <1>8. ASSUME NEW v \in Vacancies, NEW to \in {"active", "paused", "closed"},
               BeginChangeStatus(t, v, to)
        PROVE  TypeOK'
    <2>1. [NoRequest EXCEPT !.vacancy = v, !.to = to] \in Request
      BY DEF NoRequest, Request, NoStatus, VacancyStatuses
    <2>2. ControlOK'
      BY <1>1, <1>3, <1>8, <2>1 DEF BeginChangeStatus, Arrive, ControlOK
    <2>3. QED
      BY <1>1, <1>8, <2>2 DEF BeginChangeStatus, Arrive
  <1>9. QED
    BY <1>4, <1>5, <1>6, <1>7, <1>8 DEF Begin

LEMMA StepType ==
  ASSUME TypeOK, RowsOK, RequestsOK, NEW t \in Txns, Step(t)
  PROVE  TypeOK'
  <1> USE TablesFrame DEF TypeOK
  <1>1. TablesOK /\ ControlOK
    OBVIOUS
  <1>1a. req[t] \in Request
    BY <1>1 DEF ControlOK
  <1>2. ASSUME Refuse(t), UNCHANGED <<deadlinePassed, arrived>> PROVE TypeOK'
    BY <1>1, <1>2, FinishType DEF Refuse
  <1>3. \A p \in {"checkActive", "insert", "commitApply", "countHire", "commitMove",
                  "commitHire", "lockForInterview", "insertInterview",
                  "commitInterview", "commitInterviewMove", "commitVacancy"} : p \in Pcs
    BY DEF Pcs, ApplyPcs, MovePcs, InterviewPcs, VacancyPcs
  <1>4. CASE LockVacancy(t)
    <2>1. ASSUME Goto(t, "checkActive"), UNCHANGED <<tables, req>> PROVE TypeOK'
      BY <1>1, <1>3, <1>4, <2>1 DEF LockVacancy, Goto, ControlOK
    <2>2. QED
      BY <1>2, <1>4, <2>1 DEF LockVacancy
  <1>5. CASE CheckActive(t)
    <2>1. ASSUME Goto(t, "insert"), UNCHANGED <<tables, req>> PROVE TypeOK'
      BY <1>1, <1>3, <1>5, <2>1 DEF CheckActive, Goto, ControlOK
    <2>2. QED
      BY <1>2, <1>5, <2>1 DEF CheckActive
  <1>6. CASE Insert(t)
    <2>1. ASSUME NEW a \in Apps, req' = [req EXCEPT ![t].app = a, ![t].to = "submitted"],
                 Goto(t, "commitApply"), UNCHANGED tables
          PROVE  TypeOK'
      <3>1. [req[t] EXCEPT !.app = a, !.to = "submitted"] \in Request
        BY <1>1a, RequestInsert
      <3>2. req' \in [Txns -> Request]
        BY <1>1, <2>1, <3>1 DEF ControlOK
      <3>3. QED
        BY <1>1, <1>3, <1>6, <2>1, <3>2 DEF Insert, Goto, ControlOK
    <2>2. QED
      BY <1>2, <1>6, <2>1 DEF Insert
  <1>7. CASE CommitApply(t)
    <2>1. req[t].vacancy \in Vacancies /\ req[t].candidate \in Candidates
      BY <1>7 DEF CommitApply, RequestsOK, RequestOK, ApplyPcs
    <2>2. application' \in [Apps -> Row]
      BY <1>1, <1>7, <2>1 DEF CommitApply, TablesOK, Row, ApplicationStatuses
    <2>3. stageHistory' \in [Apps -> Seq(HistoryRow)]
      <3> DEFINE row == [from |-> NoStatus, to |-> "submitted", role |-> "candidate"]
      <3>1. row \in HistoryRow
        BY DEF HistoryRow, ApplicationStatuses
      <3>2. stageHistory' = [stageHistory EXCEPT ![req[t].app] = Append(@, row)]
        BY <1>7 DEF CommitApply
      <3> HIDE DEF row
      <3>3. QED
        BY <1>1, <3>1, <3>2, AppendType DEF TablesOK
    <2>4. QED
      BY <1>1, <1>7, <2>2, <2>3, FinishType DEF CommitApply, TablesOK
  <1>8. ASSUME NEW from, NEW next \in Pcs, LockAppTo(t, from, next),
               req[t].app \in Apps
        PROVE TypeOK'
    <2>1. ASSUME Goto(t, next), UNCHANGED tables,
                 req' = [req EXCEPT ![t].from = application[req[t].app].status]
          PROVE  TypeOK'
      <3>1. application[req[t].app].status \in ApplicationStatuses \cup {NoStatus}
        BY <1>1, <1>8 DEF TablesOK, Row
      <3>2. [req[t] EXCEPT !.from = application[req[t].app].status] \in Request
        BY <1>1a, <3>1, RequestFrom
      <3>3. QED
        BY <1>1, <1>8, <2>1, <3>2 DEF LockAppTo, Goto, ControlOK
    <2>2. QED
      BY <1>2, <1>8, <2>1 DEF LockAppTo
  <1>9. CASE LockApp(t)
    <2>1. req[t].app \in Apps
      BY <1>9 DEF LockApp, LockAppTo, RequestsOK, RequestOK, MovePcs
    <2>2. QED
      BY <1>3, <1>8, <1>9, <2>1 DEF LockApp
  <1>10. CASE LockForInterview(t)
    <2>1. req[t].app \in Apps
      BY <1>10 DEF LockForInterview, LockAppTo, RequestsOK, RequestOK, InterviewPcs
    <2>2. QED
      BY <1>3, <1>8, <1>10, <2>1 DEF LockForInterview
  <1>11. CASE CountHire(t)
    <2>1. req[t].app \in Apps /\ Exists(req[t].app)
          /\ req[t].vacancy = application[req[t].app].vacancy
      BY <1>11 DEF CountHire, RequestsOK, RequestOK, MovePcs
    <2>2. PICK n \in Nat : req' = [req EXCEPT ![t].count = n]
      <3>1. req[t].vacancy \in Vacancies
        BY <2>1 DEF RowsOK
      <3>2. hiredCount[req[t].vacancy] + 1 \in Nat
        BY <1>1, <3>1 DEF TablesOK
      <3>3. QED
        BY <1>11, <3>2 DEF CountHire
    <2>3. [req[t] EXCEPT !.count = n] \in Request
      BY <1>1a, RequestCount
    <2>4. QED
      BY <1>1, <1>3, <1>11, <2>2, <2>3 DEF CountHire, Goto, ControlOK
  <1>12. CASE CommitMove(t)
    <2>1. /\ req[t].to \in ApplicationStatuses
          /\ req[t] \in Request
      BY <1>1a, <1>12 DEF CommitMove, RequestsOK, RequestOK, MovePcs, InterviewPcs
    <2>2. application' \in [Apps -> Row]
      BY <1>1, <1>12, <2>1 DEF CommitMove, PublishMove, TablesOK, Row
    <2>4. stageHistory' \in [Apps -> Seq(HistoryRow)]
      <3> DEFINE row == [from |-> req[t].from, to |-> req[t].to, role |-> req[t].role]
      <3>1. row \in HistoryRow
        BY <2>1 DEF HistoryRow, Request
      <3>2. stageHistory' = [stageHistory EXCEPT ![req[t].app] = Append(@, row)]
        BY <1>12 DEF CommitMove, PublishMove
      <3> HIDE DEF row
      <3>3. QED
        BY <1>1, <3>1, <3>2, AppendType DEF TablesOK
    <2>5. hiredCount' \in [Vacancies -> Nat]
      BY <1>1, <1>12, <2>1 DEF CommitMove, TablesOK, Request
    <2>6. interviews' \in [Apps -> Nat]
      BY <1>1, <1>12, IncrementType DEF CommitMove, TablesOK
    <2>7. TablesOK'
      BY <1>1, <1>12, <2>2, <2>4, <2>5, <2>6 DEF CommitMove, TablesOK
    <2>8. QED
      BY <1>1, <1>12, <2>7, FinishType DEF CommitMove
  <1>13. CASE PeekStage(t)
    <2>1. ASSUME NEW p \in {"lockForInterview", "insertInterview"}, Goto(t, p),
                 UNCHANGED <<tables, req>>
          PROVE  TypeOK'
      BY <1>1, <1>3, <1>13, <2>1 DEF PeekStage, Goto, ControlOK
    <2>2. QED
      BY <1>2, <1>13, <2>1 DEF PeekStage
  <1>14. CASE InsertInterview(t)
    BY <1>1, <1>3, <1>14 DEF InsertInterview, Goto, ControlOK
  <1>15. CASE CommitInterview(t)
    <2>1. interviews' \in [Apps -> Nat]
      BY <1>1, <1>15, IncrementType DEF CommitInterview, TablesOK
    <2>2. TablesOK'
      BY <1>1, <1>15, <2>1 DEF CommitInterview, TablesOK
    <2>3. QED
      BY <1>1, <1>15, <2>2, FinishType DEF CommitInterview
  <1>16. CASE WriteVacancy(t)
    BY <1>1, <1>3, <1>16 DEF WriteVacancy, Goto, ControlOK
  <1>17. CASE CommitVacancy(t)
    <2>1. req[t].to \in VacancyStatuses
      BY <1>17 DEF CommitVacancy, RequestsOK, RequestOK, VacancyPcs, VacancyStatuses
    <2>2. QED
      BY <1>1, <1>17, <2>1, FinishType DEF CommitVacancy, TablesOK
  <1>18. QED
    BY <1>4, <1>5, <1>6, <1>7, <1>9, <1>10, <1>11, <1>12, <1>13, <1>14, <1>15,
       <1>16, <1>17 DEF Step

\* What the program does outside a request keeps the types too.
LEMMA NextType ==
  ASSUME TypeOK, RowsOK, RequestsOK, [Next]_vars
  PROVE  TypeOK'
  <1>1. TablesOK /\ ControlOK
    BY DEF TypeOK
  <1>2. ASSUME NEW t \in Txns, Rollback(t) PROVE TypeOK'
    BY <1>1, <1>2, FinishType, TablesFrame DEF Rollback, Refuse, TypeOK
  <1>3. ASSUME NEW v \in Vacancies, DeadlinePasses(v) PROVE TypeOK'
    BY <1>1, <1>3, TablesFrame DEF DeadlinePasses, ControlOK, TypeOK
  <1>4. CASE UNCHANGED vars
    BY <1>1, <1>4, TablesFrame DEF vars, tables, ControlOK, TypeOK
  <1>5. QED
    BY <1>2, <1>3, <1>4, BeginType, StepType DEF Next

--------------------------------------------------------------------------------
(* What a step leaves to the other requests *)

\* The step is request t's: the others stay where they are.
Alone(t) == \A u \in Txns : u # t => pc'[u] = pc[u] /\ req'[u] = req[u]

LEMMA AloneGoto ==
  ASSUME ControlOK, NEW t \in Txns, NEW p, NEW r,
         pc' = [pc EXCEPT ![t] = p], req' = [req EXCEPT ![t] = r]
  PROVE  Alone(t) /\ pc'[t] = p /\ req'[t] = r
  BY DEF Alone, ControlOK

\* Applications never disappear or change hands under a request.
LEMMA OthersRequests ==
  ASSUME RequestsOK, NEW t \in Txns, Alone(t),
         \A a \in Apps : Exists(a) =>
           Exists(a)' /\ application'[a].vacancy = application[a].vacancy,
         RequestOK(t)'
  PROVE  RequestsOK'
  <1> SUFFICES ASSUME NEW u \in Txns, u # t PROVE RequestOK(u)'
    BY DEF RequestsOK
  <1>1. RequestOK(u) /\ pc'[u] = pc[u] /\ req'[u] = req[u]
    BY DEF RequestsOK, Alone
  <1>2. QED
    BY <1>1 DEF RequestOK

\* A step that writes no table and leaves its request without a row lock cannot
\* disturb what the holders of locks rely on.
LEMMA QuietStep ==
  ASSUME RowsOK, LocksOK, NEW t \in Txns, Alone(t),
         UNCHANGED <<vacancyStatus, hiredCount, application>>,
         pc'[t] \notin UpdatePcs \cup SharePcs \cup WriterPcs
  PROVE  RowsOK' /\ LocksOK'
  <1>1. RowsOK'
    BY DEF RowsOK, Exists
  <1>2. UpdateLocksOK'
    BY DEF LocksOK, UpdateLocksOK, Alone
  <1>3. ShareLocksOK'
    BY DEF LocksOK, ShareLocksOK, Alone
  <1>4. WritersOK'
    BY DEF LocksOK, WritersOK, Alone
  <1>5. InsertsOK'
    BY DEF LocksOK, InsertsOK, Alone, ActiveRows, Exists, SharePcs
  <1>6. QED
    BY <1>1, <1>2, <1>3, <1>4, <1>5 DEF LocksOK

\* What IInv says beyond types.
Relied == RowsOK /\ RequestsOK /\ LocksOK

\* A transaction that ends without writing: no table, no lock.
LEMMA RefuseRelied ==
  ASSUME ControlOK, Relied, NEW t \in Txns, Refuse(t)
  PROVE  Relied'
  <1>1. Alone(t) /\ pc'[t] = "idle"
    BY AloneGoto DEF Refuse, Finish, Goto
  <1>2. UNCHANGED <<vacancyStatus, hiredCount, application>>
    BY DEF Refuse, tables
  <1>3. RowsOK' /\ LocksOK'
    BY <1>1, <1>2, QuietStep DEF Relied, UpdatePcs, SharePcs, WriterPcs
  <1>4. RequestOK(t)'
    BY <1>1 DEF RequestOK, ApplyPcs, MovePcs, InterviewPcs, VacancyPcs
  <1>5. RequestsOK'
    BY <1>1, <1>2, <1>4, OthersRequests DEF Relied, Exists
  <1>6. QED
    BY <1>3, <1>5 DEF Relied

\* An arriving request holds no lock and names existing rows.
LEMMA BeginRelied ==
  ASSUME ControlOK, Relied, NEW t \in Txns, Begin(t)
  PROVE  Relied'
  <1>1. ASSUME NEW p \in {"lockVacancy", "lockApp", "peekStage", "writeVacancy"},
               NEW r, Arrive(t, p, r),
               /\ p = "lockVacancy" => r.vacancy \in Vacancies /\ r.candidate \in Candidates
               /\ p \in {"lockApp", "peekStage"} =>
                    /\ r.app \in Apps
                    /\ Exists(r.app)
                    /\ r.vacancy = application[r.app].vacancy
                    /\ r.to \in ApplicationStatuses
               /\ p = "peekStage" => r.to = "interview"
               /\ p = "writeVacancy" => /\ r.vacancy \in Vacancies
                                        /\ r.to \in {"active", "paused", "closed"}
        PROVE  Relied'
    <2>1. Alone(t) /\ pc'[t] = p /\ req'[t] = r
      BY <1>1, AloneGoto DEF Arrive
    <2>2. UNCHANGED <<vacancyStatus, hiredCount, application>>
      BY <1>1 DEF Arrive, tables
    <2>3. RowsOK' /\ LocksOK'
      BY <2>1, <2>2, QuietStep DEF Relied, UpdatePcs, SharePcs, WriterPcs
    <2>4. RequestOK(t)'
      BY <1>1, <2>1, <2>2
         DEF RequestOK, Exists, ApplyPcs, MovePcs, InterviewPcs, VacancyPcs
    <2>5. RequestsOK'
      BY <2>1, <2>2, <2>4, OthersRequests DEF Relied, Exists
    <2>6. QED
      BY <2>3, <2>5 DEF Relied
  <1>2. ASSUME NEW v \in Vacancies, NEW c \in Candidates, BeginApply(t, v, c)
        PROVE  Relied'
    BY <1>1, <1>2 DEF BeginApply, NoRequest
  <1>3. ASSUME NEW a \in Apps, BeginWithdraw(t, a) PROVE Relied'
    BY <1>1, <1>3 DEF BeginWithdraw, NoRequest, ApplicationStatuses
  <1>4. ASSUME NEW a \in Apps, NEW to \in Targets, BeginMoveStage(t, a, to)
        PROVE  Relied'
    BY <1>1, <1>4, TargetsAssumption
       DEF BeginMoveStage, NoRequest, ApplicationStatuses, EmployerStages
  <1>5. ASSUME NEW a \in Apps, BeginSchedule(t, a) PROVE Relied'
    BY <1>1, <1>5 DEF BeginSchedule, NoRequest, ApplicationStatuses
  <1>6. ASSUME NEW v \in Vacancies, NEW to \in {"active", "paused", "closed"},
               BeginChangeStatus(t, v, to)
        PROVE  Relied'
    BY <1>1, <1>6 DEF BeginChangeStatus, NoRequest
  <1>7. QED
    BY <1>2, <1>3, <1>4, <1>5, <1>6 DEF Begin

--------------------------------------------------------------------------------
(* apply *)

LEMMA LockVacancyRelied ==
  ASSUME ControlOK, Relied, NEW t \in Txns, LockVacancy(t)
  PROVE  Relied'
  <1>1. CASE IsOpenForApplications(vacancyStatus[req[t].vacancy], req[t].late)
    <2>1. Alone(t) /\ pc'[t] = "checkActive" /\ req' = req
      BY <1>1, AloneGoto DEF LockVacancy, Goto, Alone, ControlOK
    <2>2. UNCHANGED <<vacancyStatus, hiredCount, application>>
      BY <1>1 DEF LockVacancy, tables
    <2>3. RowsOK'
      BY <2>2 DEF Relied, RowsOK, Exists
    <2>4. UpdateLocksOK'
      BY <2>1, <2>2 DEF Relied, LocksOK, UpdateLocksOK, Alone, UpdatePcs
    <2>5. ShareLocksOK'
      <3>1. vacancyStatus[req[t].vacancy] = "active" /\ ~req[t].late
        BY <1>1 DEF IsOpenForApplications
      <3>2. \A u \in Txns : pc[u] \in WriterPcs => req[u].vacancy # req[t].vacancy
        BY DEF LockVacancy, Granted, WaitsFor, VacancyWriters, WriterPcs
      <3>3. QED
        BY <2>1, <2>2, <3>1, <3>2
           DEF Relied, LocksOK, ShareLocksOK, Alone, SharePcs, WriterPcs
    <2>6. WritersOK'
      BY <2>1, <2>2 DEF Relied, LocksOK, WritersOK, Alone, WriterPcs
    <2>7. InsertsOK'
      BY <2>1, <2>2 DEF Relied, LocksOK, InsertsOK, Alone, ActiveRows, Exists
    <2>8. RequestOK(t)'
      BY <2>1, <2>2 DEF LockVacancy, Relied, RequestsOK, RequestOK, ApplyPcs, MovePcs,
                        InterviewPcs, VacancyPcs
    <2>9. RequestsOK'
      BY <2>1, <2>2, <2>8, OthersRequests DEF Relied, Exists
    <2>10. QED
      BY <2>3, <2>4, <2>5, <2>6, <2>7, <2>9 DEF Relied, LocksOK
  <1>2. CASE ~IsOpenForApplications(vacancyStatus[req[t].vacancy], req[t].late)
    BY <1>2, RefuseRelied DEF LockVacancy
  <1>3. QED
    BY <1>1, <1>2

LEMMA CheckActiveRelied ==
  ASSUME ControlOK, Relied, NEW t \in Txns, CheckActive(t)
  PROVE  Relied'
  <1>1. CASE Goto(t, "insert") /\ UNCHANGED <<tables, req>>
    <2>1. Alone(t) /\ pc'[t] = "insert" /\ req' = req
      BY <1>1, AloneGoto DEF Goto, Alone, ControlOK
    <2>2. UNCHANGED <<vacancyStatus, hiredCount, application>>
      BY <1>1 DEF tables
    <2>3. pc[t] = "checkActive"
      BY DEF CheckActive
    <2>4. RowsOK'
      BY <2>2 DEF Relied, RowsOK, Exists
    <2>5. UpdateLocksOK'
      BY <2>1, <2>2 DEF Relied, LocksOK, UpdateLocksOK, Alone, UpdatePcs
    <2>6. ShareLocksOK'
      BY <2>1, <2>2, <2>3
         DEF Relied, LocksOK, ShareLocksOK, Alone, SharePcs, WriterPcs
    <2>7. WritersOK'
      BY <2>1, <2>2 DEF Relied, LocksOK, WritersOK, Alone, WriterPcs
    <2>8. InsertsOK'
      BY <2>1, <2>2 DEF Relied, LocksOK, InsertsOK, Alone, ActiveRows, Exists
    <2>9. RequestOK(t)'
      BY <2>1, <2>2, <2>3 DEF Relied, RequestsOK, RequestOK, ApplyPcs, MovePcs,
                              InterviewPcs, VacancyPcs
    <2>10. RequestsOK'
      BY <2>1, <2>2, <2>9, OthersRequests DEF Relied, Exists
    <2>11. QED
      BY <2>4, <2>5, <2>6, <2>7, <2>8, <2>10 DEF Relied, LocksOK
  <1>2. QED
    BY <1>1, RefuseRelied DEF CheckActive

LEMMA InsertRelied ==
  ASSUME ControlOK, Relied, NEW t \in Txns, Insert(t)
  PROVE  Relied'
  <1>1. ASSUME ActiveRows(req[t].vacancy, req[t].candidate) = {},
               NEW a \in Apps, ~Exists(a),
               \A u \in Txns : ~(pc[u] = "commitApply" /\ req[u].app = a),
               req' = [req EXCEPT ![t].app = a, ![t].to = "submitted"],
               Goto(t, "commitApply"), UNCHANGED tables
        PROVE  Relied'
    <2>1. /\ Alone(t)
          /\ pc'[t] = "commitApply"
          /\ req'[t] = [req[t] EXCEPT !.app = a, !.to = "submitted"]
      BY <1>1 DEF Goto, Alone, ControlOK
    <2>2. UNCHANGED <<vacancyStatus, hiredCount, application>>
      BY <1>1 DEF tables
    <2>3. /\ pc[t] = "insert"
          /\ \A u \in Txns : ~(/\ pc[u] = "commitApply"
                               /\ req[u].vacancy = req[t].vacancy
                               /\ req[u].candidate = req[t].candidate)
      BY DEF Insert, Granted, WaitsFor, PendingInserts
    <2>4. /\ req'[t].app = a
          /\ req'[t].vacancy = req[t].vacancy
          /\ req'[t].candidate = req[t].candidate
          /\ req'[t].late = req[t].late
      BY <2>1 DEF ControlOK, Request
    <2>4a. \A u \in Txns : /\ req'[u].vacancy = req[u].vacancy
                          /\ req'[u].candidate = req[u].candidate
                          /\ req'[u].late = req[u].late
      BY <2>1, <2>4 DEF Alone
    <2>5. RowsOK'
      BY <2>2 DEF Relied, RowsOK, Exists
    <2>6. UpdateLocksOK'
      BY <2>1, <2>2 DEF Relied, LocksOK, UpdateLocksOK, Alone, UpdatePcs
    <2>7. ShareLocksOK'
      <3>1. \A u \in Txns : /\ pc'[u] \in SharePcs => pc[u] \in SharePcs
                            /\ pc'[u] \in WriterPcs => pc[u] \in WriterPcs
        BY <2>1, <2>3 DEF Alone, SharePcs, WriterPcs
      <3>2. QED
        BY <2>2, <2>4a, <3>1 DEF Relied, LocksOK, ShareLocksOK
    <2>8. WritersOK'
      BY <2>1, <2>2 DEF Relied, LocksOK, WritersOK, Alone, WriterPcs
    <2>9. InsertsOK'
      <3> SUFFICES ASSUME NEW u \in Txns, pc'[u] = "commitApply"
                   PROVE  /\ req'[u].app \in Apps
                          /\ ~Exists(req[u].app)'
                          /\ ActiveRows(req[u].vacancy, req[u].candidate)' = {}
                          /\ \A w \in Txns : pc'[w] = "commitApply" =>
                               \/ w = u
                               \/ /\ req'[w].app # req'[u].app
                                  /\ \/ req'[w].vacancy # req'[u].vacancy
                                     \/ req'[w].candidate # req'[u].candidate
        BY DEF InsertsOK
      <3>1. CASE u = t
        <4>1. ASSUME NEW w \in Txns, pc'[w] = "commitApply", w # t
              PROVE  /\ req'[w].app # a
                     /\ \/ req'[w].vacancy # req[t].vacancy
                        \/ req'[w].candidate # req[t].candidate
          BY <1>1, <2>1, <2>3, <4>1 DEF Alone
        <4>2. ~Exists(req[t].app)'
          BY <1>1, <2>2, <2>4 DEF Exists
        <4>3. ActiveRows(req[t].vacancy, req[t].candidate)' = {}
          BY <1>1, <2>2, <2>4 DEF ActiveRows, Exists
        <4>4. QED
          BY <1>1, <2>4, <3>1, <4>1, <4>2, <4>3
      <3>2. CASE u # t
        <4>1. pc[u] = "commitApply" /\ req'[u] = req[u]
          BY <2>1, <3>2 DEF Alone
        <4>2. /\ req[u].app \in Apps
              /\ ~Exists(req[u].app)
              /\ ActiveRows(req[u].vacancy, req[u].candidate) = {}
              /\ \A w \in Txns : pc[w] = "commitApply" =>
                   \/ w = u
                   \/ /\ req[w].app # req[u].app
                      /\ \/ req[w].vacancy # req[u].vacancy
                         \/ req[w].candidate # req[u].candidate
          BY <4>1 DEF Relied, LocksOK, InsertsOK
        <4>3. ~Exists(req[u].app)'
          BY <2>2, <4>1, <4>2 DEF Exists
        <4>4. ActiveRows(req[u].vacancy, req[u].candidate)' = {}
          BY <2>2, <4>1, <4>2 DEF ActiveRows, Exists
        <4>5. /\ req'[t].app # req[u].app
              /\ \/ req'[t].vacancy # req[u].vacancy
                 \/ req'[t].candidate # req[u].candidate
          BY <1>1, <2>3, <2>4, <4>1
        <4>6. \A w \in Txns : w # t => pc'[w] = pc[w] /\ req'[w] = req[w]
          BY <2>1 DEF Alone
        <4>7. QED
          BY <4>1, <4>2, <4>3, <4>4, <4>5, <4>6
      <3>3. QED
        BY <3>1, <3>2
    <2>10. RequestOK(t)'
      BY <2>1, <2>2, <2>3, <2>4
         DEF Relied, RequestsOK, RequestOK, ApplyPcs, MovePcs, InterviewPcs, VacancyPcs
    <2>11. RequestsOK'
      BY <2>1, <2>2, <2>10, OthersRequests DEF Relied, Exists
    <2>12. QED
      BY <2>5, <2>6, <2>7, <2>8, <2>9, <2>11 DEF Relied, LocksOK
  <1>2. QED
    BY <1>1, RefuseRelied DEF Insert

LEMMA CommitApplyRelied ==
  ASSUME TypeOK, Relied, NEW t \in Txns, CommitApply(t)
  PROVE  Relied'
  <1> DEFINE a == req[t].app
             v == req[t].vacancy
             c == req[t].candidate
  <1>1. TablesOK /\ ControlOK
    BY DEF TypeOK
  <1>2. Alone(t) /\ pc'[t] = "idle"
    BY <1>1, AloneGoto DEF CommitApply, Finish, Goto
  <1>3. UNCHANGED <<vacancyStatus, hiredCount>>
    BY DEF CommitApply
  <1>4. /\ pc[t] = "commitApply"
        /\ v \in Vacancies /\ c \in Candidates
        /\ a \in Apps /\ ~Exists(a)
        /\ \A u \in Txns : pc[u] = "commitApply" =>
             u = t \/ (req[u].app # a /\ (req[u].vacancy # v \/ req[u].candidate # c))
    BY DEF CommitApply, Relied, LocksOK, InsertsOK, RequestsOK, RequestOK, ApplyPcs
  <1>5. /\ application'[a] = [status |-> "submitted", vacancy |-> v, candidate |-> c]
        /\ \A b \in Apps : b # a => application'[b] = application[b]
    BY <1>1, <1>4 DEF CommitApply, TablesOK
  <1>6. RowsOK'
    BY <1>4, <1>5 DEF Relied, RowsOK, Exists, NoStatus
  <1>7. \A u \in Txns : pc[u] \in MovePcs \cup InterviewPcs =>
          req[u].app \in Apps /\ req[u].app # a
    BY <1>4 DEF Relied, RequestsOK, RequestOK
  <1>8. UpdateLocksOK'
    BY <1>2, <1>5, <1>7
       DEF Relied, LocksOK, UpdateLocksOK, Alone, UpdatePcs, MovePcs, InterviewPcs
  <1>9. ShareLocksOK'
    BY <1>2, <1>3 DEF Relied, LocksOK, ShareLocksOK, Alone, SharePcs, WriterPcs
  <1>10. WritersOK'
    BY <1>2, <1>3 DEF Relied, LocksOK, WritersOK, Alone, WriterPcs
  <1>11. InsertsOK'
    BY <1>2, <1>4, <1>5
       DEF Relied, LocksOK, InsertsOK, Alone, ActiveRows, Exists
  <1>12. RequestOK(t)'
    BY <1>2 DEF RequestOK, ApplyPcs, MovePcs, InterviewPcs, VacancyPcs
  <1>13. RequestsOK'
    BY <1>2, <1>4, <1>5, <1>12, OthersRequests DEF Relied, Exists
  <1>14. QED
    BY <1>6, <1>8, <1>9, <1>10, <1>11, <1>13 DEF Relied, LocksOK

--------------------------------------------------------------------------------
(* move, schedule and changeStatus *)

\* Taking the application's row lock: whoever holds it read the current stage.
LEMMA LockAppToRelied ==
  ASSUME TypeOK, Relied, NEW t \in Txns,
         NEW from \in {"lockApp", "lockForInterview"},
         NEW next \in {"countHire", "commitMove", "commitInterviewMove"},
         next = "countHire" => req[t].to = "hired",
         next = "commitMove" => req[t].to # "hired",
         next = "commitInterviewMove" => req[t].to = "interview",
         LockAppTo(t, from, next)
  PROVE  Relied'
  <1> DEFINE a == req[t].app
  <1>1. TablesOK /\ ControlOK
    BY DEF TypeOK
  <1>2. CASE /\ MayMove(t)
             /\ Goto(t, next)
             /\ req' = [req EXCEPT ![t].from = application[a].status]
             /\ UNCHANGED tables
    <2>1. /\ Alone(t)
          /\ pc'[t] = next
          /\ req'[t] = [req[t] EXCEPT !.from = application[a].status]
      BY <1>1, <1>2 DEF Goto, Alone, ControlOK
    <2>2. /\ req'[t].from = application[a].status
          /\ req'[t].app = a
          /\ req'[t].vacancy = req[t].vacancy
          /\ req'[t].to = req[t].to
          /\ req'[t].role = req[t].role
      BY <1>1, <2>1 DEF ControlOK, Request
    <2>3. UNCHANGED <<vacancyStatus, hiredCount, application>>
      BY <1>2 DEF tables
    <2>4. /\ pc[t] = from
          /\ \A u \in Txns : ~(pc[u] \in UpdatePcs /\ req[u].app = a)
      BY DEF LockAppTo, Granted, WaitsFor, UpdateHolders, UpdatePcs
    <2>5. RowsOK'
      BY <2>3 DEF Relied, RowsOK, Exists
    <2>6. UpdateLocksOK'
      <3>1. CanTransition(application[a].status, req[t].to) /\ ActorFor(req[t].to) = req[t].role
        BY <1>2 DEF MayMove
      <3> SUFFICES ASSUME NEW u \in Txns, pc'[u] \in UpdatePcs
                   PROVE  /\ req'[u].from = application'[req'[u].app].status
                          /\ CanTransition(req'[u].from, req'[u].to)
                          /\ ActorFor(req'[u].to) = req'[u].role
                          /\ \A w \in Txns :
                               (pc'[w] \in UpdatePcs /\ req'[w].app = req'[u].app) => w = u
        BY DEF UpdateLocksOK, UpdatePcs
      <3>2. \A w \in Txns : w # t => pc'[w] = pc[w] /\ req'[w] = req[w]
        BY <2>1 DEF Alone
      <3>3. CASE u = t
        BY <2>2, <2>3, <2>4, <3>1, <3>2, <3>3
      <3>4. CASE u # t
        BY <2>2, <2>3, <2>4, <3>2, <3>4 DEF Relied, LocksOK, UpdateLocksOK
      <3>5. QED
        BY <3>3, <3>4
    <2>7. ShareLocksOK'
      BY <2>1, <2>3 DEF Relied, LocksOK, ShareLocksOK, Alone, SharePcs, WriterPcs
    <2>8. WritersOK'
      BY <2>1, <2>3 DEF Relied, LocksOK, WritersOK, Alone, WriterPcs
    <2>9. InsertsOK'
      BY <2>1, <2>3 DEF Relied, LocksOK, InsertsOK, Alone, ActiveRows, Exists
    <2>10. RequestOK(t)'
      BY <2>1, <2>2, <2>3, <2>4
         DEF Relied, RequestsOK, RequestOK, Exists, ApplyPcs, MovePcs, InterviewPcs,
             VacancyPcs
    <2>11. RequestsOK'
      BY <2>1, <2>3, <2>10, OthersRequests DEF Relied, Exists
    <2>12. QED
      BY <2>5, <2>6, <2>7, <2>8, <2>9, <2>11 DEF Relied, LocksOK
  <1>3. QED
    BY <1>1, <1>2, RefuseRelied DEF LockAppTo

LEMMA CountHireRelied ==
  ASSUME TypeOK, Relied, NEW t \in Txns, CountHire(t)
  PROVE  Relied'
  <1> DEFINE v == req[t].vacancy
  <1>1. TablesOK /\ ControlOK
    BY DEF TypeOK
  <1>2. /\ Alone(t)
        /\ pc'[t] = "commitHire"
        /\ req'[t] = [req[t] EXCEPT !.count = hiredCount[v] + 1]
    BY <1>1 DEF CountHire, Goto, Alone, ControlOK
  <1>3. /\ req'[t].count = hiredCount[v] + 1
        /\ req'[t].app = req[t].app
        /\ req'[t].vacancy = v
        /\ req'[t].to = req[t].to
        /\ req'[t].from = req[t].from
        /\ req'[t].role = req[t].role
    BY <1>1, <1>2 DEF ControlOK, Request
  <1>4. UNCHANGED <<vacancyStatus, hiredCount, application>>
    BY DEF CountHire, tables
  <1>5. /\ pc[t] = "countHire"
        /\ \A u \in Txns : pc[u] \in SharePcs => req[u].vacancy # v
        /\ \A u \in Txns : pc[u] \in WriterPcs => req[u].vacancy # v
    BY DEF CountHire, Granted, WaitsFor, ShareHolders, VacancyWriters, SharePcs, WriterPcs
  <1>6. RowsOK'
    BY <1>4 DEF Relied, RowsOK, Exists
  <1>6a. \A u \in Txns :
          /\ u # t => pc'[u] = pc[u]
          /\ req'[u].app = req[u].app
          /\ req'[u].vacancy = req[u].vacancy
          /\ req'[u].to = req[u].to
          /\ req'[u].from = req[u].from
          /\ req'[u].role = req[u].role
          /\ u # t => req'[u].count = req[u].count
          /\ u # t => req'[u].late = req[u].late
    BY <1>2, <1>3 DEF Alone
  <1>7. UpdateLocksOK'
    <2>1. \A u \in Txns : pc'[u] \in UpdatePcs => pc[u] \in UpdatePcs
      BY <1>2, <1>5, <1>6a DEF UpdatePcs
    <2>2. QED
      BY <1>4, <1>6a, <2>1 DEF Relied, LocksOK, UpdateLocksOK
  <1>8. ShareLocksOK'
    <2>1. \A u \in Txns : pc'[u] \in SharePcs => pc[u] \in SharePcs /\ u # t
      BY <1>2, <1>6a DEF SharePcs
    <2>2. \A u \in Txns : pc'[u] \in WriterPcs => pc[u] \in WriterPcs \/ u = t
      BY <1>6a DEF WriterPcs
    <2>3. QED
      BY <1>4, <1>5, <1>6a, <2>1, <2>2 DEF Relied, LocksOK, ShareLocksOK
  <1>9. WritersOK'
    <2> SUFFICES ASSUME NEW u \in Txns, pc'[u] \in WriterPcs
                 PROVE  /\ pc'[u] = "commitHire" =>
                             req'[u].count = hiredCount'[req'[u].vacancy] + 1
                        /\ \A w \in Txns :
                             (pc'[w] \in WriterPcs /\ req'[w].vacancy = req'[u].vacancy)
                               => w = u
      BY DEF WritersOK, WriterPcs
    <2>1. CASE u = t
      BY <1>3, <1>4, <1>5, <1>6a, <2>1
    <2>2. CASE u # t
      BY <1>3, <1>4, <1>5, <1>6a, <2>2 DEF Relied, LocksOK, WritersOK
    <2>3. QED
      BY <2>1, <2>2
  <1>10. InsertsOK'
    BY <1>2, <1>4 DEF Relied, LocksOK, InsertsOK, Alone, ActiveRows, Exists
  <1>11. RequestOK(t)'
    BY <1>2, <1>3, <1>4, <1>5
       DEF Relied, RequestsOK, RequestOK, Exists, ApplyPcs, MovePcs, InterviewPcs, VacancyPcs
  <1>12. RequestsOK'
    BY <1>2, <1>4, <1>11, OthersRequests DEF Relied, Exists
  <1>13. QED
    BY <1>6, <1>7, <1>8, <1>9, <1>10, <1>12 DEF Relied, LocksOK

\* A move out of a stage that is not terminal never takes an active slot anew.
LEMMA MovedSlot ==
  ASSUME NEW s, NEW d, CanTransition(s, d)
  PROVE  OccupiesActiveSlot(s)
  BY DEF CanTransition, IsTerminal, Terminal, OccupiesActiveSlot

LEMMA CommitMoveRelied ==
  ASSUME TypeOK, Relied, NEW t \in Txns, CommitMove(t)
  PROVE  Relied'
  <1> DEFINE a == req[t].app
  <1>1. TablesOK /\ ControlOK
    BY DEF TypeOK
  <1>2. Alone(t) /\ pc'[t] = "idle"
    BY <1>1, AloneGoto DEF CommitMove, Finish, Goto
  <1>3. /\ pc[t] \in UpdatePcs
        /\ pc[t] \in MovePcs \cup InterviewPcs
        /\ pc[t] = "commitHire" => pc[t] \in WriterPcs
    BY DEF CommitMove, UpdatePcs, MovePcs, InterviewPcs, WriterPcs
  <1>4. /\ a \in Apps /\ Exists(a)
        /\ req[t].vacancy = application[a].vacancy
        /\ req[t].to \in ApplicationStatuses
        /\ CanTransition(application[a].status, req[t].to)
        /\ \A u \in Txns : (pc[u] \in UpdatePcs /\ req[u].app = a) => u = t
    BY <1>3 DEF Relied, LocksOK, UpdateLocksOK, RequestsOK, RequestOK
  <1>5. /\ application'[a].status = req[t].to
        /\ application'[a].vacancy = application[a].vacancy
        /\ application'[a].candidate = application[a].candidate
        /\ \A b \in Apps : b # a => application'[b] = application[b]
    BY <1>1, <1>4 DEF CommitMove, PublishMove, TablesOK, Row
  <1>6. \A b \in Apps : /\ Exists(b)' <=> Exists(b)
                        /\ application'[b].vacancy = application[b].vacancy
                        /\ application'[b].candidate = application[b].candidate
    BY <1>4, <1>5 DEF Exists, ApplicationStatuses, NoStatus
  <1>7. RowsOK'
    BY <1>4, <1>5, <1>6 DEF Relied, RowsOK, Exists
  <1>8. UpdateLocksOK'
    <2>1. \A u \in Txns : pc[u] \in UpdatePcs => req[u].app \in Apps
      BY DEF Relied, RequestsOK, RequestOK, UpdatePcs, MovePcs, InterviewPcs
    <2>2. QED
      BY <1>2, <1>4, <1>5, <2>1 DEF Relied, LocksOK, UpdateLocksOK, Alone, UpdatePcs
  <1>9. ShareLocksOK'
    BY <1>2 DEF CommitMove, Relied, LocksOK, ShareLocksOK, Alone, SharePcs, WriterPcs
  <1>10. WritersOK'
    <2>1. ASSUME NEW u \in Txns, u # t, pc[u] = "commitHire"
          PROVE  hiredCount'[req[u].vacancy] = hiredCount[req[u].vacancy]
      <3>1. CASE pc[t] = "commitHire"
        <4>1. req[u].vacancy # req[t].vacancy
          BY <1>3, <2>1, <3>1 DEF Relied, LocksOK, WritersOK, WriterPcs
        <4>2. QED
          BY <1>1, <3>1, <4>1 DEF CommitMove, TablesOK
      <3>2. CASE pc[t] # "commitHire"
        BY <3>2 DEF CommitMove
      <3>3. QED
        BY <3>1, <3>2
    <2>2. QED
      BY <1>2, <2>1 DEF Relied, LocksOK, WritersOK, Alone, WriterPcs
  <1>11. InsertsOK'
    <2>1. \A v, c : ActiveRows(v, c)' \subseteq ActiveRows(v, c)
      BY <1>4, <1>5, <1>6, MovedSlot DEF ActiveRows
    <2>2. QED
      BY <1>2, <1>6, <2>1 DEF Relied, LocksOK, InsertsOK, Alone, ActiveRows
  <1>12. RequestOK(t)'
    BY <1>2 DEF RequestOK, ApplyPcs, MovePcs, InterviewPcs, VacancyPcs
  <1>13. RequestsOK'
    BY <1>2, <1>6, <1>12, OthersRequests DEF Relied
  <1>14. QED
    BY <1>7, <1>8, <1>9, <1>10, <1>11, <1>13 DEF Relied, LocksOK

\* The steps of schedule that take no lock on a row they are going to write.
LEMMA InterviewRelied ==
  ASSUME ControlOK, Relied, NEW t \in Txns,
         PeekStage(t) \/ InsertInterview(t) \/ CommitInterview(t)
  PROVE  Relied'
  <1>1. ASSUME NEW p \in {"lockForInterview", "insertInterview", "commitInterview"},
               pc[t] \in InterviewPcs, Goto(t, p), UNCHANGED <<tables, req>>
        PROVE  Relied'
    <2>1. Alone(t) /\ pc'[t] = p /\ req' = req
      BY <1>1 DEF Goto, Alone, ControlOK
    <2>2. UNCHANGED <<vacancyStatus, hiredCount, application>>
      BY <1>1 DEF tables
    <2>3. RowsOK' /\ LocksOK'
      BY <2>1, <2>2, QuietStep DEF Relied, UpdatePcs, SharePcs, WriterPcs
    <2>4. RequestOK(t)'
      <3>1. RequestOK(t) /\ pc[t] \in MovePcs \cup InterviewPcs
        BY <1>1 DEF Relied, RequestsOK
      <3>2. QED
        BY <1>1, <2>1, <2>2, <3>1
           DEF RequestOK, Exists, ApplyPcs, MovePcs, InterviewPcs, VacancyPcs
    <2>5. RequestsOK'
      BY <2>1, <2>2, <2>4, OthersRequests DEF Relied, Exists
    <2>6. QED
      BY <2>3, <2>5 DEF Relied
  <1>2. CASE PeekStage(t)
    BY <1>1, <1>2, RefuseRelied DEF PeekStage, InterviewPcs
  <1>3. CASE InsertInterview(t)
    BY <1>1, <1>3 DEF InsertInterview, InterviewPcs, tables
  <1>4. CASE CommitInterview(t)
    <2>1. Alone(t) /\ pc'[t] = "idle"
      BY <1>4, AloneGoto DEF CommitInterview, Finish, Goto
    <2>2. UNCHANGED <<vacancyStatus, hiredCount, application>>
      BY <1>4 DEF CommitInterview
    <2>3. RowsOK' /\ LocksOK'
      BY <2>1, <2>2, QuietStep DEF Relied, UpdatePcs, SharePcs, WriterPcs
    <2>4. RequestOK(t)'
      BY <2>1 DEF RequestOK, ApplyPcs, MovePcs, InterviewPcs, VacancyPcs
    <2>5. RequestsOK'
      BY <2>1, <2>2, <2>4, OthersRequests DEF Relied, Exists
    <2>6. QED
      BY <2>3, <2>5 DEF Relied
  <1>5. QED
    BY <1>2, <1>3, <1>4

LEMMA WriteVacancyRelied ==
  ASSUME ControlOK, Relied, NEW t \in Txns, WriteVacancy(t)
  PROVE  Relied'
  <1>1. Alone(t) /\ pc'[t] = "commitVacancy" /\ req' = req
    BY DEF WriteVacancy, Goto, Alone, ControlOK
  <1>2. UNCHANGED <<vacancyStatus, hiredCount, application>>
    BY DEF WriteVacancy, tables
  <1>3. /\ pc[t] = "writeVacancy"
        /\ \A u \in Txns : pc[u] \in SharePcs => req[u].vacancy # req[t].vacancy
        /\ \A u \in Txns : pc[u] \in WriterPcs => req[u].vacancy # req[t].vacancy
    BY DEF WriteVacancy, Granted, WaitsFor, ShareHolders, VacancyWriters, SharePcs, WriterPcs
  <1>4. RowsOK'
    BY <1>2 DEF Relied, RowsOK, Exists
  <1>5. UpdateLocksOK'
    BY <1>1, <1>2 DEF Relied, LocksOK, UpdateLocksOK, Alone, UpdatePcs
  <1>6. ShareLocksOK'
    BY <1>1, <1>2, <1>3 DEF Relied, LocksOK, ShareLocksOK, Alone, SharePcs, WriterPcs
  <1>7. WritersOK'
    BY <1>1, <1>2, <1>3 DEF Relied, LocksOK, WritersOK, Alone, WriterPcs
  <1>8. InsertsOK'
    BY <1>1, <1>2 DEF Relied, LocksOK, InsertsOK, Alone, ActiveRows, Exists
  <1>9. RequestOK(t)'
    BY <1>1, <1>2, <1>3
       DEF Relied, RequestsOK, RequestOK, ApplyPcs, MovePcs, InterviewPcs, VacancyPcs
  <1>10. RequestsOK'
    BY <1>1, <1>2, <1>9, OthersRequests DEF Relied, Exists
  <1>11. QED
    BY <1>4, <1>5, <1>6, <1>7, <1>8, <1>10 DEF Relied, LocksOK

LEMMA CommitVacancyRelied ==
  ASSUME TypeOK, Relied, NEW t \in Txns, CommitVacancy(t)
  PROVE  Relied'
  <1>1. TablesOK /\ ControlOK
    BY DEF TypeOK
  <1>2. Alone(t) /\ pc'[t] = "idle"
    BY <1>1, AloneGoto DEF CommitVacancy, Finish, Goto
  <1>3. UNCHANGED <<hiredCount, application>>
    BY DEF CommitVacancy
  <1>4. RowsOK'
    BY <1>3 DEF Relied, RowsOK, Exists
  <1>5. UpdateLocksOK'
    BY <1>2, <1>3 DEF Relied, LocksOK, UpdateLocksOK, Alone, UpdatePcs
  <1>6. ShareLocksOK'
    <2>1. ASSUME NEW u \in Txns, pc[u] \in SharePcs
          PROVE  vacancyStatus'[req[u].vacancy] = vacancyStatus[req[u].vacancy]
      <3>1. req[t].vacancy # req[u].vacancy
        BY <2>1 DEF CommitVacancy, Relied, LocksOK, ShareLocksOK, WriterPcs
      <3>2. QED
        BY <1>1, <3>1 DEF CommitVacancy, TablesOK
    <2>2. QED
      BY <1>2, <2>1 DEF Relied, LocksOK, ShareLocksOK, Alone, SharePcs, WriterPcs
  <1>7. WritersOK'
    BY <1>2, <1>3 DEF Relied, LocksOK, WritersOK, Alone, WriterPcs
  <1>8. InsertsOK'
    BY <1>2, <1>3 DEF Relied, LocksOK, InsertsOK, Alone, ActiveRows, Exists
  <1>9. RequestOK(t)'
    BY <1>2 DEF RequestOK, ApplyPcs, MovePcs, InterviewPcs, VacancyPcs
  <1>10. RequestsOK'
    BY <1>2, <1>3, <1>9, OthersRequests DEF Relied, Exists
  <1>11. QED
    BY <1>4, <1>5, <1>6, <1>7, <1>8, <1>10 DEF Relied, LocksOK

--------------------------------------------------------------------------------
(* Theorems *)

LEMMA StepRelied ==
  ASSUME TypeOK, Relied, NEW t \in Txns, Step(t)
  PROVE  Relied'
  <1>1. ControlOK /\ RequestOK(t)
    BY DEF TypeOK, Relied, RequestsOK
  <1>2. CASE LockApp(t)
    <2>1. CASE req[t].to = "hired"
      BY <1>2, <2>1, LockAppToRelied DEF LockApp
    <2>2. CASE req[t].to # "hired"
      BY <1>2, <2>2, LockAppToRelied DEF LockApp
    <2>3. QED
      BY <2>1, <2>2
  <1>3. CASE LockForInterview(t)
    <2>1. req[t].to = "interview"
      BY <1>1, <1>3 DEF LockForInterview, LockAppTo, RequestOK, InterviewPcs
    <2>2. QED
      BY <1>3, <2>1, LockAppToRelied DEF LockForInterview
  <1>4. QED
    BY <1>1, <1>2, <1>3, LockVacancyRelied, CheckActiveRelied, InsertRelied,
       CommitApplyRelied, CountHireRelied, CommitMoveRelied, InterviewRelied,
       WriteVacancyRelied, CommitVacancyRelied DEF Step

LEMMA NextIInv == IInv /\ [Next]_vars => IInv'
  <1> SUFFICES ASSUME IInv, [Next]_vars PROVE IInv'
    OBVIOUS
  <1>1. TypeOK /\ ControlOK /\ Relied
    BY DEF IInv, TypeOK, Relied
  <1>2. TypeOK'
    BY NextType DEF IInv
  <1>3. ASSUME NEW t \in Txns, Rollback(t) PROVE Relied'
    BY <1>1, <1>3, RefuseRelied DEF Rollback
  <1>4. ASSUME UNCHANGED <<tables, pc, req>> PROVE Relied'
    BY <1>1, <1>4
       DEF Relied, tables, RowsOK, RequestsOK, RequestOK, LocksOK, UpdateLocksOK,
           ShareLocksOK, WritersOK, InsertsOK, ActiveRows, Exists
  <1>5. Relied'
    BY <1>1, <1>3, <1>4, BeginRelied, StepRelied DEF Next, DeadlinePasses, vars, tables
  <1>6. QED
    BY <1>2, <1>5 DEF IInv, Relied

\* The locks keep their promises in every reachable state: each holder of a row
\* lock still sees the row as it read it, and holds it alone.
THEOREM LocksHold == Spec => []IInv
  BY InitIInv, NextIInv, PTL DEF Spec

\* Types, for any number of users, vacancies, applications and requests.
THEOREM TypeCorrect == Spec => []TypeOK
  <1>1. IInv => TypeOK
    BY DEF IInv
  <1>2. QED
    BY <1>1, LocksHold, PTL

--------------------------------------------------------------------------------
(* What the locks are for: the service implements HiringBoard, and the safety    *)
(* properties hold for every instance.                                          *)

LEMMA ApplyImplements ==
  ASSUME IInv, NEW t \in Txns, CommitApply(t)
  PROVE  Board!Next
  <1> DEFINE a == req[t].app
             v == req[t].vacancy
             c == req[t].candidate
  <1>1. /\ pc[t] = "commitApply"
        /\ v \in Vacancies /\ c \in Candidates
        /\ a \in Apps /\ ~Exists(a)
        /\ ActiveRows(v, c) = {}
        /\ vacancyStatus[v] = "active"
    BY DEF CommitApply, IInv, RequestsOK, RequestOK, LocksOK, InsertsOK, ShareLocksOK,
           ApplyPcs, SharePcs
  <1>2. ~Board!Occupied(v, c)
    BY <1>1 DEF Board!Occupied, ActiveRows, Exists, NoStatus, Board!NoStatus,
                OccupiesActiveSlot, Board!OccupiesActiveSlot
  <1>3. Board!Apply(a, v, c)
    BY <1>1, <1>2 DEF CommitApply, Board!Apply, Board!Record, Exists, NoStatus,
                      Board!NoStatus
  <1>4. QED
    BY <1>1, <1>3 DEF Board!Next

LEMMA MoveImplements ==
  ASSUME IInv, NEW t \in Txns, CommitMove(t)
  PROVE  Board!Next
  <1> DEFINE a == req[t].app
             to == req[t].to
  <1>1. /\ pc[t] \in UpdatePcs
        /\ pc[t] \in MovePcs \cup InterviewPcs
        /\ pc[t] = "commitHire" <=> to = "hired"
        /\ pc[t] = "commitInterviewMove" => to = "interview"
    BY DEF CommitMove, IInv, RequestsOK, RequestOK, UpdatePcs, MovePcs, InterviewPcs
  <1>2. /\ a \in Apps /\ Exists(a)
        /\ req[t].vacancy = application[a].vacancy
        /\ to \in ApplicationStatuses
        /\ req[t].from = application[a].status
        /\ CanTransition(application[a].status, to)
        /\ ActorFor(to) = req[t].role
    BY <1>1 DEF IInv, LocksOK, UpdateLocksOK, RequestsOK, RequestOK
  <1>3. pc[t] = "commitHire" => req[t].count = hiredCount[req[t].vacancy] + 1
    BY DEF IInv, LocksOK, WritersOK, WriterPcs
  <1>4. hiredCount' = IF to = "hired"
                        THEN [hiredCount EXCEPT ![application[a].vacancy] = @ + 1]
                        ELSE hiredCount
    BY <1>1, <1>2, <1>3 DEF CommitMove
  <1>5. \/ UNCHANGED interviews
        \/ to = "interview" /\ interviews' = [interviews EXCEPT ![a] = @ + 1]
    BY <1>1 DEF CommitMove
  <1>6. Board!Move(a, to)
    BY <1>2, <1>4, <1>5
       DEF CommitMove, PublishMove, Board!Move, Board!Record, Exists, NoStatus,
           Board!NoStatus, CanTransition, Board!CanTransition, ActorFor, Board!ActorFor,
           IsTerminal, Board!IsTerminal, Terminal, Board!Terminal, Precedes,
           Board!Precedes, Progression, Board!Progression
  <1>7. QED
    BY <1>2, <1>6 DEF Board!Next, ApplicationStatuses, Board!ApplicationStatuses

\* Every step commits one operation of the board or none.
LEMMA NextImplements ==
  ASSUME IInv, [Next]_vars
  PROVE  [Board!Next]_(Board!board)
  <1>1. ASSUME UNCHANGED tables PROVE UNCHANGED Board!board
    BY <1>1 DEF tables, Board!board
  <1>2. ASSUME NEW t \in Txns, Begin(t) PROVE UNCHANGED tables
    BY <1>2 DEF Begin, BeginApply, BeginWithdraw, BeginMoveStage, BeginSchedule,
                BeginChangeStatus, Arrive
  <1>3. ASSUME NEW t \in Txns, Rollback(t) PROVE UNCHANGED tables
    BY <1>3 DEF Rollback, Refuse
  <1>4. ASSUME NEW t \in Txns, CommitInterview(t) PROVE Board!Next
    <2>1. req[t].app \in Apps /\ Exists(req[t].app)
      BY <1>4 DEF CommitInterview, IInv, RequestsOK, RequestOK, InterviewPcs
    <2>2. Board!AddInterview(req[t].app)
      BY <1>4, <2>1 DEF CommitInterview, Board!AddInterview, Exists, NoStatus, Board!NoStatus
    <2>3. QED
      BY <2>1, <2>2 DEF Board!Next
  <1>5. ASSUME NEW t \in Txns, CommitVacancy(t) PROVE Board!Next
    <2>1. req[t].vacancy \in Vacancies /\ req[t].to \in {"active", "paused", "closed"}
      BY <1>5 DEF CommitVacancy, IInv, RequestsOK, RequestOK, VacancyPcs
    <2>2. Board!SetVacancyStatus(req[t].vacancy, req[t].to)
      BY <1>5 DEF CommitVacancy, Board!SetVacancyStatus
    <2>3. QED
      BY <2>1, <2>2 DEF Board!Next
  <1>6. ASSUME NEW t \in Txns,
               \/ LockVacancy(t) \/ CheckActive(t) \/ Insert(t) \/ LockApp(t)
               \/ CountHire(t) \/ PeekStage(t) \/ LockForInterview(t)
               \/ InsertInterview(t) \/ WriteVacancy(t)
        PROVE  UNCHANGED tables
    BY <1>6 DEF LockVacancy, CheckActive, Insert, LockApp, LockAppTo, CountHire,
                PeekStage, LockForInterview, InsertInterview, WriteVacancy, Refuse, tables
  <1>7. ASSUME NEW t \in Txns, Step(t) PROVE [Board!Next]_(Board!board)
    BY <1>1, <1>4, <1>5, <1>6, <1>7, ApplyImplements, MoveImplements DEF Step
  <1>8. ASSUME NEW v \in Vacancies, DeadlinePasses(v) PROVE UNCHANGED tables
    BY <1>8 DEF DeadlinePasses
  <1>9. CASE UNCHANGED vars
    BY <1>1, <1>9 DEF vars, tables
  <1>10. QED
    BY <1>1, <1>2, <1>3, <1>7, <1>8, <1>9 DEF Next

LEMMA InitImplements == Init => Board!Init
  BY DEF Init, Board!Init, NoRow, NoStatus, Board!NoStatus

\* The service with its interleaved statements, locks and rollbacks behaves on
\* the committed tables as the serial HiringBoard, for every instance.
THEOREM Implements == Spec => ImplementsHiringBoard
  <1>1. IInv /\ [Next]_vars => [Board!Next]_(Board!board)
    BY NextImplements
  <1>2. QED
    BY <1>1, InitImplements, LocksHold, PTL DEF Spec, ImplementsHiringBoard, Board!Spec

--------------------------------------------------------------------------------
(* The board's own properties, which the refinement carries over *)

\* What one operation of the board does to the application rows.
LEMMA BoardRows ==
  ASSUME TablesOK, [Board!Next]_(Board!board)
  PROVE  \/ UNCHANGED application
         \/ \E a \in Apps, v \in Vacancies, c \in Candidates :
              /\ ~Exists(a) /\ vacancyStatus[v] = "active" /\ ActiveRows(v, c) = {}
              /\ application' = [application EXCEPT ![a] =
                   [status |-> "submitted", vacancy |-> v, candidate |-> c]]
         \/ \E a \in Apps, to \in ApplicationStatuses :
              /\ Exists(a) /\ CanTransition(application[a].status, to)
              /\ application' = [application EXCEPT ![a].status = to]
  <1>1. ASSUME NEW a \in Apps, NEW v \in Vacancies, NEW c \in Candidates,
               Board!Apply(a, v, c)
        PROVE  /\ ~Exists(a) /\ vacancyStatus[v] = "active" /\ ActiveRows(v, c) = {}
               /\ application' = [application EXCEPT ![a] =
                    [status |-> "submitted", vacancy |-> v, candidate |-> c]]
    BY <1>1 DEF Board!Apply, Board!Occupied, Exists, ActiveRows, NoStatus, Board!NoStatus,
                OccupiesActiveSlot, Board!OccupiesActiveSlot
  <1>2. ASSUME NEW a \in Apps, NEW to \in ApplicationStatuses, Board!Move(a, to)
        PROVE  /\ Exists(a) /\ CanTransition(application[a].status, to)
               /\ application' = [application EXCEPT ![a].status = to]
    BY <1>2 DEF Board!Move, Exists, NoStatus, Board!NoStatus, CanTransition,
                Board!CanTransition, IsTerminal, Board!IsTerminal, Terminal,
                Board!Terminal, Precedes, Board!Precedes, Progression, Board!Progression
  <1>3. ASSUME NEW a \in Apps, Board!AddInterview(a) PROVE UNCHANGED application
    BY <1>3 DEF Board!AddInterview
  <1>4. ASSUME NEW v \in Vacancies, NEW to, Board!SetVacancyStatus(v, to)
        PROVE  UNCHANGED application
    BY <1>4 DEF Board!SetVacancyStatus
  <1>5. CASE UNCHANGED Board!board
    BY <1>5 DEF Board!board
  <1>6. QED
    BY <1>1, <1>2, <1>3, <1>4, <1>5
       DEF Board!Next, ApplicationStatuses, Board!ApplicationStatuses

\* The stage machine, for every instance.
THEOREM StageMachine == Spec => StagesFollowMachine
  <1>1. ASSUME IInv, [Next]_vars
        PROVE  \A a \in Apps :
                 Exists(a) =>
                   /\ application'[a].vacancy = application[a].vacancy
                   /\ application'[a].candidate = application[a].candidate
                   /\ application'[a].status # application[a].status
                        => CanTransition(application[a].status, application'[a].status)
    <2>1. TablesOK
      BY <1>1 DEF IInv, TypeOK
    <2>2. CASE UNCHANGED application
      BY <2>2
    <2>3. ASSUME NEW a \in Apps, ~Exists(a), NEW r,
                 application' = [application EXCEPT ![a] = r]
          PROVE  \A b \in Apps : Exists(b) => application'[b] = application[b]
      BY <2>1, <2>3 DEF TablesOK
    <2>4. ASSUME NEW a \in Apps, NEW to, CanTransition(application[a].status, to),
                 application' = [application EXCEPT ![a].status = to]
          PROVE  \A b \in Apps :
                   /\ application'[b].vacancy = application[b].vacancy
                   /\ application'[b].candidate = application[b].candidate
                   /\ application'[b].status # application[b].status
                        => CanTransition(application[b].status, application'[b].status)
      BY <2>1, <2>4 DEF TablesOK, Row
    <2>5. QED
      BY <1>1, <2>1, <2>2, <2>3, <2>4, NextImplements, BoardRows
  <1>2. IInv /\ [Next]_vars =>
          [\A a \in Apps :
             Exists(a) =>
               /\ application'[a].vacancy = application[a].vacancy
               /\ application'[a].candidate = application[a].candidate
               /\ application'[a].status # application[a].status
                    => CanTransition(application[a].status, application'[a].status)]_vars
    BY <1>1
  <1>3. QED
    BY <1>2, LocksHold, PTL DEF Spec, StagesFollowMachine

\* BR-06 for every instance: the FOR SHARE lock keeps the vacancy open until the
\* application is committed.
THEOREM AppliesOnlyToOpen == Spec => ApplyOnlyToOpen
  <1>1. ASSUME IInv, [Next]_vars, NEW a \in Apps, ~Exists(a),
               application'[a].status # NoStatus
        PROVE  /\ vacancyStatus[application'[a].vacancy] = "active"
               /\ \E t \in Txns : pc[t] = "commitApply" /\ req[t].app = a /\ ~req[t].late
    <2>1. TablesOK
      BY <1>1 DEF IInv, TypeOK
    <2>2. ASSUME UNCHANGED application PROVE FALSE
      BY <1>1, <2>2 DEF Exists
    <2>3. PICK t \in Txns : CommitApply(t) \/ CommitMove(t)
      BY <1>1, <2>2
         DEF Next, Begin, BeginApply, BeginWithdraw, BeginMoveStage, BeginSchedule,
             BeginChangeStatus, Arrive, Step, LockVacancy, CheckActive, Insert, LockApp,
             LockAppTo, CountHire, PeekStage, LockForInterview, InsertInterview,
             CommitInterview, WriteVacancy, CommitVacancy, Rollback, Refuse, tables,
             DeadlinePasses, vars
    <2>4. CASE CommitMove(t)
      <3>1. pc[t] \in MovePcs \cup InterviewPcs
        BY <2>4 DEF CommitMove, MovePcs, InterviewPcs
      <3>2. Exists(req[t].app) /\ req[t].app \in Apps
        BY <1>1, <3>1 DEF IInv, RequestsOK, RequestOK
      <3>3. application'[a] = application[a]
        BY <1>1, <2>1, <2>4, <3>2 DEF CommitMove, PublishMove, TablesOK
      <3>4. QED
        BY <1>1, <3>3 DEF Exists
    <2>5. CASE CommitApply(t)
      <3>1. req[t].app = a
        BY <1>1, <2>1, <2>5 DEF CommitApply, TablesOK, Exists
      <3>2. application'[a].vacancy = req[t].vacancy
        BY <2>1, <2>5, <3>1 DEF CommitApply, TablesOK
      <3>3. pc[t] = "commitApply" /\ vacancyStatus[req[t].vacancy] = "active" /\ ~req[t].late
        BY <1>1, <2>5 DEF CommitApply, IInv, LocksOK, ShareLocksOK, SharePcs
      <3>4. QED
        BY <3>1, <3>2, <3>3
    <2>6. QED
      BY <2>3, <2>4, <2>5
  <1>2. IInv /\ [Next]_vars =>
          [\A a \in Apps :
             (~Exists(a) /\ application'[a].status # NoStatus) =>
               /\ vacancyStatus[application'[a].vacancy] = "active"
               /\ \E t \in Txns : pc[t] = "commitApply" /\ req[t].app = a /\ ~req[t].late]_vars
    BY <1>1
  <1>3. QED
    BY <1>2, LocksHold, PTL DEF Spec, ApplyOnlyToOpen

\* BR-07 for every instance.
THEOREM OneActive == Spec => []OneActivePerPair
  <1>1. Init => OneActivePerPair
    BY DEF Init, OneActivePerPair, Exists, NoRow, NoStatus
  <1>2. ASSUME IInv, OneActivePerPair, [Next]_vars PROVE OneActivePerPair'
    <2>1. TablesOK
      BY <1>2 DEF IInv, TypeOK
    <2>2. CASE UNCHANGED application
      BY <1>2, <2>2 DEF OneActivePerPair, Exists
    <2>3. ASSUME NEW a \in Apps, NEW v \in Vacancies, NEW c \in Candidates,
                 ActiveRows(v, c) = {},
                 application' = [application EXCEPT ![a] =
                   [status |-> "submitted", vacancy |-> v, candidate |-> c]]
          PROVE  OneActivePerPair'
      <3>1. /\ application'[a] = [status |-> "submitted", vacancy |-> v, candidate |-> c]
            /\ \A b \in Apps : b # a => application'[b] = application[b]
        BY <2>1, <2>3 DEF TablesOK
      <3>2. \A b \in Apps : ~(/\ application[b].vacancy = v
                             /\ application[b].candidate = c
                             /\ Exists(b)
                             /\ OccupiesActiveSlot(application[b].status))
        BY <2>3 DEF ActiveRows
      <3>3. QED
        BY <1>2, <3>1, <3>2 DEF OneActivePerPair, Exists
    <2>4. ASSUME NEW a \in Apps, NEW to, Exists(a), CanTransition(application[a].status, to),
                 application' = [application EXCEPT ![a].status = to]
          PROVE  OneActivePerPair'
      <3>1. \A b \in Apps :
              /\ application'[b].vacancy = application[b].vacancy
              /\ application'[b].candidate = application[b].candidate
              /\ b # a => application'[b] = application[b]
        BY <2>1, <2>4 DEF TablesOK, Row
      <3>2. OccupiesActiveSlot(application[a].status)
        BY <2>4, MovedSlot
      <3>3. QED
        BY <1>2, <2>4, <3>1, <3>2 DEF OneActivePerPair, Exists
    <2>5. QED
      BY <1>2, <2>1, <2>2, <2>3, <2>4, NextImplements, BoardRows
  <1>3. QED
    BY <1>1, <1>2, LocksHold, PTL DEF Spec

--------------------------------------------------------------------------------
(* The tables against each other *)

\* What a history is after one more row.
LEMMA AppendRow ==
  ASSUME NEW S, NEW q \in Seq(S), NEW e \in S
  PROVE  /\ Append(q, e) \in Seq(S) /\ Append(q, e) # <<>>
         /\ Len(q) \in Nat /\ Len(Append(q, e)) = Len(q) + 1
         /\ Append(q, e)[Len(q) + 1] = e
         /\ \A n \in 1..Len(q) : Append(q, e)[n] = q[n]
  <1>1. /\ Append(q, e) \in Seq(S) /\ Len(q) \in Nat
        /\ Len(Append(q, e)) = Len(q) + 1
    OBVIOUS
  <1>2. Append(q, e) # <<>>
    BY <1>1
  <1>3. Append(q, e)[Len(q) + 1] = e
    OBVIOUS
  <1>4. \A n \in 1..Len(q) : Append(q, e)[n] = q[n]
    OBVIOUS
  <1>5. QED
    BY <1>1, <1>2, <1>3, <1>4

\* A chain of stages stays one under a row that starts where it ends.
Chain(h, status) ==
  /\ status # NoStatus <=> h # <<>>
  /\ h # <<>> => /\ h[1].from = NoStatus /\ h[1].to = "submitted"
                 /\ h[Len(h)].to = status
  /\ \A i \in 2..Len(h) : /\ h[i].from = h[i-1].to
                          /\ CanTransition(h[i].from, h[i].to)

LEMMA ChainGrows ==
  ASSUME NEW h \in Seq(HistoryRow), NEW status, NEW e \in HistoryRow, Chain(h, status),
         IF status = NoStatus THEN e.from = NoStatus /\ e.to = "submitted"
                              ELSE e.from = status /\ CanTransition(e.from, e.to)
  PROVE  Chain(Append(h, e), e.to)
  <1> DEFINE k == Append(h, e)
             n == Len(h)
  <1>1. /\ n \in Nat /\ Len(k) = n + 1 /\ k # <<>> /\ k[n + 1] = e
        /\ \A i \in 1..n : k[i] = h[i]
    BY AppendRow
  <1>2. e.to # NoStatus
    BY DEF HistoryRow, ApplicationStatuses, NoStatus
  <1>3. n = 0 <=> h = <<>>
    OBVIOUS
  <1> HIDE DEF k, n
  <1>4. k[1].from = NoStatus /\ k[1].to = "submitted"
    BY <1>1, <1>3 DEF Chain
  <1>5. ASSUME NEW i \in 2..(n + 1)
        PROVE  k[i].from = k[i-1].to /\ CanTransition(k[i].from, k[i].to)
    <2>1. CASE i \in 2..n
      <3>1. i \in 1..n /\ i - 1 \in 1..n
        BY <1>1, <2>1
      <3>2. h[i].from = h[i-1].to /\ CanTransition(h[i].from, h[i].to)
        BY <2>1 DEF Chain, n
      <3>3. QED
        BY <1>1, <3>1, <3>2
    <2>2. CASE i = n + 1
      <3>1. n \in 1..n /\ i - 1 = n /\ h # <<>>
        BY <1>1, <1>3, <2>2
      <3>2. h[n].to = status /\ status # NoStatus
        BY <3>1 DEF Chain, n
      <3>3. k[i-1] = h[n] /\ k[i] = e
        BY <1>1, <2>2, <3>1
      <3>4. QED
        BY <3>2, <3>3
    <2>3. QED
      BY <1>1, <2>1, <2>2
  <1>6. QED
    BY <1>1, <1>2, <1>4, <1>5 DEF Chain, k

\* The counter, with what makes it a number: the hires of a vacancy stay finite.
HiresCounted ==
  \A v \in Vacancies : IsFiniteSet(Hires(v)) /\ hiredCount[v] = Cardinality(Hires(v))

TablesInv == HiresCounted /\ HistoryIsChain

LEMMA ApplyAgrees ==
  ASSUME TablesOK, TablesInv, NEW a \in Apps, NEW v \in Vacancies, NEW c \in Candidates,
         Board!Apply(a, v, c)
  PROVE  TablesInv'
  <1> DEFINE e == [from |-> NoStatus, to |-> "submitted", role |-> "candidate"]
  <1>1. /\ application[a].status = NoStatus
        /\ application' = [application EXCEPT ![a] =
             [status |-> "submitted", vacancy |-> v, candidate |-> c]]
        /\ stageHistory' = [stageHistory EXCEPT ![a] = Append(@, e)]
        /\ UNCHANGED hiredCount
    BY DEF Board!Apply, Board!Record, NoStatus, Board!NoStatus
  <1>2. e \in HistoryRow /\ e.from = NoStatus /\ e.to = "submitted"
    BY DEF HistoryRow, ApplicationStatuses
  <1> HIDE DEF e
  <1>3. HiresCounted'
    <2>1. \A w \in Vacancies : Hires(w)' = Hires(w)
      BY <1>1 DEF Hires, TablesOK, NoStatus
    <2>2. QED
      BY <1>1, <2>1 DEF TablesInv, HiresCounted
  <1>4. ASSUME NEW b \in Apps PROVE Chain(stageHistory'[b], application'[b].status)
    <2>1. Chain(stageHistory[b], application[b].status) /\ stageHistory[b] \in Seq(HistoryRow)
      BY DEF TablesInv, HistoryIsChain, Chain, Exists, TablesOK
    <2>2. CASE b = a
      BY <1>1, <1>2, <2>1, <2>2, ChainGrows DEF TablesOK
    <2>3. CASE b # a
      BY <1>1, <2>1, <2>3 DEF TablesOK
    <2>4. QED
      BY <2>2, <2>3
  <1>5. HistoryIsChain'
    BY <1>4 DEF HistoryIsChain, Chain, Exists
  <1>6. QED
    BY <1>3, <1>5 DEF TablesInv

LEMMA MoveAgrees ==
  ASSUME TablesOK, RowsOK, TablesInv, NEW a \in Apps, NEW to \in ApplicationStatuses,
         Board!Move(a, to)
  PROVE  TablesInv'
  <1> DEFINE e == [from |-> application[a].status, to |-> to, role |-> ActorFor(to)]
             v == application[a].vacancy
  <1>1. /\ Exists(a) /\ CanTransition(application[a].status, to)
        /\ application' = [application EXCEPT ![a].status = to]
        /\ stageHistory' = [stageHistory EXCEPT ![a] = Append(@, e)]
        /\ hiredCount' = IF to = "hired" THEN [hiredCount EXCEPT ![v] = @ + 1]
                                         ELSE hiredCount
    BY DEF Board!Move, Board!Record, Exists, NoStatus, Board!NoStatus, CanTransition,
           Board!CanTransition, IsTerminal, Board!IsTerminal, Terminal, Board!Terminal,
           Precedes, Board!Precedes, Progression, Board!Progression, ActorFor,
           Board!ActorFor
  <1>2. to # "submitted"
    BY <1>1 DEF CanTransition, Precedes, Progression
  <1>3. e \in HistoryRow /\ e.from = application[a].status /\ e.to = to
    BY <1>2 DEF HistoryRow, ActorFor, TablesOK, Row
  <1>4. v \in Vacancies /\ application[a].status # "hired"
    BY <1>1 DEF RowsOK, CanTransition, IsTerminal, Terminal
  <1>5. \A b \in Apps : /\ application'[b].vacancy = application[b].vacancy
                       /\ application'[b].status
                            = IF b = a THEN to ELSE application[b].status
    BY <1>1 DEF TablesOK, Row
  <1> HIDE DEF e
  <1>6. ASSUME NEW w \in Vacancies
        PROVE  IsFiniteSet(Hires(w)') /\ hiredCount'[w] = Cardinality(Hires(w)')
    <2>1. IsFiniteSet(Hires(w)) /\ hiredCount[w] = Cardinality(Hires(w))
      BY DEF TablesInv, HiresCounted
    <2>2. CASE to = "hired" /\ w = v
      <3>1. Hires(w)' = Hires(w) \cup {a} /\ a \notin Hires(w)
        BY <1>4, <1>5, <2>2 DEF Hires
      <3>2. hiredCount'[w] = hiredCount[w] + 1
        BY <1>1, <1>4, <2>2 DEF TablesOK
      <3>3. QED
        BY <2>1, <3>1, <3>2, FS_AddElement
    <2>3. CASE to # "hired" \/ w # v
      <3>1. Hires(w)' = Hires(w)
        BY <1>4, <1>5, <2>3 DEF Hires
      <3>2. hiredCount'[w] = hiredCount[w]
        BY <1>1, <1>4, <2>3 DEF TablesOK
      <3>3. QED
        BY <2>1, <3>1, <3>2
    <2>4. QED
      BY <2>2, <2>3
  <1>7. ASSUME NEW b \in Apps PROVE Chain(stageHistory'[b], application'[b].status)
    <2>1. Chain(stageHistory[b], application[b].status) /\ stageHistory[b] \in Seq(HistoryRow)
      BY DEF TablesInv, HistoryIsChain, Chain, Exists, TablesOK
    <2>2. CASE b = a
      <3>1. stageHistory'[b] = Append(stageHistory[b], e) /\ application'[b].status = to
        BY <1>1, <1>5, <2>2 DEF TablesOK
      <3>2. application[b].status # NoStatus
        BY <1>1, <2>2 DEF Exists
      <3>3. QED
        BY <1>1, <1>3, <2>1, <2>2, <3>1, <3>2, ChainGrows
    <2>3. CASE b # a
      BY <1>1, <1>5, <2>1, <2>3 DEF TablesOK
    <2>4. QED
      BY <2>2, <2>3
  <1>8. HiresCounted'
    BY <1>6 DEF HiresCounted
  <1>9. HistoryIsChain'
    BY <1>7 DEF HistoryIsChain, Chain, Exists
  <1>10. QED
    BY <1>8, <1>9 DEF TablesInv

\* BR-08 and the hire counter: every application's history is the unbroken chain of its
\* stages, and the counter is the number of hires, however many hires of one vacancy
\* run at once beside the writers of its row.
THEOREM TablesAlwaysAgree == Spec => []TablesAgree
  <1>1. Init => TablesInv
    <2> SUFFICES ASSUME Init PROVE TablesInv
      OBVIOUS
    <2>1. \A v \in Vacancies : Hires(v) = {} /\ hiredCount[v] = 0
      BY DEF Init, NoRow, Hires, NoStatus
    <2>2. HiresCounted
      BY <2>1, FS_EmptySet DEF HiresCounted
    <2>3. ASSUME NEW a \in Apps
          PROVE  /\ ~Exists(a) /\ stageHistory[a] = <<>> /\ 2..Len(stageHistory[a]) = {}
      <3>1. ~Exists(a) /\ stageHistory[a] = <<>>
        BY DEF Init, NoRow, Exists
      <3>2. Len(stageHistory[a]) = 0
        BY <3>1
      <3>3. QED
        BY <3>1, <3>2
    <2>4. HistoryIsChain
      BY <2>3 DEF HistoryIsChain
    <2>5. QED
      BY <2>2, <2>4 DEF TablesInv
  <1>2. ASSUME IInv, TablesInv, [Next]_vars PROVE TablesInv'
    <2>1. TablesOK /\ RowsOK
      BY <1>2 DEF IInv, TypeOK
    <2>2. CASE UNCHANGED <<hiredCount, application, stageHistory>>
      BY <1>2, <2>2 DEF TablesInv, HiresCounted, Hires, HistoryIsChain, Exists
    <2>3. UNCHANGED Board!board => UNCHANGED <<hiredCount, application, stageHistory>>
      BY DEF Board!board
    <2>4. QED
      BY <1>2, <2>1, <2>2, <2>3, NextImplements, ApplyAgrees, MoveAgrees
         DEF Board!Next, Board!AddInterview, Board!SetVacancyStatus, ApplicationStatuses,
             Board!ApplicationStatuses
  <1>3. TablesInv => TablesAgree
    BY DEF TablesInv, HiresCounted, TablesAgree, HiredCountAgrees
  <1>4. QED
    BY <1>1, <1>2, <1>3, LocksHold, PTL DEF Spec
================================================================================
