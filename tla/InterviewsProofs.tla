---------------------------- MODULE InterviewsProofs ----------------------------
(***************************************************************************)
(* Proofs about Interviews for every number of interviews and requests:    *)
(* the blind writes by id agree with the CHECKs and with the history       *)
(* because of what every request was let through with (RequestOK), and     *)
(* because an interview, once there, stays.                                *)
(***************************************************************************)
EXTENDS Interviews, TLAPS

\* What a history is after one more row.
LEMMA AppendRow ==
  ASSUME NEW S, NEW q \in Seq(S), NEW e \in S
  PROVE  /\ Append(q, e) \in Seq(S) /\ Append(q, e) # <<>>
         /\ Len(q) \in Nat /\ Len(Append(q, e)) = Len(q) + 1
         /\ Append(q, e)[Len(q) + 1] = e
         /\ \A n \in 1..Len(q) : Append(q, e)[n] = q[n]
  <1>1. /\ Append(q, e) \in Seq(S) /\ Len(q) \in Nat
        /\ Len(Append(q, e)) = Len(q) + 1
    OBVIOUS
  <1>2. Append(q, e) # <<>>
    BY <1>1
  <1>3. Append(q, e)[Len(q) + 1] = e
    OBVIOUS
  <1>4. \A n \in 1..Len(q) : Append(q, e)[n] = q[n]
    OBVIOUS
  <1>5. QED
    BY <1>1, <1>2, <1>3, <1>4

LEMMA InitInv == Init => IInv
  <1> SUFFICES ASSUME Init PROVE IInv
    OBVIOUS
  <1> USE DEF Init, Exists, NoRow
  <1>1. TypeOK
    <2>1. NoRequest \in Request /\ NoRow \in Row /\ <<>> \in Seq(HistoryRow)
      BY DEF NoRequest, Request, Row
    <2>2. QED
      BY <2>1 DEF TypeOK
  <1>2. \A t \in Txns : RequestOK(t)
    BY DEF RequestOK
  <1>3. RespondedMatchesStatus /\ DetailsMatchType
    BY DEF RespondedMatchesStatus, DetailsMatchType
  <1>4. HistoryRecordsStatus
    <2> SUFFICES ASSUME NEW i \in Interviews
                 PROVE  ~Exists(i) /\ history[i] = <<>> /\ 2..Len(history[i]) = {}
      BY DEF HistoryRecordsStatus
    <2>1. ~Exists(i) /\ history[i] = <<>>
      OBVIOUS
    <2>2. Len(history[i]) = 0
      BY <2>1
    <2>3. QED
      BY <2>1, <2>2
  <1>5. QED
    BY <1>1, <1>2, <1>3, <1>4 DEF IInv, ChecksHold

\* A request that is refused, rolled back or arrives writes no row: it owes the
\* rest its own part alone.
LEMMA StepFrame ==
  ASSUME IInv, NEW t \in Txns, UNCHANGED <<interview, history>>, TypeOK', RequestOK(t)',
         \A u \in Txns : u # t => pc'[u] = pc[u] /\ req'[u] = req[u]
  PROVE  IInv'
  <1>1. RespondedMatchesStatus' /\ DetailsMatchType' /\ HistoryRecordsStatus'
    BY DEF IInv, ChecksHold, RespondedMatchesStatus, DetailsMatchType,
           HistoryRecordsStatus, Exists
  <1>2. ASSUME NEW u \in Txns, u # t PROVE RequestOK(u)'
    BY <1>2 DEF IInv, ChecksHold, RequestOK, Exists
  <1>3. QED
    BY <1>1, <1>2 DEF IInv, ChecksHold

LEMMA ArriveInv ==
  ASSUME IInv, NEW t \in Txns, NEW p \in {"schedule", "reschedule", "setStatus"},
         NEW r \in Request, Arrive(t, p, r),
         p \in {"schedule", "reschedule"} => r.details \in Details /\ DetailsAllowed(r.details),
         p \in {"reschedule", "setStatus"} =>
           r.interview \in Interviews /\ Exists(r.interview) /\ ~IsTerminal(r.from),
         p = "setStatus" => \/ r.role = "employer" /\ r.to = "cancelled"
                            \/ r.role = "candidate" /\ CanRespond(r.from, r.to)
  PROVE  IInv'
  <1>1. TypeOK
    BY DEF IInv, ChecksHold
  <1>2. /\ pc'[t] = p /\ req'[t] = r
        /\ \A u \in Txns : u # t => pc'[u] = pc[u] /\ req'[u] = req[u]
    BY <1>1 DEF TypeOK, Arrive
  <1>3. TypeOK'
    BY <1>1, BoundAssumption DEF TypeOK, Arrive
  <1>4. RequestOK(t)'
    BY <1>2 DEF RequestOK, Arrive, Exists
  <1>5. QED
    BY <1>2, <1>3, <1>4, StepFrame DEF Arrive

LEMMA BeginInv ==
  ASSUME IInv, NEW t \in Txns, Begin(t)
  PROVE  IInv'
  <1>1. TypeOK
    BY DEF IInv, ChecksHold
  <1>2. ASSUME NEW time \in Times, NEW d \in Offers, BeginSchedule(t, time, d) PROVE IInv'
    <2> DEFINE r == [NoRequest EXCEPT !.time = time, !.details = d]
    <2>1. r \in Request /\ r.details = d /\ d \in Details
      BY OffersAssumption DEF NoRequest, Request
    <2>2. QED
      BY <1>2, <2>1, ArriveInv DEF BeginSchedule
  <1>3. ASSUME NEW i \in Interviews, NEW time \in Times, NEW d \in Offers,
               BeginReschedule(t, i, time, d)
        PROVE  IInv'
    <2> DEFINE r == [Read(i, "employer") EXCEPT !.time = time, !.details = d,
                                                !.to = "scheduled"]
    <2>1. /\ r \in Request /\ r.details = d /\ d \in Details
          /\ r.interview = i /\ r.from = interview[i].status
      BY <1>1, OffersAssumption
         DEF TypeOK, Row, Read, NoRequest, Request, InterviewStatuses
    <2>2. QED
      BY <1>3, <2>1, ArriveInv DEF BeginReschedule
  <1>4. ASSUME NEW i \in Interviews, BeginCancel(t, i) PROVE IInv'
    <2> DEFINE r == [Read(i, "employer") EXCEPT !.to = "cancelled"]
    <2>1. /\ r \in Request /\ r.role = "employer" /\ r.to = "cancelled"
          /\ r.interview = i /\ r.from = interview[i].status
      BY <1>1 DEF TypeOK, Row, Read, NoRequest, Request, InterviewStatuses
    <2>2. QED
      BY <1>4, <2>1, ArriveInv DEF BeginCancel
  <1>5. ASSUME NEW i \in Interviews, NEW to \in CandidateResponses, BeginRespond(t, i, to)
        PROVE  IInv'
    <2> DEFINE r == [Read(i, "candidate") EXCEPT !.to = to]
    <2>1. /\ r \in Request /\ r.role = "candidate" /\ r.to = to
          /\ r.interview = i /\ r.from = interview[i].status
      BY <1>1 DEF TypeOK, Row, Read, NoRequest, Request, InterviewStatuses,
                  CandidateResponses
    <2>2. QED
      BY <1>5, <2>1, ArriveInv DEF BeginRespond, CanRespond
  <1>6. QED
    BY <1>2, <1>3, <1>4, <1>5 DEF Begin

LEMMA RollBackInv ==
  ASSUME IInv, NEW t \in Txns, RollBack(t)
  PROVE  IInv'
  <1>1. TypeOK
    BY DEF IInv, ChecksHold
  <1>2. /\ pc'[t] = "idle" /\ UNCHANGED <<interview, history>>
        /\ \A u \in Txns : u # t => pc'[u] = pc[u] /\ req'[u] = req[u]
    BY <1>1 DEF TypeOK, RollBack, Finish
  <1>3. TypeOK'
    <2>1. NoRequest \in Request
      BY DEF NoRequest, Request
    <2>2. QED
      BY <1>1, <2>1 DEF TypeOK, RollBack, Finish
  <1>4. RequestOK(t)'
    BY <1>2 DEF RequestOK
  <1>5. QED
    BY <1>2, <1>3, <1>4, StepFrame
\* The end of a request that writes row r on interview i with its history row h: the
\* row must satisfy the CHECKs, and the history row, unless it is the first, its rule.
LEMMA CommitRow ==
  ASSUME IInv, NEW t \in Txns, NEW i \in Interviews, NEW r \in Row, NEW h \in HistoryRow,
         Finish(t),
         interview' = [interview EXCEPT ![i] = r],
         history' = [history EXCEPT ![i] = Append(@, h)],
         r.status # NoStatus, h.to = r.status,
         r.status = "scheduled" <=> ~r.responded,
         r.details \in Details, DetailsAllowed(r.details), LocationMatchesType(r.details),
         Exists(i) => /\ ~IsTerminal(h.from)
                      /\ h.role = "candidate" => /\ h.to \in CandidateResponses
                                                 /\ h.to # h.from
                      /\ h.role = "employer" => h.to \in {"scheduled", "cancelled"}
  PROVE  IInv'
  <1>1. TypeOK /\ HistoryRecordsStatus
    BY DEF IInv, ChecksHold
  <1>2. /\ interview'[i] = r /\ history'[i] = Append(history[i], h)
        /\ \A j \in Interviews : j # i => /\ interview'[j] = interview[j]
                                         /\ history'[j] = history[j]
        /\ pc'[t] = "idle"
        /\ \A u \in Txns : u # t => pc'[u] = pc[u] /\ req'[u] = req[u]
    BY <1>1 DEF TypeOK, Finish
  <1>3. TypeOK'
    <2>1. NoRequest \in Request
      BY DEF NoRequest, Request
    <2>2. Append(history[i], h) \in Seq(HistoryRow)
      BY <1>1 DEF TypeOK
    <2>3. QED
      BY <1>1, <2>1, <2>2 DEF TypeOK, Finish
  <1>4. ASSUME NEW u \in Txns PROVE RequestOK(u)'
    <2>1. CASE u = t
      BY <1>2, <2>1 DEF RequestOK
    <2>2. CASE u # t
      BY <1>2, <2>2 DEF IInv, ChecksHold, RequestOK, Exists
    <2>3. QED
      BY <2>1, <2>2
  <1>5. RespondedMatchesStatus'
    BY <1>2 DEF IInv, ChecksHold, RespondedMatchesStatus, Exists
  <1>6. DetailsMatchType'
    <2>1. /\ r.details.location = IF r.details.type = "in_person" THEN "given" ELSE "absent"
          /\ r.details.meetingLink
               = IF r.details.type = "external_link" THEN "given" ELSE "absent"
      BY DEF Details, Texts, DetailsAllowed, LocationMatchesType
    <2>2. QED
      BY <1>2, <2>1, NullAssumption DEF IInv, ChecksHold, DetailsMatchType, Exists
  <1>7. HistoryRecordsStatus'
    <2> SUFFICES ASSUME NEW j \in Interviews
                 PROVE  /\ Exists(j)' <=> history'[j] # <<>>
                        /\ history'[j] # <<>> =>
                             history'[j][Len(history'[j])].to = interview'[j].status
                        /\ \A n \in 2..Len(history'[j]) :
                             /\ ~IsTerminal(history'[j][n].from)
                             /\ history'[j][n].role = "candidate" =>
                                  /\ history'[j][n].to \in CandidateResponses
                                  /\ history'[j][n].to # history'[j][n].from
                             /\ history'[j][n].role = "employer" =>
                                  history'[j][n].to \in {"scheduled", "cancelled"}
      BY DEF HistoryRecordsStatus
    <2>1. CASE j # i
      BY <1>1, <1>2, <2>1 DEF HistoryRecordsStatus, Exists
    <2>2. CASE j = i
      <3> DEFINE old == history[i]
      <3>1. /\ old \in Seq(HistoryRow) /\ history'[i] = Append(old, h)
            /\ Exists(i) <=> old # <<>>
        BY <1>1, <1>2 DEF TypeOK, HistoryRecordsStatus
      <3> HIDE DEF old
      <3>2. /\ Len(history'[i]) = Len(old) + 1 /\ history'[i] # <<>>
            /\ history'[i][Len(old) + 1] = h
            /\ \A n \in 1..Len(old) : history'[i][n] = old[n]
            /\ Len(old) \in Nat
        BY <3>1, AppendRow
      <3>3. ASSUME NEW n \in 2..Len(old)
            PROVE  /\ ~IsTerminal(old[n].from)
                   /\ old[n].role = "candidate" => /\ old[n].to \in CandidateResponses
                                                   /\ old[n].to # old[n].from
                   /\ old[n].role = "employer" => old[n].to \in {"scheduled", "cancelled"}
        BY <1>1 DEF HistoryRecordsStatus, old
      <3>4. 2 \in 2..Len(old) + 1 => Exists(i)
        BY <3>1, <3>2
      <3>5. ASSUME NEW n \in 2..Len(old) + 1
            PROVE  n \in 2..Len(old) \/ (n = Len(old) + 1 /\ Exists(i))
        BY <3>1, <3>2, <3>4
      <3>6. QED
        BY <1>2, <2>2, <3>2, <3>3, <3>5 DEF Exists
    <2>3. QED
      BY <2>1, <2>2
  <1>8. QED
    BY <1>3, <1>4, <1>5, <1>6, <1>7 DEF IInv, ChecksHold

LEMMA CommitScheduleInv ==
  ASSUME IInv, NEW t \in Txns, CommitSchedule(t)
  PROVE  IInv'
  <1>1. TypeOK /\ RequestOK(t) /\ pc[t] = "schedule"
    BY DEF IInv, ChecksHold, CommitSchedule
  <1>2. CASE RollBack(t)
    BY <1>2, RollBackInv
  <1>3. CASE ~RollBack(t)
    <2>1. PICK i \in Interviews :
            /\ LocationMatchesType(req[t].details) /\ ~Exists(i) /\ Finish(t)
            /\ interview' = [interview EXCEPT ![i] = Asked(t)]
            /\ WriteHistory(i, NoStatus, "scheduled", "employer")
      BY <1>3 DEF CommitSchedule
    <2>2. /\ Asked(t) \in Row /\ Asked(t).status = "scheduled" /\ ~Asked(t).responded
          /\ Asked(t).details = req[t].details
      BY <1>1 DEF TypeOK, Request, Asked, Row, InterviewStatuses
    <2> DEFINE h == [from |-> NoStatus, to |-> "scheduled", role |-> "employer"]
    <2>3. h \in HistoryRow /\ h.to = "scheduled"
      BY DEF HistoryRow, InterviewStatuses
    <2>4. QED
      BY <1>1, <2>1, <2>2, <2>3, CommitRow DEF RequestOK, WriteHistory, NoStatus
  <1>4. QED
    BY <1>2, <1>3

LEMMA CommitRescheduleInv ==
  ASSUME IInv, NEW t \in Txns, CommitReschedule(t)
  PROVE  IInv'
  <1>1. TypeOK /\ RequestOK(t) /\ pc[t] = "reschedule"
    BY DEF IInv, ChecksHold, CommitReschedule
  <1>2. CASE RollBack(t)
    BY <1>2, RollBackInv
  <1>3. CASE ~RollBack(t)
    <2> DEFINE i == req[t].interview
               h == [from |-> req[t].from, to |-> "scheduled", role |-> "employer"]
    <2>1. /\ LocationMatchesType(req[t].details) /\ Finish(t) /\ i \in Interviews
          /\ interview' = [interview EXCEPT ![i] = Asked(t)]
          /\ history' = [history EXCEPT ![i] = Append(@, h)]
      BY <1>1, <1>3 DEF CommitReschedule, RequestOK, WriteHistory
    <2>2. /\ Asked(t) \in Row /\ Asked(t).status = "scheduled" /\ ~Asked(t).responded
          /\ Asked(t).details = req[t].details
      BY <1>1 DEF TypeOK, Request, Asked, Row, InterviewStatuses
    <2>3. h \in HistoryRow /\ h.to = "scheduled" /\ h.role = "employer"
          /\ h.from = req[t].from
      BY <1>1 DEF TypeOK, Request, HistoryRow, InterviewStatuses
    <2>4. QED
      BY <1>1, <2>1, <2>2, <2>3, CommitRow DEF RequestOK, NoStatus
  <1>4. QED
    BY <1>2, <1>3

LEMMA CommitSetStatusInv ==
  ASSUME IInv, NEW t \in Txns, CommitSetStatus(t)
  PROVE  IInv'
  <1> DEFINE i == req[t].interview
             to == req[t].to
             r == WithStatus(interview[i], to, req[t].role)
             h == [from |-> req[t].from, to |-> to, role |-> req[t].role]
  <1>1. /\ TypeOK /\ RequestOK(t) /\ DetailsMatchType /\ pc[t] = "setStatus"
        /\ i \in Interviews /\ Exists(i) /\ Finish(t)
        /\ interview' = [interview EXCEPT ![i] = r]
        /\ history' = [history EXCEPT ![i] = Append(@, h)]
    BY DEF IInv, ChecksHold, CommitSetStatus, RequestOK, WriteHistory
  <1>2. /\ \/ req[t].role = "employer" /\ to = "cancelled"
           \/ /\ req[t].role = "candidate" /\ to \in CandidateResponses
              /\ to # req[t].from
        /\ ~IsTerminal(req[t].from)
    BY <1>1 DEF RequestOK, CanRespond
  <1>3. to \in {"cancelled", "confirmed", "reschedule_requested"}
    BY <1>2 DEF CandidateResponses
  <1>4. interview[i] \in Row /\ interview[i].details \in Details
    <2>1. interview[i] \in Row
      BY <1>1 DEF TypeOK
    <2>2. QED
      BY <1>1, <2>1 DEF DetailsMatchType, Row
  <1>5. /\ r \in Row /\ r.status = to /\ r.responded
        /\ r.details = interview[i].details
    BY <1>3, <1>4 DEF WithStatus, Row, InterviewStatuses
  <1>6. DetailsAllowed(r.details) /\ LocationMatchesType(r.details)
    BY <1>1, <1>4, <1>5 DEF DetailsMatchType, DetailsAllowed, LocationMatchesType
  <1>7. h \in HistoryRow /\ h.to = to /\ h.role = req[t].role /\ h.from = req[t].from
    BY <1>1, <1>3 DEF TypeOK, Request, HistoryRow, InterviewStatuses
  <1> HIDE DEF r, h
  <1>8. QED
    BY <1>1, <1>2, <1>3, <1>4, <1>5, <1>6, <1>7, CommitRow DEF NoStatus

THEOREM Invariance == Spec => []IInv
  <1>1. IInv /\ UNCHANGED vars => IInv'
    BY DEF vars, IInv, ChecksHold, TypeOK, RequestOK, RespondedMatchesStatus,
           DetailsMatchType, HistoryRecordsStatus, Exists
  <1>2. ASSUME IInv, NEW t \in Txns,
               \/ Begin(t)
               \/ CommitSchedule(t) \/ CommitReschedule(t) \/ CommitSetStatus(t)
               \/ Crash(t)
        PROVE  IInv'
    BY <1>2, BeginInv, CommitScheduleInv, CommitRescheduleInv, CommitSetStatusInv,
       RollBackInv DEF Crash
  <1>3. IInv /\ [Next]_vars => IInv'
    BY <1>1, <1>2 DEF Next
  <1>4. QED
    BY InitInv, <1>3, PTL DEF Spec

\* Whoever overwrites whom, no CHECK of the table ever aborts what a request has
\* decided, and every stored interview can be attended.
THEOREM ChecksAlwaysHold == Spec => []ChecksHold
  <1>1. IInv => ChecksHold
    BY DEF IInv
  <1>2. QED
    BY Invariance, <1>1, PTL

\* BR-08: an interview's status is the one its last history row names, and every row
\* after the first was allowed to its actor when the request was read.
THEOREM HistoryAlwaysRecordsStatus == Spec => []HistoryRecordsStatus
  <1>1. IInv => HistoryRecordsStatus
    BY DEF IInv
  <1>2. QED
    BY Invariance, <1>1, PTL
================================================================================
