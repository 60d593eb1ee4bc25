----------------------------- MODULE ListingsProofs -----------------------------
(***************************************************************************)
(* Proofs about Listings for every number of vacancies, candidates and     *)
(* requests: which of a vacancy's columns the blind writers of             *)
(* VacanciesService may disturb, and what people keep beside them.         *)
(***************************************************************************)
EXTENDS Listings, TLAPS

--------------------------------------------------------------------------------
(* The vacancy rows *)

\* What a history is after one more row.
LEMMA AppendRow ==
  ASSUME NEW S, NEW q \in Seq(S), NEW e \in S
  PROVE  /\ Append(q, e) \in Seq(S) /\ Append(q, e) # <<>>
         /\ Len(q) \in Nat /\ Len(Append(q, e)) = Len(q) + 1
         /\ Append(q, e)[Len(q) + 1] = e
         /\ \A n \in 1..Len(q) : Append(q, e)[n] = q[n]
  <1>1. /\ Append(q, e) \in Seq(S) /\ Len(q) \in Nat
        /\ Len(Append(q, e)) = Len(q) + 1
    OBVIOUS
  <1>2. Append(q, e) # <<>>
    BY <1>1
  <1>3. Append(q, e)[Len(q) + 1] = e
    OBVIOUS
  <1>4. \A n \in 1..Len(q) : Append(q, e)[n] = q[n]
    OBVIOUS
  <1>5. QED
    BY <1>1, <1>2, <1>3, <1>4

LEMMA Constants ==
  /\ NoRequest \in Request /\ NoRow \in Row
  /\ \A a, b : VacancyCanTransition(a, b) =>
       a \in VacancyStatuses \ {"closed"} /\ b \in VacancyStatuses
  /\ NoStatus \notin VacancyStatuses
  <1>1. NoRequest \in Request /\ NoRow \in Row
    BY DEF NoRequest, Request, NoRow, Row, Restrictions
  <1>2. \A a, b : VacancyCanTransition(a, b) =>
          a \in VacancyStatuses \ {"closed"} /\ b \in VacancyStatuses
    BY DEF VacancyCanTransition, VacancyTransitions, VacancyStatuses
  <1>3. NoStatus \notin VacancyStatuses
    BY DEF NoStatus, VacancyStatuses
  <1>4. QED
    BY <1>1, <1>2, <1>3

LEMMA InitInv == Init => IInv
  <1> SUFFICES ASSUME Init PROVE IInv
    OBVIOUS
  <1> USE DEF Init, Exists, NoRow
  <1>1. TypeOK
    BY Constants DEF TypeOK
  <1>2. RequestsOK
    BY DEF RequestsOK, RequestOK
  <1>3. ChecksHold
    BY DEF ChecksHold, NoStatus
  <1>4. HistoryRecordsStatus /\ PublishedOnce
    <2>1. ASSUME NEW v \in Vacancies
          PROVE  /\ ~Exists(v) /\ vacancy[v].publishedAt = 0 /\ history[v] = <<>>
                 /\ 1..Len(history[v]) = {} /\ 2..Len(history[v]) = {}
      <3>1. ~Exists(v) /\ vacancy[v].publishedAt = 0 /\ history[v] = <<>>
        OBVIOUS
      <3>2. Len(history[v]) = 0
        BY <3>1
      <3>3. QED
        BY <3>1, <3>2
    <2> HIDE DEF Init, Exists
    <2>2. QED
      BY <2>1 DEF HistoryRecordsStatus, PublishedOnce
  <1>5. QED
    BY <1>1, <1>2, <1>3, <1>4 DEF IInv

\* A request that arrives, is refused or dies writes no row: it owes the rest its own
\* part alone.
LEMMA StepFrame ==
  ASSUME IInv, NEW t \in Txns, UNCHANGED <<vacancy, history>>, TypeOK', RequestOK(t)',
         \A u \in Txns : u # t => pc'[u] = pc[u] /\ req'[u] = req[u]
  PROVE  IInv'
  <1>1. ChecksHold' /\ HistoryRecordsStatus' /\ PublishedOnce'
    BY DEF IInv, ChecksHold, HistoryRecordsStatus, PublishedOnce, Exists
  <1>2. ASSUME NEW u \in Txns, u # t PROVE RequestOK(u)'
    BY <1>2 DEF IInv, RequestsOK, RequestOK, Exists
  <1>3. QED
    BY <1>1, <1>2 DEF IInv, RequestsOK

LEMMA FinishInv ==
  ASSUME IInv, NEW t \in Txns, Finish(t), UNCHANGED <<vacancy, history>>
  PROVE  IInv'
  <1>1. /\ pc'[t] = "idle"
        /\ \A u \in Txns : u # t => pc'[u] = pc[u] /\ req'[u] = req[u]
    BY DEF IInv, TypeOK, Finish
  <1>2. TypeOK'
    BY Constants DEF IInv, TypeOK, Finish
  <1>3. RequestOK(t)'
    BY <1>1 DEF RequestOK
  <1>4. QED
    BY <1>1, <1>2, <1>3, StepFrame

LEMMA ArriveInv ==
  ASSUME IInv, NEW t \in Txns, NEW p \in {"patch", "status"}, NEW r \in Request,
         NEW v \in Vacancies, Arrive(t, p, r), Exists(v),
         r.vacancy = v, r.from = vacancy[v].status,
         p = "patch" => IsEditable(r.from),
         p = "status" => r.to # NoStatus
  PROVE  IInv'
  <1>1. /\ pc'[t] = p /\ req'[t] = r
        /\ \A u \in Txns : u # t => pc'[u] = pc[u] /\ req'[u] = req[u]
    BY DEF IInv, TypeOK, Arrive
  <1>2. TypeOK'
    BY BoundAssumption DEF IInv, TypeOK, Arrive
  <1>3. RequestOK(t)'
    BY <1>1 DEF RequestOK, Arrive, Exists, IInv, ChecksHold
  <1>4. QED
    BY <1>1, <1>2, <1>3, StepFrame DEF Arrive

LEMMA BeginInv ==
  ASSUME IInv, NEW t \in Txns, NEW v \in Vacancies, Begin(t, v)
  PROVE  IInv'
  <1>1. vacancy[v] \in Row /\ vacancy[v].status \in VacancyStatuses \cup {NoStatus}
    BY DEF IInv, TypeOK, Row
  <1>2. ASSUME NEW r \in Restrictions \cup {Null}, BeginPatch(t, v, r) PROVE IInv'
    <2> DEFINE q == [NoRequest EXCEPT !.vacancy = v, !.from = vacancy[v].status,
                                      !.restriction = r]
    <2>1. q \in Request /\ q.vacancy = v /\ q.from = vacancy[v].status
      BY <1>1 DEF NoRequest, Request
    <2>2. Exists(v)
      BY <1>2 DEF BeginPatch, IsEditable, Exists, NoStatus
    <2>3. QED
      BY <1>2, <2>1, <2>2, ArriveInv DEF BeginPatch
  <1>3. ASSUME NEW to \in VacancyStatuses, NEW role \in {"employer", "admin"}, Exists(v),
               Arrive(t, "status", [NoRequest EXCEPT !.vacancy = v,
                                                     !.from = vacancy[v].status,
                                                     !.to = to, !.role = role])
        PROVE  IInv'
    <2> DEFINE q == [NoRequest EXCEPT !.vacancy = v, !.from = vacancy[v].status,
                                      !.to = to, !.role = role]
    <2>1. q \in Request /\ q.vacancy = v /\ q.from = vacancy[v].status /\ q.to = to
      BY <1>1 DEF NoRequest, Request
    <2>2. QED
      BY <1>3, <2>1, Constants, ArriveInv
  <1>4. ASSUME NEW to \in VacancyStatuses, Exists(v),
               Arrive(t, "status", [NoRequest EXCEPT !.vacancy = v,
                                                     !.from = vacancy[v].status,
                                                     !.to = to])
        PROVE  IInv'
    <2> DEFINE q == [NoRequest EXCEPT !.vacancy = v, !.from = vacancy[v].status,
                                      !.to = to]
    <2>1. q \in Request /\ q.vacancy = v /\ q.from = vacancy[v].status /\ q.to = to
      BY <1>1 DEF NoRequest, Request
    <2>2. QED
      BY <1>4, <2>1, Constants, ArriveInv
  <1>5. ASSUME BeginSubmit(t, v) PROVE IInv'
    <2>1. Exists(v) /\ SubmitTarget(vacancy[v].restriction) \in VacancyStatuses
      BY <1>5 DEF BeginSubmit, CanSubmitFrom, Exists, NoStatus, SubmitTarget, VacancyStatuses
    <2>2. QED
      BY <1>4, <1>5, <2>1 DEF BeginSubmit
  <1>6. ASSUME NEW d \in {"active", "rejected"}, BeginModerate(t, v, d) PROVE IInv'
    <2>1. Exists(v) /\ d \in VacancyStatuses
      BY <1>6 DEF BeginModerate, Exists, NoStatus, VacancyStatuses
    <2>2. QED
      BY <1>3, <1>6, <2>1 DEF BeginModerate
  <1>7. ASSUME NEW to \in {"active", "paused", "closed"}, BeginChangeStatus(t, v, to)
        PROVE  IInv'
    <2>1. Exists(v) /\ to \in VacancyStatuses
      BY <1>7, Constants DEF BeginChangeStatus, Exists
    <2>2. QED
      BY <1>4, <1>7, <2>1 DEF BeginChangeStatus
  <1>8. QED
    BY <1>2, <1>5, <1>6, <1>7 DEF Begin

\* One more history row h on vacancy v, whose row becomes r: the columns that h's
\* status and the stamp of the first publication decide.
LEMMA WriteRow ==
  ASSUME IInv, NEW v \in Vacancies, NEW r \in Row, NEW h \in HistoryRow,
         vacancy' = [vacancy EXCEPT ![v] = r],
         history' = [history EXCEPT ![v] = Append(@, h)],
         h.to = r.status,
         r.publishedAt = IF h.to = "active" /\ vacancy[v].publishedAt = 0
                         THEN Len(history[v]) + 1 ELSE vacancy[v].publishedAt,
         r.closedAt = (h.to = "closed"),
         h.to \in {"paused", "closed"} => vacancy[v].publishedAt > 0,
         Exists(v) => VacancyCanTransition(h.from, h.to)
  PROVE  /\ vacancy' \in [Vacancies -> Row] /\ history' \in [Vacancies -> Seq(HistoryRow)]
         /\ ChecksHold' /\ HistoryRecordsStatus' /\ PublishedOnce'
  <1> DEFINE old == history[v]
  <1>1. /\ vacancy'[v] = r /\ history'[v] = Append(old, h)
        /\ \A w \in Vacancies : w # v => vacancy'[w] = vacancy[w] /\ history'[w] = history[w]
        /\ old \in Seq(HistoryRow)
        /\ vacancy[v].publishedAt \in Nat /\ h.to \in VacancyStatuses
    BY DEF IInv, TypeOK, HistoryRow, Row
  <1>2. /\ Append(old, h) \in Seq(HistoryRow) /\ Append(old, h) # <<>>
        /\ Len(old) \in Nat /\ Len(Append(old, h)) = Len(old) + 1
        /\ Append(old, h)[Len(old) + 1] = h
        /\ \A n \in 1..Len(old) : Append(old, h)[n] = old[n]
    BY <1>1, AppendRow
  <1> HIDE DEF old
  <1>3. vacancy' \in [Vacancies -> Row] /\ history' \in [Vacancies -> Seq(HistoryRow)]
    BY <1>1, <1>2 DEF IInv, TypeOK, old
  <1>4. ChecksHold'
    <2>1. r.status \in {"active", "paused", "closed"} => r.publishedAt > 0
      BY <1>1, <1>2 DEF old
    <2>2. r.status = "closed" <=> r.closedAt
      OBVIOUS
    <2>3. QED
      BY <1>1, <2>1, <2>2 DEF IInv, ChecksHold
  <1>5. HistoryRecordsStatus'
    <2>1. Exists(v)' /\ Exists(v) = (old # <<>>)
      BY <1>1, Constants DEF IInv, HistoryRecordsStatus, Exists, old
    <2>2. ASSUME NEW n \in 2..Len(old) + 1
          PROVE  VacancyCanTransition(Append(old, h)[n].from, Append(old, h)[n].to)
      <3>1. CASE n \in 2..Len(old)
        BY <1>1, <1>2, <3>1 DEF IInv, HistoryRecordsStatus, old
      <3>2. CASE n = Len(old) + 1
        <4>1. old # <<>>
          BY <1>2, <3>2
        <4>2. QED
          BY <1>2, <2>1, <3>2, <4>1
      <3>3. QED
        BY <1>2, <3>1, <3>2
    <2>3. QED
      BY <1>1, <1>2, <2>1, <2>2 DEF IInv, HistoryRecordsStatus, Exists
  <1>6. PublishedOnce'
    <2> SUFFICES ASSUME NEW w \in Vacancies
                 PROVE  LET published == {i \in 1..Len(history'[w]) :
                                            history'[w][i].to = "active"}
                            stamp     == vacancy'[w].publishedAt
                        IN  \/ published = {} /\ stamp = 0
                            \/ stamp \in published /\ \A i \in published : stamp <= i
      BY DEF PublishedOnce
    <2>1. CASE w # v
      BY <1>1, <2>1 DEF IInv, PublishedOnce
    <2>2. CASE w = v
      <3> DEFINE new    == {i \in 1..Len(Append(old, h)) : Append(old, h)[i].to = "active"}
                 before == {i \in 1..Len(old) : old[i].to = "active"}
                 stamp  == vacancy[v].publishedAt
      <3>1. \/ before = {} /\ stamp = 0
            \/ stamp \in before /\ \A i \in before : stamp <= i
        BY DEF IInv, PublishedOnce, old
      <3>2. \A i : i \in new <=> i \in before \/ (i = Len(old) + 1 /\ h.to = "active")
        BY <1>2
      <3>3. \A i \in before : i \in 1..Len(old)
        OBVIOUS
      <3> HIDE DEF new, before
      <3>4. \/ new = {} /\ r.publishedAt = 0
            \/ r.publishedAt \in new /\ \A i \in new : r.publishedAt <= i
        <4>1. CASE h.to # "active"
          BY <3>1, <3>2, <4>1
        <4>2. CASE h.to = "active" /\ stamp = 0
          <5>1. before = {} /\ r.publishedAt = Len(old) + 1
            BY <3>1, <3>3, <4>2, <1>2 DEF old
          <5>2. QED
            BY <1>2, <3>2, <4>2, <5>1
        <4>3. CASE h.to = "active" /\ stamp # 0
          BY <1>1, <1>2, <3>1, <3>2, <3>3, <4>3
        <4>4. QED
          BY <4>1, <4>2, <4>3
      <3>5. /\ {i \in 1..Len(history'[w]) : history'[w][i].to = "active"} = new
            /\ vacancy'[w].publishedAt = r.publishedAt
        BY <1>1, <2>2 DEF new
      <3>6. QED
        BY <3>4, <3>5
    <2>3. QED
      BY <2>1, <2>2
  <1>7. QED
    BY <1>3, <1>4, <1>5, <1>6

\* What a committed write of v leaves the other requests.
LEMMA RequestsKept ==
  ASSUME IInv, NEW v \in Vacancies, NEW u \in Txns, pc'[u] = pc[u], req'[u] = req[u],
         \A w \in Vacancies : w # v => vacancy'[w] = vacancy[w],
         Exists(v) => Exists(v)',
         vacancy[v].publishedAt > 0 => vacancy'[v].publishedAt > 0
  PROVE  RequestOK(u)'
  BY DEF IInv, RequestsOK, RequestOK, Exists

LEMMA CommitApplied ==
  ASSUME IInv, NEW t \in Txns, pc[t] # "idle", NEW v \in Vacancies, v = req[t].vacancy,
         NEW row \in Row, row.publishedAt = vacancy[v].publishedAt,
         NEW to, VacancyCanTransition(req[t].from, to),
         NEW role \in {"employer", "admin"},
         ApplyStatus(v, row, req[t].from, to, role), Finish(t)
  PROVE  IInv'
  <1> DEFINE r == Stamped(row, to, Len(history[v]) + 1)
             h == [from |-> req[t].from, to |-> to, role |-> role]
  <1>1. /\ Len(history[v]) \in Nat
        /\ req[t].from \in VacancyStatuses \ {"closed"} /\ to \in VacancyStatuses
    BY Constants DEF IInv, TypeOK
  <1>2. r \in Row /\ h \in HistoryRow
    <2>1. h \in HistoryRow
      BY <1>1 DEF HistoryRow
    <2>2. row.publishedAt \in Nat
      BY DEF Row
    <2>3. (IF to = "active" /\ row.publishedAt = 0 THEN Len(history[v]) + 1
           ELSE row.publishedAt) \in Nat
      BY <1>1, <2>2
    <2>4. r \in Row
      BY <1>1, <2>3 DEF Stamped, Row
    <2>5. QED
      BY <2>1, <2>4
  <1>3. /\ h.to = to /\ h.from = req[t].from /\ r.status = to
        /\ r.publishedAt = IF to = "active" /\ vacancy[v].publishedAt = 0
                           THEN Len(history[v]) + 1 ELSE vacancy[v].publishedAt
        /\ r.closedAt = (to = "closed")
    BY DEF Stamped, Row
  <1>4. to \in {"paused", "closed"} => vacancy[v].publishedAt > 0
    BY DEF VacancyCanTransition, VacancyTransitions, IInv, RequestsOK, RequestOK
  <1>5. /\ vacancy' = [vacancy EXCEPT ![v] = r]
        /\ history' = [history EXCEPT ![v] = Append(@, h)]
    BY DEF ApplyStatus
  <1> HIDE DEF r, h
  <1>6. /\ vacancy' \in [Vacancies -> Row] /\ history' \in [Vacancies -> Seq(HistoryRow)]
        /\ ChecksHold' /\ HistoryRecordsStatus' /\ PublishedOnce'
    BY <1>2, <1>3, <1>4, <1>5, WriteRow
  <1>7. TypeOK'
    BY <1>6, Constants DEF IInv, TypeOK, Finish
  <1>8. ASSUME NEW u \in Txns PROVE RequestOK(u)'
    <2>1. CASE u = t
      BY <2>1 DEF IInv, TypeOK, Finish, RequestOK
    <2>2. CASE u # t
      <3>1. pc'[u] = pc[u] /\ req'[u] = req[u]
        BY <2>2 DEF IInv, TypeOK, Finish
      <3>2. /\ \A w \in Vacancies : w # v => vacancy'[w] = vacancy[w]
            /\ vacancy'[v] = r
        BY <1>5 DEF IInv, TypeOK
      <3>3. Exists(v)' /\ (vacancy[v].publishedAt > 0 => vacancy'[v].publishedAt > 0)
        BY <1>1, <1>3, <3>2, Constants DEF Exists
      <3>4. QED
        BY <3>1, <3>2, <3>3, RequestsKept
    <2>3. QED
      BY <2>1, <2>2
  <1>9. QED
    BY <1>6, <1>7, <1>8 DEF IInv, RequestsOK

LEMMA CommitStatusInv ==
  ASSUME IInv, NEW t \in Txns, CommitStatus(t)
  PROVE  IInv'
  <1>1. /\ pc[t] = "status" /\ req[t].vacancy \in Vacancies /\ Finish(t)
        /\ vacancy[req[t].vacancy] \in Row /\ req[t].role \in {"employer", "admin"}
    BY DEF IInv, TypeOK, RequestsOK, RequestOK, CommitStatus, Request
  <1>2. CASE ~VacancyCanTransition(req[t].from, req[t].to)
    BY <1>1, <1>2, FinishInv DEF CommitStatus
  <1>3. CASE VacancyCanTransition(req[t].from, req[t].to)
    BY <1>1, <1>3, CommitApplied DEF CommitStatus
  <1>4. QED
    BY <1>2, <1>3

\* The pair an edit moves along is one of the machine's.
LEMMA PatchTargetLegal ==
  ASSUME NEW from, IsEditable(from), NEW touched \in BOOLEAN, NEW restriction,
         PatchTarget(from, touched, restriction) # NoStatus
  PROVE  VacancyCanTransition(from, PatchTarget(from, touched, restriction))
  BY DEF IsEditable, PatchTarget, VacancyCanTransition, VacancyTransitions

LEMMA CommitPatchInv ==
  ASSUME IInv, NEW t \in Txns, CommitPatch(t)
  PROVE  IInv'
  <1>0. PICK v : v = req[t].vacancy
    OBVIOUS
  <1> DEFINE edited == IF req[t].restriction = Null THEN vacancy[v]
                       ELSE [vacancy[v] EXCEPT !.restriction = req[t].restriction]
             to     == PatchTarget(req[t].from, req[t].restriction # Null,
                                   edited.restriction)
  <1>1. /\ pc[t] = "patch" /\ v \in Vacancies /\ Exists(v) /\ Finish(t)
        /\ IsEditable(req[t].from) /\ vacancy[v] \in Row
        /\ req[t].restriction \in Restrictions \cup {Null}
    BY <1>0 DEF IInv, TypeOK, RequestsOK, RequestOK, CommitPatch, Request
  <1>2. /\ edited \in Row /\ edited.status = vacancy[v].status
        /\ edited.publishedAt = vacancy[v].publishedAt
        /\ edited.closedAt = vacancy[v].closedAt
    BY <1>1 DEF Row
  <1>3. \/ to # NoStatus /\ ApplyStatus(v, edited, req[t].from, to, "employer")
        \/ vacancy' = [vacancy EXCEPT ![v] = edited] /\ UNCHANGED history
    BY <1>0 DEF CommitPatch
  <1>4. CASE to # NoStatus /\ ApplyStatus(v, edited, req[t].from, to, "employer")
    <2>1. VacancyCanTransition(req[t].from, to)
      BY <1>1, <1>4, PatchTargetLegal
    <2> HIDE DEF to, edited
    <2>2. QED
      BY <1>0, <1>1, <1>2, <1>4, <2>1, CommitApplied
  <1> HIDE DEF to, edited
  <1>5. CASE vacancy' = [vacancy EXCEPT ![v] = edited] /\ UNCHANGED history
    <2>1. /\ vacancy'[v] = edited
          /\ \A w \in Vacancies : w # v => vacancy'[w] = vacancy[w]
          /\ Exists(v)'
      BY <1>1, <1>2, <1>5 DEF IInv, TypeOK, Exists
    <2>2. TypeOK'
      BY <1>1, <1>2, <1>5, Constants DEF IInv, TypeOK, Finish
    <2>3. ChecksHold' /\ PublishedOnce'
      BY <1>2, <1>5, <2>1 DEF IInv, ChecksHold, PublishedOnce
    <2>4. HistoryRecordsStatus'
      BY <1>1, <1>2, <1>5, <2>1 DEF IInv, HistoryRecordsStatus, Exists
    <2>5. ASSUME NEW u \in Txns PROVE RequestOK(u)'
      <3>1. CASE u = t
        BY <1>1, <3>1 DEF IInv, TypeOK, Finish, RequestOK
      <3>2. CASE u # t
        <4>1. pc'[u] = pc[u] /\ req'[u] = req[u]
          BY <1>1, <3>2 DEF IInv, TypeOK, Finish
        <4>2. QED
          BY <1>1, <1>2, <2>1, <4>1, RequestsKept
      <3>3. QED
        BY <3>1, <3>2
    <2>6. QED
      BY <2>2, <2>3, <2>4, <2>5 DEF IInv, RequestsOK
  <1>6. QED
    BY <1>3, <1>4, <1>5

LEMMA CreateInv ==
  ASSUME IInv, NEW v \in Vacancies, Create(v)
  PROVE  IInv'
  <1> DEFINE r == [vacancy[v] EXCEPT !.status = "draft"]
             h == [from |-> NoStatus, to |-> "draft", role |-> "employer"]
  <1>1. vacancy[v] \in Row /\ vacancy[v].status = NoStatus /\ history[v] = <<>>
    BY DEF IInv, TypeOK, HistoryRecordsStatus, Create, Exists
  <1>2. /\ r \in Row /\ h \in HistoryRow /\ h.to = "draft" /\ r.status = "draft"
        /\ r.publishedAt = vacancy[v].publishedAt /\ r.closedAt = vacancy[v].closedAt
    BY <1>1 DEF Row, HistoryRow, VacancyStatuses
  <1>3. r.closedAt = FALSE
    BY <1>1, <1>2 DEF IInv, ChecksHold, Row, NoStatus
  <1>4. Append(history[v], h) = <<h>>
    BY <1>1
  <1>5. /\ vacancy' = [vacancy EXCEPT ![v] = r]
        /\ history' = [history EXCEPT ![v] = Append(@, h)]
    BY <1>1, <1>4 DEF Create, IInv, TypeOK
  <1> HIDE DEF r, h
  <1>6. /\ vacancy' \in [Vacancies -> Row] /\ history' \in [Vacancies -> Seq(HistoryRow)]
        /\ ChecksHold' /\ HistoryRecordsStatus' /\ PublishedOnce'
    BY <1>1, <1>2, <1>3, <1>5, WriteRow DEF Exists
  <1>7. TypeOK'
    BY <1>6 DEF IInv, TypeOK, Create
  <1>8. ASSUME NEW u \in Txns PROVE RequestOK(u)'
    <2>1. /\ vacancy'[v] = r /\ ~Exists(v)
          /\ \A w \in Vacancies : w # v => vacancy'[w] = vacancy[w]
      BY <1>1, <1>5 DEF IInv, TypeOK, Exists
    <2>2. QED
      BY <1>2, <2>1, RequestsKept DEF Create
  <1>9. QED
    BY <1>6, <1>7, <1>8 DEF IInv, RequestsOK

LEMMA NextInv == IInv /\ [Next]_vars => IInv'
  <1>1. IInv /\ UNCHANGED vars => IInv'
    BY DEF vars, IInv, TypeOK, RequestsOK, RequestOK, ChecksHold, HistoryRecordsStatus,
           PublishedOnce, Exists
  <1>2. ASSUME IInv, Next PROVE IInv'
    BY <1>2, CreateInv, BeginInv, CommitPatchInv, CommitStatusInv, FinishInv
       DEF Next, Crash
  <1>3. QED
    BY <1>1, <1>2

--------------------------------------------------------------------------------
(* What people keep and report *)

\* What Discovery keeps: its types and one open complaint per reporter and vacancy.
BrowseInv == Browse!TypeOK /\ Browse!OneOpenComplaint

LEMMA BrowseInit == Browse!Init => BrowseInv
  BY DEF Browse!Init, BrowseInv, Browse!TypeOK, Browse!OneOpenComplaint, Browse!Unsaved

LEMMA WriteKeeps ==
  ASSUME BrowseInv, NEW w \in Browse!Writes, Browse!Write(w)
  PROVE  /\ kept' \subseteq Candidates \X Vacancies
         /\ shortlist' \subseteq Vacancies \X Candidates
         /\ card' \in [Candidates -> Notes \cup {Null, Browse!Unsaved}]
         /\ complaint' \in [Candidates \X Vacancies -> Nat] /\ Browse!OneOpenComplaint'
  <1> USE DEF BrowseInv, Browse!TypeOK
  <1>1. CASE w.op = "save"
    <2>1. w.by \in Candidates /\ w.vacancy \in Vacancies
      BY <1>1 DEF Browse!Writes
    <2>2. kept' = kept \cup {<<w.by, w.vacancy>>} /\ UNCHANGED <<card, shortlist, complaint>>
      BY <1>1 DEF Browse!Write
    <2>3. QED
      BY <2>1, <2>2 DEF Browse!OneOpenComplaint
  <1>2. CASE w.op = "report"
    <2> DEFINE p == <<w.by, w.vacancy>>
    <2>1. p \in Candidates \X Vacancies
      BY <1>2 DEF Browse!Writes
    <2>2. UNCHANGED <<kept, card, shortlist>> /\ Browse!FileComplaint(w.by, w.vacancy)
      BY <1>2 DEF Browse!Write
    <2>3. \/ complaint' = complaint \/ complaint' = [complaint EXCEPT ![p] = 1]
      BY <2>2 DEF Browse!FileComplaint
    <2> HIDE DEF p
    <2>4. QED
      BY <2>1, <2>2, <2>3 DEF Browse!OneOpenComplaint
  <1>3. CASE w.op \in {"saveCandidate", "note"}
    <2>1. /\ w.candidate \in Candidates
          /\ w.op = "note" => w.note \in Notes \cup {Null}
      BY <1>3 DEF Browse!Writes
    <2>2. UNCHANGED <<kept, shortlist, complaint>>
      BY <1>3 DEF Browse!Write
    <2>3. \/ card' = card
          \/ card' = [card EXCEPT ![w.candidate] = Null]
          \/ w.op = "note" /\ card' = [card EXCEPT ![w.candidate] = w.note]
      BY <1>3 DEF Browse!Write, Browse!SaveCard, Browse!WriteNote
    <2>4. QED
      BY <2>1, <2>2, <2>3 DEF Browse!OneOpenComplaint
  <1>4. CASE w.op = "shortlist"
    <2>1. w.candidate \in Candidates /\ w.vacancy \in Vacancies
      BY <1>4 DEF Browse!Writes
    <2>2. /\ shortlist' = shortlist \cup {<<w.vacancy, w.candidate>>}
          /\ UNCHANGED <<kept, card, complaint>>
      BY <1>4 DEF Browse!Write
    <2>3. QED
      BY <2>1, <2>2 DEF Browse!OneOpenComplaint
  <1>5. QED
    BY <1>1, <1>2, <1>3, <1>4 DEF Browse!Write

LEMMA BrowseCommit ==
  ASSUME BrowseInv, NEW t \in Taps, Browse!Commit(t)
  PROVE  BrowseInv'
  <1>1. tap[t] \in Browse!Writes /\ Browse!Write(tap[t])
    BY DEF BrowseInv, Browse!TypeOK, Browse!Commit
  <1>2. /\ tap' \in [Taps -> Browse!Writes \cup {Browse!Idle}]
        /\ UNCHANGED findable
    BY DEF BrowseInv, Browse!TypeOK, Browse!Commit
  <1>3. QED
    BY <1>1, <1>2, WriteKeeps DEF BrowseInv, Browse!TypeOK

LEMMA BrowseForget ==
  ASSUME BrowseInv, Browse!Forget
  PROVE  BrowseInv'
  <1>1. /\ UNCHANGED <<findable, tap, complaint>>
        /\ kept' \subseteq kept /\ shortlist' \subseteq shortlist
        /\ \/ card' = card
           \/ \E c \in Candidates : card' = [card EXCEPT ![c] = Browse!Unsaved]
    BY DEF Browse!Forget
  <1>2. QED
    BY <1>1 DEF BrowseInv, Browse!TypeOK, Browse!OneOpenComplaint

LEMMA BrowseReview ==
  ASSUME BrowseInv, Browse!Review
  PROVE  BrowseInv'
  <1>1. PICK p \in Candidates \X Vacancies :
          complaint[p] > 0 /\ complaint' = [complaint EXCEPT ![p] = @ - 1]
    BY DEF Browse!Review
  <1>2. UNCHANGED <<findable, kept, card, shortlist, tap>>
    BY DEF Browse!Review
  <1>3. complaint[p] - 1 \in Nat /\ complaint[p] - 1 <= 1
    BY <1>1 DEF BrowseInv, Browse!TypeOK, Browse!OneOpenComplaint
  <1>4. QED
    BY <1>1, <1>2, <1>3 DEF BrowseInv, Browse!TypeOK, Browse!OneOpenComplaint

LEMMA BrowseNext ==
  ASSUME BrowseInv, Browse!Next
  PROVE  BrowseInv'
  <1>1. ASSUME NEW t \in Taps, NEW w \in Browse!Writes, Browse!Begin(t, w) PROVE BrowseInv'
    BY <1>1 DEF BrowseInv, Browse!TypeOK, Browse!OneOpenComplaint, Browse!Begin, Browse!mine
  <1>2. ASSUME NEW t \in Taps, Browse!Die(t) PROVE BrowseInv'
    BY <1>2 DEF BrowseInv, Browse!TypeOK, Browse!OneOpenComplaint, Browse!Die, Browse!mine
  <1>3. ASSUME Browse!Toggle PROVE BrowseInv'
    BY <1>3 DEF BrowseInv, Browse!TypeOK, Browse!OneOpenComplaint, Browse!Toggle,
                Browse!mine
  <1>4. QED
    BY <1>1, <1>2, <1>3, BrowseCommit, BrowseForget, BrowseReview DEF Browse!Next

--------------------------------------------------------------------------------
(* Both beside each other *)

\* A step of one component leaves the other's rows; they share the bound alone.
LEMMA SideBySide ==
  ASSUME ListingsInv, [ListingsNext]_<<vars, browsing>>
  PROVE  ListingsInv'
  <1>1. IInv /\ BrowseInv
    BY DEF ListingsInv, BrowseInv
  <1>2. CASE [Next]_vars /\ UNCHANGED browsing
    <2>1. IInv'
      BY <1>1, <1>2, NextInv
    <2>2. QED
      BY <1>1, <1>2, <2>1
         DEF ListingsInv, BrowseInv, browsing, Browse!TypeOK, Browse!OneOpenComplaint
  <1>3. CASE Browse!Next /\ UNCHANGED <<vacancy, history, pc, req>>
    <2>1. arrived' \in Nat
      BY <1>1, <1>3 DEF IInv, TypeOK, Browse!Next, Browse!Begin, Browse!Commit, Browse!Die,
                        Browse!Forget, Browse!Review, Browse!Toggle
    <2>2. IInv'
      BY <1>1, <1>3, <2>1 DEF IInv, TypeOK, RequestsOK, RequestOK, ChecksHold,
                              HistoryRecordsStatus, PublishedOnce, Exists
    <2>3. QED
      BY <1>1, <1>3, <2>2, BrowseNext DEF ListingsInv, BrowseInv
  <1>4. QED
    BY <1>2, <1>3 DEF ListingsNext

THEOREM Invariance == ListingsSpec => []ListingsInv
  <1>1. ListingsInit => ListingsInv
    BY InitInv, BrowseInit DEF ListingsInit, ListingsInv, BrowseInv
  <1>2. QED
    BY <1>1, SideBySide, PTL DEF ListingsSpec

\* Whatever a request finds of what it read, no key, index or CHECK of these tables
\* aborts what it decided, and published_at names the first publication.
THEOREM ListingsAlwaysHold == ListingsSpec => []ListingsHold
  <1>1. ListingsInv => ListingsHold
    BY DEF ListingsInv, ListingsHold, IInv
  <1>2. QED
    BY Invariance, <1>1, PTL

\* BR-08: a vacancy's status is the one its last history row names, and every row is
\* a transition of the machine, whoever raced whom.
THEOREM HistoryAlwaysRecordsStatus == ListingsSpec => []HistoryRecordsStatus
  <1>1. ListingsInv => HistoryRecordsStatus
    BY DEF ListingsInv, IInv
  <1>2. QED
    BY Invariance, <1>1, PTL

--------------------------------------------------------------------------------
(* Steps *)

\* Which step may change the row of v, and how.
LEMMA StaleEditOnly ==
  ASSUME IInv, Next, NEW v \in Vacancies,
         vacancy[v].status = "active", vacancy'[v].status = "active",
         vacancy'[v].restriction \notin {"none", vacancy[v].restriction}
  PROVE  \E t \in Txns : pc[t] = "patch" /\ req[t].vacancy = v /\ req[t].from = "draft"
  <1>1. vacancy'[v] # vacancy[v] /\ vacancy[v] \in Row
    BY DEF IInv, TypeOK
  <1>2. ASSUME NEW w \in Vacancies, Create(w) PROVE FALSE
    BY <1>1, <1>2 DEF Create, IInv, TypeOK, Exists, NoStatus
  <1>3. ASSUME NEW t \in Txns, CommitStatus(t) PROVE FALSE
    <2> DEFINE row == vacancy[v]
    <2>1. vacancy'[v] = Stamped(row, req[t].to, Len(history[v]) + 1)
      BY <1>1, <1>3 DEF CommitStatus, ApplyStatus, IInv, TypeOK
    <2>2. vacancy'[v].restriction = row.restriction
      BY <1>1, <2>1 DEF Stamped, Row
    <2>3. QED
      BY <2>2
  <1>4. ASSUME NEW t \in Txns, CommitPatch(t)
        PROVE  pc[t] = "patch" /\ req[t].vacancy = v /\ req[t].from = "draft"
    <2> DEFINE edited == IF req[t].restriction = Null THEN vacancy[v]
                         ELSE [vacancy[v] EXCEPT !.restriction = req[t].restriction]
               to     == PatchTarget(req[t].from, req[t].restriction # Null,
                                     edited.restriction)
    <2>1. pc[t] = "patch" /\ req[t].vacancy = v /\ IsEditable(req[t].from)
      BY <1>1, <1>4 DEF CommitPatch, ApplyStatus, IInv, TypeOK, RequestsOK, RequestOK
    <2>2. \/ to # NoStatus /\ vacancy'[v] = Stamped(edited, to, Len(history[v]) + 1)
          \/ to = NoStatus /\ vacancy'[v] = edited
      BY <1>4, <2>1 DEF CommitPatch, ApplyStatus, IInv, TypeOK
    <2>3. /\ vacancy'[v].restriction = edited.restriction
          /\ to # NoStatus => vacancy'[v].status = to
      BY <1>1, <2>2 DEF Stamped, Row
    <2>4. req[t].restriction # Null /\ edited.restriction # "none"
      BY <2>3
    <2>5. to \notin {"draft", "under_moderation"}
      BY <2>3 DEF NoStatus
    <2>6. req[t].from \notin {"rejected", "active", "paused"}
      BY <2>4, <2>5 DEF PatchTarget
    <2>7. QED
      BY <2>1, <2>6 DEF IsEditable
  <1>5. CASE UNCHANGED vacancy
    BY <1>1, <1>5
  <1>6. QED
    BY <1>2, <1>3, <1>4, <1>5 DEF Next, Begin, BeginPatch, BeginSubmit, BeginModerate,
                                  BeginChangeStatus, Arrive, Crash

LEMMA StaleRequestOnly ==
  ASSUME IInv, Next, NEW v \in Vacancies,
         vacancy[v].status = "closed", vacancy'[v].status # "closed"
  PROVE  \E t \in Txns : /\ pc[t] # "idle" /\ pc'[t] = "idle"
                         /\ req[t].vacancy = v /\ req[t].from # "closed"
  <1>1. vacancy'[v] # vacancy[v]
    OBVIOUS
  <1>2. ASSUME NEW w \in Vacancies, Create(w) PROVE FALSE
    BY <1>1, <1>2 DEF Create, IInv, TypeOK, Exists, NoStatus
  <1>3. ASSUME NEW t \in Txns, CommitStatus(t)
        PROVE  /\ pc[t] # "idle" /\ pc'[t] = "idle"
               /\ req[t].vacancy = v /\ req[t].from # "closed"
    <2>1. pc[t] = "status" /\ pc'[t] = "idle"
      BY <1>3 DEF CommitStatus, Finish, IInv, TypeOK
    <2>2. VacancyCanTransition(req[t].from, req[t].to) /\ req[t].vacancy = v
      BY <1>1, <1>3 DEF CommitStatus, ApplyStatus, IInv, TypeOK
    <2>3. QED
      BY <2>1, <2>2, Constants
  <1>4. ASSUME NEW t \in Txns, CommitPatch(t)
        PROVE  /\ pc[t] # "idle" /\ pc'[t] = "idle"
               /\ req[t].vacancy = v /\ req[t].from # "closed"
    <2>1. pc[t] = "patch" /\ pc'[t] = "idle" /\ IsEditable(req[t].from)
      BY <1>4 DEF CommitPatch, Finish, IInv, TypeOK, RequestsOK, RequestOK
    <2>2. req[t].vacancy = v
      BY <1>1, <1>4 DEF CommitPatch, ApplyStatus, IInv, TypeOK
    <2>3. QED
      BY <2>1, <2>2 DEF IsEditable
  <1>5. CASE UNCHANGED vacancy
    BY <1>1, <1>5
  <1>6. QED
    BY <1>2, <1>3, <1>4, <1>5 DEF Next, Begin, BeginPatch, BeginSubmit, BeginModerate,
                                  BeginChangeStatus, Arrive, Crash

\* BR-12 and the end of the machine: only an edit that began on a draft puts a new
\* restriction on a vacancy that stays live, and only a request that read the vacancy
\* before it was closed takes it out of closed.
THEOREM StaleReadsAlone == ListingsSpec => OnlyStaleReadsEscape
  <1> DEFINE NoEscape ==
               \A v \in Vacancies :
                 /\ (/\ vacancy[v].status = "active" /\ vacancy'[v].status = "active"
                     /\ vacancy'[v].restriction \notin {"none", vacancy[v].restriction}) =>
                      \E t \in Txns : /\ pc[t] = "patch" /\ req[t].vacancy = v
                                      /\ req[t].from = "draft"
                 /\ vacancy[v].status = "closed" /\ vacancy'[v].status # "closed" =>
                      \E t \in Txns : /\ pc[t] # "idle" /\ pc'[t] = "idle"
                                      /\ req[t].vacancy = v /\ req[t].from # "closed"
  <1>1. ASSUME ListingsInv, [ListingsNext]_<<vars, browsing>> PROVE NoEscape
    <2>1. CASE Next
      BY <1>1, <2>1, StaleEditOnly, StaleRequestOnly DEF ListingsInv
    <2>2. CASE UNCHANGED vacancy
      BY <2>2
    <2>3. QED
      BY <1>1, <2>1, <2>2 DEF ListingsNext, vars
  <1>2. NoEscape =>
          /\ [\A v \in Vacancies :
                (/\ vacancy[v].status = "active" /\ vacancy'[v].status = "active"
                 /\ vacancy'[v].restriction \notin {"none", vacancy[v].restriction}) =>
                  \E t \in Txns : /\ pc[t] = "patch" /\ req[t].vacancy = v
                                  /\ req[t].from = "draft"]_vars
          /\ [\A v \in Vacancies :
                vacancy[v].status = "closed" /\ vacancy'[v].status # "closed" =>
                  \E t \in Txns : /\ pc[t] # "idle" /\ pc'[t] = "idle"
                                  /\ req[t].vacancy = v /\ req[t].from # "closed"]_vars
    OBVIOUS
  <1> HIDE DEF NoEscape
  <1>3. QED
    BY Invariance, <1>1, <1>2, PTL
       DEF ListingsSpec, OnlyStaleReadsEscape, OnlyStaleEditEscapesReview,
           OnlyStaleRequestReopens

\* The note of a saved candidate goes only with the card or under another note.
LEMMA NoteKept ==
  ASSUME BrowseInv, Browse!Next, NEW c \in Candidates, card[c] \in Notes, card'[c] = Null
  PROVE  \E t \in Taps : tap[t].op = "note" /\ tap[t].candidate = c
  <1>1. card[c] \notin {Null, Browse!Unsaved} /\ Null # Browse!Unsaved /\ card' # card
    BY NotesAssumption DEF Browse!Unsaved
  <1>2. ASSUME NEW t \in Taps, Browse!Commit(t)
        PROVE  tap[t].op = "note" /\ tap[t].candidate = c
    <2>1. Browse!Write(tap[t])
      BY <1>2 DEF Browse!Commit
    <2>2. \/ tap[t].op = "saveCandidate" /\ Browse!SaveCard(tap[t].candidate)
          \/ tap[t].op = "note" /\ Browse!WriteNote(tap[t].candidate, tap[t].note)
      BY <1>1, <2>1 DEF Browse!Write
    <2>3. QED
      BY <1>1, <2>2 DEF Browse!SaveCard, Browse!WriteNote, BrowseInv, Browse!TypeOK
  <1>3. ASSUME Browse!Forget PROVE FALSE
    BY <1>1, <1>3 DEF Browse!Forget, BrowseInv, Browse!TypeOK
  <1>4. QED
    BY <1>1, <1>2, <1>3 DEF Browse!Next, Browse!Begin, Browse!Die, Browse!Review,
                            Browse!Toggle, Browse!mine

\* A vacancy, once there, stays: no operation deletes its row.
LEMMA ExistsIsStable ==
  ASSUME ListingsInv, [ListingsNext]_<<vars, browsing>>, NEW v \in Vacancies, Exists(v)
  PROVE  Exists(v)'
  <1>1. IInv /\ IInv'
    BY SideBySide DEF ListingsInv
  <1>2. history[v] # <<>>
    BY <1>1 DEF IInv, HistoryRecordsStatus
  <1>3. history'[v] # <<>>
    <2>1. CASE UNCHANGED history
      BY <1>2, <2>1
    <2>2. ASSUME NEW w \in Vacancies, NEW from, NEW to, NEW role, NEW row,
                 ApplyStatus(w, row, from, to, role)
          PROVE  history'[v] # <<>>
      <3> DEFINE h == [from |-> from, to |-> to, role |-> role]
      <3>1. history'[v] = Append(history[v], h) \/ history'[v] = history[v]
        BY <2>2 DEF ApplyStatus, IInv, TypeOK
      <3>2. history[v] \in Seq(HistoryRow)
        BY <1>1 DEF IInv, TypeOK
      <3>3. Append(history[v], h) # <<>>
        BY <3>2
      <3>4. QED
        BY <1>2, <3>1, <3>3
    <2>3. ASSUME NEW w \in Vacancies, Create(w) PROVE history'[v] # <<>>
      BY <1>1, <1>2, <2>3 DEF Create, IInv, TypeOK, HistoryRecordsStatus
    <2>4. ASSUME NEW t \in Txns, CommitPatch(t) \/ CommitStatus(t)
          PROVE  history'[v] # <<>>
      <3>1. req[t].vacancy \in Vacancies
        BY <1>1, <2>4 DEF IInv, RequestsOK, RequestOK, CommitPatch, CommitStatus
      <3>2. QED
        BY <2>1, <2>2, <2>4, <3>1 DEF CommitPatch, CommitStatus
    <2>5. QED
      BY <2>1, <2>3, <2>4 DEF ListingsNext, vars, Next, Begin, BeginPatch, BeginSubmit,
                              BeginModerate, BeginChangeStatus, Arrive, Crash
  <1>4. QED
    BY <1>1, <1>3 DEF IInv, HistoryRecordsStatus

\* What a person keeps stays theirs: a note until they unsave or rewrite it, a saved
\* vacancy until they unsave it, whatever becomes of it.
THEOREM WhatIsKeptStays == ListingsSpec => KeptStays
  <1>1. ASSUME ListingsInv, [ListingsNext]_<<vars, browsing>>
        PROVE  [\A c \in Candidates :
                  card[c] \in Notes /\ card'[c] = Null =>
                    \E t \in Taps : tap[t].op = "note" /\ tap[t].candidate = c]_card
    <2>1. CASE Browse!Next
      BY <1>1, <2>1, NoteKept DEF ListingsInv, BrowseInv
    <2>2. CASE UNCHANGED card
      BY <2>2
    <2>3. QED
      BY <1>1, <2>1, <2>2 DEF ListingsNext, browsing
  <1>2. ASSUME ListingsInv, [ListingsNext]_<<vars, browsing>>
        PROVE  \A c \in Candidates :
                 \A v \in Browse!SavedFeed(c) \ Browse!SavedFeed(c)' : <<c, v>> \notin kept'
    BY <1>2, ExistsIsStable DEF Browse!SavedFeed
  <1>3. QED
    BY Invariance, <1>1, <1>2, PTL
       DEF ListingsSpec, KeptStays, Browse!NotesOutliveSaves, Browse!SavedNeverVanishes
================================================================================
