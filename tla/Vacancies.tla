------------------------------- MODULE Vacancies --------------------------------
(***************************************************************************)
(* VacanciesService: the writers of a vacancy row.                         *)
(*                                                                         *)
(* Every one of them reads and checks the row OUTSIDE its transaction and  *)
(* then writes under the row lock whatever the row has become, so a        *)
(* request is two steps: Begin (the read and the refusals) and Commit (the *)
(* transaction, which only ever locks this one row).                       *)
(***************************************************************************)
EXTENDS VacancyStatus, Integers, Sequences

CONSTANTS
  Vacancies,          \* ids the vacancies table may hand out
  Txns,               \* requests that can be in flight at once
  ModerationEnabled,  \* the MODERATION_ENABLED flag
  MaxRequests,        \* bound: requests that arrive in one behaviour
  Null                \* a request that does not touch the restriction fields

ASSUME FlagAssumption == ModerationEnabled \in BOOLEAN

ASSUME BoundAssumption == MaxRequests \in Nat

\* What age_min, age_max, gender_id and the justification say together: no
\* restriction, one the enumerated list supports, or one it does not.
Restrictions == {"none", "justified", "unjustified"}

ASSUME NullAssumption == Null \notin Restrictions

VARIABLES
  vacancy,   \* the vacancies table: id -> row
  history,   \* vacancy_status_history, per vacancy, in order
  pc,        \* the transaction a request is about to run
  req,       \* what it has read and been asked for
  arrived    \* requests that have arrived

vars == <<vacancy, history, pc, req, arrived>>

NoStatus == "none"

Row == [status      : VacancyStatuses \cup {NoStatus},
        restriction : Restrictions,
        publishedAt : Nat,       \* history length at first publication, 0 = NULL
        closedAt    : BOOLEAN]   \* closed_at IS NOT NULL

NoRow == [status |-> NoStatus, restriction |-> "none", publishedAt |-> 0,
          closedAt |-> FALSE]

HistoryRow == [from : VacancyStatuses \cup {NoStatus},
               to   : VacancyStatuses,
               role : {"employer", "admin"}]

Request == [vacancy     : Vacancies \cup {Null},
            from        : VacancyStatuses \cup {NoStatus},  \* as read at arrival
            to          : VacancyStatuses \cup {NoStatus},
            role        : {"employer", "admin"},
            restriction : Restrictions \cup {Null}]

NoRequest == [vacancy |-> Null, from |-> NoStatus, to |-> NoStatus,
              role |-> "employer", restriction |-> Null]

Exists(v) == vacancy[v].status # NoStatus

--------------------------------------------------------------------------------
(* applyStatus *)

\* Mutant: closed_at is set by a close and cleared by nothing.
StampedKeepsClosed(row, to, now) ==
  [row EXCEPT !.status = to,
              !.publishedAt = IF to = "active" /\ @ = 0 THEN now ELSE @,
              !.closedAt = @ \/ to = "closed"]

\* The columns applyStatus writes: published_at once, closed_at with the status.
Stamped(row, to, now) ==
  [row EXCEPT !.status = to,
              !.publishedAt = IF to = "active" /\ @ = 0 THEN now ELSE @,
              !.closedAt = (to = "closed")]

\* The UPDATE by id and its history row; `row` is the row so far in this
\* transaction, `from` is what the caller read before it.
ApplyStatus(v, row, from, to, role) ==
  /\ vacancy' = [vacancy EXCEPT ![v] = Stamped(row, to, Len(history[v]) + 1)]
  /\ history' = [history EXCEPT ![v] =
                   Append(@, [from |-> from, to |-> to, role |-> role])]

--------------------------------------------------------------------------------
(* Control *)

Arrive(t, transaction, request) ==
  /\ pc[t] = "idle"
  /\ arrived < MaxRequests
  /\ pc' = [pc EXCEPT ![t] = transaction]
  /\ req' = [req EXCEPT ![t] = request]
  /\ arrived' = arrived + 1
  /\ UNCHANGED <<vacancy, history>>

Finish(t) ==
  /\ pc' = [pc EXCEPT ![t] = "idle"]
  /\ req' = [req EXCEPT ![t] = NoRequest]
  /\ UNCHANGED arrived

--------------------------------------------------------------------------------
(* The operations *)

\* create: an empty draft with its first history row.
Create(v) ==
  /\ ~Exists(v)
  /\ vacancy' = [vacancy EXCEPT ![v].status = "draft"]
  /\ history' = [history EXCEPT ![v] =
                   <<[from |-> NoStatus, to |-> "draft", role |-> "employer"]>>]
  /\ UNCHANGED <<pc, req, arrived>>

BeginPatch(t, v, restriction) ==
  /\ IsEditable(vacancy[v].status)
  /\ Arrive(t, "patch", [NoRequest EXCEPT !.vacancy = v, !.from = vacancy[v].status,
                                          !.restriction = restriction])

\* Mutant: the restriction of a paused vacancy is not reviewed.
PatchTargetActiveOnly(from, touched, restriction) ==
  CASE from = "rejected" -> "draft"
    [] touched /\ from = "active" /\ restriction # "none" -> "under_moderation"
    [] OTHER -> NoStatus

\* Where an edit sends the vacancy, given the status read before it and the
\* restriction as the transaction has just written it; NoStatus: nowhere.
PatchTarget(from, touched, restriction) ==
  CASE from = "rejected" -> "draft"
    [] touched /\ from \in {"active", "paused"} /\ restriction # "none" -> "under_moderation"
    [] OTHER -> NoStatus

CommitPatch(t) ==
  LET v      == req[t].vacancy
      edited == IF req[t].restriction = Null THEN vacancy[v]
                ELSE [vacancy[v] EXCEPT !.restriction = req[t].restriction]
      to     == PatchTarget(req[t].from, req[t].restriction # Null, edited.restriction)
  IN
  /\ pc[t] = "patch"
  /\ \/ /\ to # NoStatus
        /\ ApplyStatus(v, edited, req[t].from, to, "employer")
     \/ /\ to = NoStatus
        /\ vacancy' = [vacancy EXCEPT ![v] = edited]
        /\ UNCHANGED history
  /\ Finish(t)

SubmitTarget(restriction) ==
  IF ModerationEnabled \/ restriction # "none" THEN "under_moderation" ELSE "active"

\* submit: a complete form, an open deadline and a justified restriction; the
\* refusals that leave no trace are not taken.
BeginSubmit(t, v) ==
  /\ CanSubmitFrom(vacancy[v].status)
  /\ vacancy[v].restriction # "unjustified"
  /\ Arrive(t, "status", [NoRequest EXCEPT !.vacancy = v, !.from = vacancy[v].status,
                                           !.to = SubmitTarget(vacancy[v].restriction)])

BeginModerate(t, v, decision) ==
  /\ vacancy[v].status = "under_moderation"
  /\ Arrive(t, "status", [NoRequest EXCEPT !.vacancy = v, !.from = vacancy[v].status,
                                           !.to = decision, !.role = "admin"])

BeginChangeStatus(t, v, to) ==
  /\ VacancyCanTransition(vacancy[v].status, to)
  /\ Arrive(t, "status", [NoRequest EXCEPT !.vacancy = v, !.from = vacancy[v].status,
                                           !.to = to])

\* Mutant: applyStatus trusts its caller about the pair.
CommitStatusUnchecked(t) ==
  /\ pc[t] = "status"
  /\ ApplyStatus(req[t].vacancy, vacancy[req[t].vacancy], req[t].from, req[t].to,
                 req[t].role)
  /\ Finish(t)

\* The transaction of submit, moderate and changeStatus. An illegal pair throws
\* before anything is written.
CommitStatus(t) ==
  /\ pc[t] = "status"
  /\ \/ /\ VacancyCanTransition(req[t].from, req[t].to)
        /\ ApplyStatus(req[t].vacancy, vacancy[req[t].vacancy], req[t].from, req[t].to,
                       req[t].role)
     \/ /\ ~VacancyCanTransition(req[t].from, req[t].to)
        /\ UNCHANGED <<vacancy, history>>
  /\ Finish(t)

\* The process dies between the read and the commit.
Crash(t) ==
  /\ pc[t] # "idle"
  /\ Finish(t)
  /\ UNCHANGED <<vacancy, history>>

--------------------------------------------------------------------------------

Init ==
  /\ vacancy = [v \in Vacancies |-> NoRow]
  /\ history = [v \in Vacancies |-> <<>>]
  /\ pc      = [t \in Txns |-> "idle"]
  /\ req     = [t \in Txns |-> NoRequest]
  /\ arrived = 0

Begin(t, v) ==
  \/ \E r \in Restrictions \cup {Null} : BeginPatch(t, v, r)
  \/ BeginSubmit(t, v)
  \/ \E d \in {"active", "rejected"} : BeginModerate(t, v, d)
  \/ \E to \in {"active", "paused", "closed"} : BeginChangeStatus(t, v, to)

Next ==
  \/ \E v \in Vacancies : Create(v)
  \/ \E t \in Txns : \/ \E v \in Vacancies : Begin(t, v)
                     \/ CommitPatch(t)
                     \/ CommitStatus(t)
                     \/ Crash(t)

Spec == Init /\ [][Next]_vars

--------------------------------------------------------------------------------
(* Properties *)

\* Columns and request fields stay within their enums.
TypeOK ==
  /\ vacancy \in [Vacancies -> Row]
  /\ history \in [Vacancies -> Seq(HistoryRow)]
  /\ pc \in [Txns -> {"idle", "patch", "status"}]
  /\ req \in [Txns -> Request]
  /\ arrived \in Nat

\* The CHECKs vacancies_published_at_present and vacancies_closed_at_present
\* never abort a transaction, although the status a transaction writes was chosen
\* from a row it no longer finds.
ChecksHold ==
  \A v \in Vacancies :
    /\ vacancy[v].status \in {"active", "paused", "closed"} => vacancy[v].publishedAt > 0
    /\ vacancy[v].status = "closed" <=> vacancy[v].closedAt

\* BR-08: no status without its history row, whoever raced whom: the last row of
\* the history is the status, and every row is a transition of the machine.
HistoryRecordsStatus ==
  \A v \in Vacancies :
    LET h == history[v] IN
    /\ Exists(v) <=> h # <<>>
    /\ h # <<>> => h[Len(h)].to = vacancy[v].status
    /\ \A i \in 2..Len(h) : VacancyCanTransition(h[i].from, h[i].to)

\* Discovery sorts by published_at: it names the first publication and no pause,
\* resume, review or race changes it.
PublishedOnce ==
  \A v \in Vacancies :
    LET published == {i \in 1..Len(history[v]) : history[v][i].to = "active"}
        stamp     == vacancy[v].publishedAt
    IN  \/ published = {} /\ stamp = 0
        \/ stamp \in published /\ \A i \in published : stamp <= i

\* What a request in flight was let through with: a vacancy that was there, a status
\* the request could start from, and a publication if that status implies one.
RequestOK(t) ==
  pc[t] # "idle" =>
    /\ req[t].vacancy \in Vacancies /\ Exists(req[t].vacancy)
    /\ req[t].from \in {"active", "paused", "closed"} =>
         vacancy[req[t].vacancy].publishedAt > 0
    /\ pc[t] = "patch" => IsEditable(req[t].from)
    /\ pc[t] = "status" => req[t].to # NoStatus

RequestsOK == \A t \in Txns : RequestOK(t)

\* Inductive.
IInv == TypeOK /\ RequestsOK /\ ChecksHold /\ HistoryRecordsStatus /\ PublishedOnce

\* BR-12: a restriction reaches a vacancy that stays in discovery only through an
\* edit that began before the vacancy was live. The status read outside the
\* transaction is the whole of the window.
OnlyStaleEditEscapesReview ==
  [][\A v \in Vacancies :
       (/\ vacancy[v].status = "active" /\ vacancy'[v].status = "active"
        /\ vacancy'[v].restriction \notin {"none", vacancy[v].restriction}) =>
         \E t \in Txns : /\ pc[t] = "patch" /\ req[t].vacancy = v
                         /\ req[t].from = "draft"]_vars

\* "Terminal. BR-11 keeps a closed vacancy in history": what opens a closed
\* vacancy again can only be a request that read it before it was closed.
OnlyStaleRequestReopens ==
  [][\A v \in Vacancies :
       vacancy[v].status = "closed" /\ vacancy'[v].status # "closed" =>
         \E t \in Txns : /\ pc[t] # "idle" /\ pc'[t] = "idle"
                         /\ req[t].vacancy = v /\ req[t].from # "closed"]_vars

\* What slips past the review, or out of the end of the machine, is what was read
\* before: an edit that began on a draft, a request that read an open vacancy.
OnlyStaleReadsEscape == OnlyStaleEditEscapesReview /\ OnlyStaleRequestReopens

================================================================================
