------------------------------- MODULE Interviews -------------------------------
(***************************************************************************)
(* InterviewsService and interview-rules: what happens to an interview row *)
(* after its application has reached the stage (Applications has that      *)
(* half of `schedule`).                                                    *)
(*                                                                         *)
(* Every writer reads and checks the interview outside its transaction and *)
(* then writes by id, so a request is two steps: Begin (the read and the   *)
(* refusals) and Commit (the transaction, which only locks this row).      *)
(***************************************************************************)
EXTENDS Naturals, Sequences

CONSTANTS
  Interviews,   \* ids the interviews table may hand out
  Times,        \* values of scheduled_at
  Offers,       \* the details employers send
  Txns,         \* requests that can be in flight at once
  MaxRequests,  \* bound: requests that arrive in one behaviour
  Null          \* a column or a field that is not set

InterviewTypes == {"phone", "in_person", "external_link"}

\* A text the client left out, filled with white space only, or wrote.
Texts == {"absent", "blank", "given"}

Details == [type : InterviewTypes, location : Texts, meetingLink : Texts]

ASSUME OffersAssumption == Offers \subseteq Details

ASSUME NullAssumption == Null \notin Interviews \cup Times \cup Details

ASSUME BoundAssumption == MaxRequests \in Nat

VARIABLES
  interview,  \* the interviews table: id -> row
  history,    \* interview_status_history, per interview, in order
  pc,         \* the transaction a request is about to run
  req,        \* what it has read and been asked for
  arrived     \* requests that have arrived

vars == <<interview, history, pc, req, arrived>>

NoStatus == "none"

InterviewStatuses == {"scheduled", "confirmed", "reschedule_requested", "cancelled"}

Row == [status    : InterviewStatuses \cup {NoStatus},
        time      : Times \cup {Null},
        details   : Details \cup {Null},
        responded : BOOLEAN]             \* responded_at IS NOT NULL

NoRow == [status |-> NoStatus, time |-> Null, details |-> Null, responded |-> FALSE]

HistoryRow == [from : InterviewStatuses \cup {NoStatus},
               to   : InterviewStatuses,
               role : {"employer", "candidate"}]

Request == [interview : Interviews \cup {Null},
            from      : InterviewStatuses \cup {NoStatus},  \* as read at arrival
            to        : InterviewStatuses \cup {NoStatus},
            role      : {"employer", "candidate"},
            time      : Times \cup {Null},
            details   : Details \cup {Null}]

NoRequest == [interview |-> Null, from |-> NoStatus,
              to |-> NoStatus, role |-> "employer", time |-> Null, details |-> Null]

Exists(i) == interview[i].status # NoStatus

--------------------------------------------------------------------------------
(* interview-rules *)

\* detailViolation finds nothing wrong; a blank text is as good as absent.
DetailsAllowed(d) ==
  /\ (d.location = "given") <=> (d.type = "in_person")
  /\ (d.meetingLink = "given") <=> (d.type = "external_link")

\* The CHECK interviews_location_matches_type, which looks at NULL alone.
LocationMatchesType(d) ==
  /\ (d.location # "absent") <=> (d.type = "in_person")
  /\ (d.meetingLink # "absent") <=> (d.type = "external_link")

IsTerminal(status) == status = "cancelled"

CandidateResponses == {"confirmed", "reschedule_requested"}

\* Mutant: an answer may be given again.
CanRespondAgain(from, to) == ~IsTerminal(from) /\ to \in CandidateResponses

CanRespond(from, to) == ~IsTerminal(from) /\ to \in CandidateResponses /\ to # from

--------------------------------------------------------------------------------
(* Control *)

Arrive(t, transaction, request) ==
  /\ pc[t] = "idle"
  /\ arrived < MaxRequests
  /\ pc' = [pc EXCEPT ![t] = transaction]
  /\ req' = [req EXCEPT ![t] = request]
  /\ arrived' = arrived + 1
  /\ UNCHANGED <<interview, history>>

Finish(t) ==
  /\ pc' = [pc EXCEPT ![t] = "idle"]
  /\ req' = [req EXCEPT ![t] = NoRequest]
  /\ UNCHANGED arrived

\* The transaction aborts, or the process dies before it commits.
RollBack(t) == Finish(t) /\ UNCHANGED <<interview, history>>

\* What byId returns about the interview before the checks.
Read(i, role) ==
  [NoRequest EXCEPT !.interview = i, !.role = role, !.from = interview[i].status]

WriteHistory(i, from, to, role) ==
  history' = [history EXCEPT ![i] = Append(@, [from |-> from, to |-> to, role |-> role])]

--------------------------------------------------------------------------------
(* schedule and reschedule *)

BeginSchedule(t, time, d) ==
  /\ DetailsAllowed(d)
  /\ Arrive(t, "schedule", [NoRequest EXCEPT !.time = time, !.details = d])

\* The row a schedule or a reschedule leaves: a new question, not yet answered.
Asked(t) == [status |-> "scheduled", time |-> req[t].time, details |-> req[t].details,
             responded |-> FALSE]

CommitSchedule(t) ==
  /\ pc[t] = "schedule"
  /\ \/ /\ LocationMatchesType(req[t].details)
        /\ \E i \in Interviews :
             /\ ~Exists(i)
             /\ interview' = [interview EXCEPT ![i] = Asked(t)]
             /\ WriteHistory(i, NoStatus, "scheduled", "employer")
        /\ Finish(t)
     \/ ~LocationMatchesType(req[t].details) /\ RollBack(t)

BeginReschedule(t, i, time, d) ==
  /\ Exists(i)
  /\ DetailsAllowed(d)
  /\ ~IsTerminal(interview[i].status)
  /\ Arrive(t, "reschedule", [Read(i, "employer") EXCEPT !.time = time, !.details = d,
                                                         !.to = "scheduled"])

CommitReschedule(t) ==
  LET i == req[t].interview IN
  /\ pc[t] = "reschedule"
  /\ \/ /\ LocationMatchesType(req[t].details)
        /\ interview' = [interview EXCEPT ![i] = Asked(t)]
        /\ WriteHistory(i, req[t].from, "scheduled", "employer")
        /\ Finish(t)
     \/ ~LocationMatchesType(req[t].details) /\ RollBack(t)

--------------------------------------------------------------------------------
(* cancel and respond, through setStatus *)

BeginCancel(t, i) ==
  /\ Exists(i)
  /\ ~IsTerminal(interview[i].status)
  /\ Arrive(t, "setStatus", [Read(i, "employer") EXCEPT !.to = "cancelled"])

BeginRespond(t, i, to) ==
  /\ Exists(i)
  /\ CanRespond(interview[i].status, to)
  /\ Arrive(t, "setStatus", [Read(i, "candidate") EXCEPT !.to = to])

\* Mutant: responded_at is set for a candidate's answer only.
WithStatusOfCandidate(row, to, role) ==
  [row EXCEPT !.status = to, !.responded = @ \/ role = "candidate"]

\* The columns setStatus writes, whoever calls it.
WithStatus(row, to, role) == [row EXCEPT !.status = to, !.responded = TRUE]

CommitSetStatus(t) ==
  LET i == req[t].interview IN
  /\ pc[t] = "setStatus"
  /\ interview' = [interview EXCEPT ![i] = WithStatus(@, req[t].to, req[t].role)]
  /\ WriteHistory(i, req[t].from, req[t].to, req[t].role)
  /\ Finish(t)

Crash(t) == pc[t] # "idle" /\ RollBack(t)

--------------------------------------------------------------------------------

Init ==
  /\ interview = [i \in Interviews |-> NoRow]
  /\ history   = [i \in Interviews |-> <<>>]
  /\ pc        = [t \in Txns |-> "idle"]
  /\ req       = [t \in Txns |-> NoRequest]
  /\ arrived   = 0

Begin(t) ==
  \/ \E time \in Times, d \in Offers : BeginSchedule(t, time, d)
  \/ \E i \in Interviews :
       \/ \E time \in Times, d \in Offers : BeginReschedule(t, i, time, d)
       \/ BeginCancel(t, i)
       \/ \E to \in CandidateResponses : BeginRespond(t, i, to)

Next ==
  \E t \in Txns :
    \/ Begin(t)
    \/ CommitSchedule(t) \/ CommitReschedule(t) \/ CommitSetStatus(t)
    \/ Crash(t)

Spec == Init /\ [][Next]_vars

--------------------------------------------------------------------------------
(* Properties *)

\* Columns and request fields stay within their enums.
TypeOK ==
  /\ interview \in [Interviews -> Row]
  /\ history \in [Interviews -> Seq(HistoryRow)]
  /\ pc \in [Txns -> {"idle", "schedule", "reschedule", "setStatus"}]
  /\ req \in [Txns -> Request]
  /\ arrived \in Nat

\* The CHECK interviews_responded_at_matches_status never aborts a transaction,
\* although cancels, answers and reschedules overwrite each other blindly.
RespondedMatchesStatus ==
  \A i \in Interviews :
    Exists(i) => (interview[i].status = "scheduled" <=> ~interview[i].responded)

\* A stored interview can be attended: it has the one detail its type asks for,
\* written out, and none of the others. Neither the rule in the code nor the CHECK
\* alone gives this: the one lets a stray blank through, the other a blank address.
DetailsMatchType ==
  \A i \in Interviews : Exists(i) =>
    LET d == interview[i].details IN
    /\ d # Null
    /\ d.location    = IF d.type = "in_person"     THEN "given" ELSE "absent"
    /\ d.meetingLink = IF d.type = "external_link" THEN "given" ELSE "absent"

\* What a request in flight was let through with: an interview that was there, not
\* cancelled when it was read, and details the rule allows.
RequestOK(t) ==
  /\ pc[t] \in {"schedule", "reschedule"} =>
       req[t].details \in Details /\ DetailsAllowed(req[t].details)
  /\ pc[t] \in {"reschedule", "setStatus"} =>
       /\ req[t].interview \in Interviews /\ Exists(req[t].interview)
       /\ ~IsTerminal(req[t].from)
  /\ pc[t] = "setStatus" =>
       \/ req[t].role = "employer" /\ req[t].to = "cancelled"
       \/ req[t].role = "candidate" /\ CanRespond(req[t].from, req[t].to)

\* No CHECK of the table aborts what a request has decided, and what is stored can
\* be attended.
ChecksHold ==
  TypeOK /\ (\A t \in Txns : RequestOK(t)) /\ RespondedMatchesStatus /\ DetailsMatchType

\* BR-08: no status without its history row, whoever raced whom, and no row that
\* its actor was not allowed when the request was read.
HistoryRecordsStatus ==
  \A i \in Interviews :
    LET h == history[i] IN
    /\ Exists(i) <=> h # <<>>
    /\ h # <<>> => h[Len(h)].to = interview[i].status
    /\ \A n \in 2..Len(h) :
         /\ ~IsTerminal(h[n].from)
         /\ h[n].role = "candidate" => /\ h[n].to \in CandidateResponses
                                       /\ h[n].to # h[n].from
         /\ h[n].role = "employer" => h[n].to \in {"scheduled", "cancelled"}

\* Inductive.
IInv == ChecksHold /\ HistoryRecordsStatus

================================================================================
