------------------------------ MODULE Invitations -------------------------------
(***************************************************************************)
(* InvitationsService: an employer invites a candidate to a vacancy or in  *)
(* general (BR-03, section 8.2), and the candidate answers.                *)
(*                                                                         *)
(* The gates of invite are read before its transaction opens; what keeps   *)
(* one open invitation per slot is a partial unique index, and what keeps  *)
(* an answer final is respond's FOR UPDATE.  PostgreSQL at READ COMMITTED: *)
(* writes are published by Commit actions.  The idempotency key around the *)
(* insert is module Idempotency; a request here is one attempt.            *)
(***************************************************************************)
EXTENDS Naturals, Sequences

CONSTANTS
  Employers,    \* verified employers
  Candidates,   \* users with a candidate profile
  Vacancies,
  Owner,        \* vacancies.employer_user_id
  Invitations,  \* ids the invitations table may hand out
  Txns,         \* requests that can be in flight at once
  MaxRequests,  \* bound: requests that arrive in one behaviour
  Null          \* a column or a field that is not set

VARIABLES
  openVacancies,  \* vacancies isOpenForApplications says yes to; not written here
  searchable,     \* candidates found in search; not written here
  invitation,     \* the invitations table: id -> row
  history,        \* invitation_status_history, per invitation, in order
  pc,             \* the statement a request is about to run
  req,            \* what it carries and has read
  arrived         \* requests that have arrived

tables == <<invitation, history>>

vars == <<openVacancies, searchable, invitation, history, pc, req, arrived>>

--------------------------------------------------------------------------------
(* invitation-status.ts *)

InvitationStatuses == {"sent", "details_requested", "accepted", "declined"}

NoStatus == "none"

IsTerminal(status) == status \in {"accepted", "declined"}

CandidateResponses == {"accepted", "declined", "details_requested"}

CanRespond(from, to) ==
  /\ ~IsTerminal(from)
  /\ to \in CandidateResponses
  /\ to # from

OccupiesOpenSlot(status) == status \in {"sent", "details_requested"}

--------------------------------------------------------------------------------
(* Rows and requests *)

\* What the unique index keys on; a general invitation has no vacancy.
Slots == [employer  : Employers,
          candidate : Candidates,
          vacancy   : Vacancies \cup {Null}]

Row == [slot      : Slots \cup {Null},
        status    : InvitationStatuses \cup {NoStatus},
        responded : BOOLEAN]              \* responded_at IS NOT NULL

NoRow == [slot |-> Null, status |-> NoStatus, responded |-> FALSE]

HistoryRow == [from : InvitationStatuses \cup {NoStatus},
               to   : InvitationStatuses,
               role : {"employer", "candidate"}]

Request == [slot       : Slots \cup {Null},
            invitation : Invitations \cup {Null},
            from       : InvitationStatuses \cup {NoStatus},
            to         : InvitationStatuses \cup {NoStatus}]

NoRequest == [slot |-> Null, invitation |-> Null, from |-> NoStatus, to |-> NoStatus]

Exists(i) == invitation[i].status # NoStatus

--------------------------------------------------------------------------------
(* Indexes and locks *)

\* The rows invitations_one_open_idx covers.
OpenRows(s) ==
  {i \in Invitations : /\ invitation[i].slot = s
                       /\ OccupiesOpenSlot(invitation[i].status)}

\* Uncommitted entries in that index.
PendingInserts(s) == {t \in Txns : pc[t] = "commitInvite" /\ req[t].slot = s}

\* Mutant: respond reads the invitation without FOR UPDATE.
UpdateHoldersNone(i) == {}

\* SELECT ... FOR UPDATE on the invitation, then its UPDATE.
UpdateHolders(i) ==
  {t \in Txns : pc[t] = "commitRespond" /\ req[t].invitation = i}

WaitsFor(t) ==
  CASE pc[t] = "insert" ->
         PendingInserts(req[t].slot)
           \cup UNION {UpdateHolders(i) : i \in OpenRows(req[t].slot)}
    [] pc[t] = "lock"   -> UpdateHolders(req[t].invitation)
    [] OTHER            -> {}

Granted(t) == WaitsFor(t) = {}

--------------------------------------------------------------------------------
(* Control *)

Arrive(t, statement, request) ==
  /\ pc[t] = "idle"
  /\ arrived < MaxRequests
  /\ pc' = [pc EXCEPT ![t] = statement]
  /\ req' = [req EXCEPT ![t] = request]
  /\ arrived' = arrived + 1
  /\ UNCHANGED tables

Goto(t, next) ==
  /\ pc' = [pc EXCEPT ![t] = next]
  /\ UNCHANGED arrived

Finish(t) == Goto(t, "idle") /\ req' = [req EXCEPT ![t] = NoRequest]

Refuse(t) == Finish(t) /\ UNCHANGED tables

--------------------------------------------------------------------------------
(* invite *)

\* The gates: a candidate found in search, a vacancy of one's own that is open.
BeginInvite(t, s) ==
  /\ s.candidate \in searchable
  /\ s.vacancy # Null => Owner[s.vacancy] = s.employer /\ s.vacancy \in openVacancies
  /\ Arrive(t, "check", [NoRequest EXCEPT !.slot = s])

\* The friendly check.
CheckOpen(t) ==
  /\ pc[t] = "check"
  /\ \/ OpenRows(req[t].slot) = {} /\ Goto(t, "insert") /\ UNCHANGED <<tables, req>>
     \/ OpenRows(req[t].slot) # {} /\ Refuse(t)

\* The unique index decides.
Insert(t) ==
  /\ pc[t] = "insert"
  /\ Granted(t)
  /\ \/ /\ OpenRows(req[t].slot) = {}
        /\ \E i \in Invitations :
             /\ ~Exists(i)
             /\ \A u \in Txns : ~(pc[u] = "commitInvite" /\ req[u].invitation = i)
             /\ req' = [req EXCEPT ![t].invitation = i, ![t].to = "sent"]
        /\ Goto(t, "commitInvite")
        /\ UNCHANGED tables
     \/ OpenRows(req[t].slot) # {} /\ Refuse(t)

Record(i, from, to, role) ==
  history' = [history EXCEPT ![i] = Append(@, [from |-> from, to |-> to, role |-> role])]

CommitInvite(t) ==
  /\ pc[t] = "commitInvite"
  /\ invitation' = [invitation EXCEPT ![req[t].invitation] =
                      [slot |-> req[t].slot, status |-> "sent", responded |-> FALSE]]
  /\ Record(req[t].invitation, NoStatus, "sent", "employer")
  /\ Finish(t)

--------------------------------------------------------------------------------
(* respond *)

BeginRespond(t, i, to) ==
  /\ Exists(i)
  /\ Arrive(t, "lock", [NoRequest EXCEPT !.invitation = i, !.to = to])

\* FOR UPDATE, and the checks on the row as the lock returns it.
LockInvitation(t) ==
  LET status == invitation[req[t].invitation].status IN
  /\ pc[t] = "lock"
  /\ Granted(t)
  /\ \/ /\ CanRespond(status, req[t].to)
        /\ req' = [req EXCEPT ![t].from = status]
        /\ Goto(t, "commitRespond")
        /\ UNCHANGED tables
     \/ ~CanRespond(status, req[t].to) /\ Refuse(t)

\* Mutant: the answer keeps responded_at for the endings.
AnsweredTerminalOnly(row, to) ==
  [row EXCEPT !.status = to, !.responded = IsTerminal(to)]

\* The columns an answer writes.
Answered(row, to) == [row EXCEPT !.status = to, !.responded = TRUE]

CommitRespond(t) ==
  LET i == req[t].invitation IN
  /\ pc[t] = "commitRespond"
  /\ invitation' = [invitation EXCEPT ![i] = Answered(@, req[t].to)]
  /\ Record(i, req[t].from, req[t].to, "candidate")
  /\ Finish(t)

--------------------------------------------------------------------------------

\* The process dies or the connection drops: the open transaction rolls back.
Rollback(t) == pc[t] # "idle" /\ Refuse(t)

Init ==
  /\ invitation = [i \in Invitations |-> NoRow]
  /\ history    = [i \in Invitations |-> <<>>]
  /\ pc         = [t \in Txns |-> "idle"]
  /\ req        = [t \in Txns |-> NoRequest]

Next ==
  \E t \in Txns :
    \/ \E s \in Slots : BeginInvite(t, s)
    \/ \E i \in Invitations, to \in CandidateResponses : BeginRespond(t, i, to)
    \/ CheckOpen(t) \/ Insert(t) \/ CommitInvite(t)
    \/ LockInvitation(t) \/ CommitRespond(t)
    \/ Rollback(t)

--------------------------------------------------------------------------------
(* Properties *)

\* Columns and request fields stay within their ranges.
TypeOK ==
  /\ openVacancies \subseteq Vacancies
  /\ searchable \subseteq Candidates
  /\ invitation \in [Invitations -> Row]
  /\ history \in [Invitations -> Seq(HistoryRow)]
  /\ pc \in [Txns -> {"idle", "check", "insert", "commitInvite", "lock", "commitRespond"}]
  /\ req \in [Txns -> Request]
  /\ arrived \in Nat

\* One open invitation per employer, candidate and vacancy, general invitations
\* included, however invites race each other and the answers that free the slot.
OneOpenPerSlot ==
  \A i, j \in Invitations :
    (/\ Exists(i) /\ invitation[i].slot = invitation[j].slot
     /\ OccupiesOpenSlot(invitation[i].status)
     /\ OccupiesOpenSlot(invitation[j].status)) => i = j

\* An answer is final and is written once: the history is the unbroken chain of
\* the statuses, each a legal answer to the one before, and responded_at is set
\* exactly when there has been an answer.
AnswersAreChain ==
  \A i \in Invitations :
    LET h == history[i] IN
    /\ Exists(i) <=> h # <<>>
    /\ h # <<>> => /\ h[1] = [from |-> NoStatus, to |-> "sent", role |-> "employer"]
                   /\ h[Len(h)].to = invitation[i].status
                   /\ invitation[i].responded <=> Len(h) > 1
    /\ \A n \in 2..Len(h) : h[n].from = h[n-1].to /\ CanRespond(h[n].from, h[n].to)

\* What a request carries: a slot to invite to, an invitation that is there unless the
\* request is about to insert it, and a status that is the row's for as long as it
\* holds the row.
RequestOK(t) ==
  LET r == req[t] IN
  /\ pc[t] = "idle" => r = NoRequest
  /\ pc[t] \in {"check", "insert", "commitInvite"} => r.slot \in Slots
  /\ pc[t] \in {"commitInvite", "lock", "commitRespond"} =>
       r.invitation \in Invitations /\ (Exists(r.invitation) <=> pc[t] # "commitInvite")
  /\ pc[t] = "commitInvite" => OpenRows(r.slot) = {}
  /\ pc[t] \in {"lock", "commitRespond"} => r.to \in CandidateResponses
  /\ pc[t] = "commitRespond" =>
       r.from = invitation[r.invitation].status /\ CanRespond(r.from, r.to)

\* One pending insert per slot and per id, one holder per row.
LocksOK ==
  \A t, u \in Txns : t # u =>
    /\ pc[t] = "commitInvite" /\ pc[u] = "commitInvite" =>
         req[t].slot # req[u].slot /\ req[t].invitation # req[u].invitation
    /\ pc[t] = "commitRespond" /\ pc[u] = "commitRespond" =>
         req[t].invitation # req[u].invitation

\* Inductive.
IInv ==
  /\ TypeOK /\ (\A t \in Txns : RequestOK(t)) /\ LocksOK
  /\ OneOpenPerSlot /\ AnswersAreChain

================================================================================
