------------------------------- MODULE Engagement -------------------------------
(***************************************************************************)
(* What opens the way from an employer to a candidate, and what travels    *)
(* on it: applications and invitations make the hiring interaction         *)
(* (HiringInteractionService.between), and the chat and the candidate's    *)
(* contact details ask it live.                                            *)
(*                                                                         *)
(* Applications enter as HiringBoard, the abstract specification that      *)
(* module Applications implements; Invitations and Chat enter with their   *)
(* statements and locks.  One employer owns all vacancies of the board.    *)
(***************************************************************************)
EXTENDS Naturals

CONSTANTS
  Employer,      \* the employer whose vacancies these are
  Candidates, Vacancies, Apps,
  Invites,       \* ids the invitations table may hand out
  Threads,       \* ids the conversations table may hand out
  Txns,          \* requests in flight at once, in each service
  Moves,         \* stages the board moves applications to
  MaxRequests,   \* bound: operations that begin in one behaviour
  Null

ASSUME NullAssumption ==
  Null \notin {Employer} \cup Candidates \cup Vacancies \cup Apps \cup Invites \cup Threads

ASSUME BoundAssumption == MaxRequests \in Nat

VARIABLES
  vacancyStatus, hiredCount, application, stageHistory, interviews,  \* HiringBoard
  searchable,                                                        \* candidate_profiles
  invitation, invitationHistory, invitePc, inviteReq,                \* Invitations
  thread, messages, block, clock, chatPc, chatReq,                   \* Chat
  arrived

board      == <<vacancyStatus, hiredCount, application, stageHistory, interviews>>
inviteVars == <<invitation, invitationHistory, invitePc, inviteReq>>
chatVars   == <<thread, messages, block, clock, chatPc, chatReq>>

vars == <<board, searchable, inviteVars, chatVars, arrived>>

--------------------------------------------------------------------------------
(* HiringInteractionService and BR-09 *)

AcceptedInvitation(c) ==
  \E i \in Invites : /\ invitation[i].status = "accepted"
                     /\ invitation[i].slot.candidate = c

\* An application in any status but withdrawn.
StandingApplication(c) ==
  \E a \in Apps : /\ application[a].candidate = c
                  /\ application[a].status # "withdrawn"

Between(c) == StandingApplication(c) \/ AcceptedInvitation(c)

Linked == {<<Employer, c>> : c \in {d \in Candidates : Between(d)}}

\* isOpenForApplications, the deadline left to module Applications.
OpenVacancies == {v \in Vacancies : vacancyStatus[v] = "active"}

Board == INSTANCE HiringBoard

Invite == INSTANCE Invitations
  WITH Employers <- {Employer}, Owner <- [v \in Vacancies |-> Employer],
       Invitations <- Invites, openVacancies <- OpenVacancies,
       history <- invitationHistory, pc <- invitePc, req <- inviteReq

Talk == INSTANCE Chat
  WITH Employers <- {Employer}, linked <- Linked, pc <- chatPc, req <- chatReq

--------------------------------------------------------------------------------

Init == Board!Init /\ searchable = Candidates /\ Invite!Init /\ Talk!Init /\ arrived = 0

Operation == arrived < MaxRequests /\ arrived' = arrived + 1

Apply(a, v, c) ==
  Board!Apply(a, v, c) /\ Operation /\ UNCHANGED <<searchable, inviteVars, chatVars>>

Move(a, to) ==
  Board!Move(a, to) /\ Operation /\ UNCHANGED <<searchable, inviteVars, chatVars>>

CloseVacancy(v) ==
  /\ vacancyStatus[v] # "closed"
  /\ Board!SetVacancyStatus(v, "closed")
  /\ Operation
  /\ UNCHANGED <<searchable, inviteVars, chatVars>>

\* CandidatesService.setVisibility.
SetVisibility(c) ==
  /\ searchable' = IF c \in searchable THEN searchable \ {c} ELSE searchable \cup {c}
  /\ Operation
  /\ UNCHANGED <<board, inviteVars, chatVars>>

Inviting == Invite!Next /\ UNCHANGED <<board, searchable, chatVars>>

Talking == Talk!Next /\ UNCHANGED <<board, searchable, inviteVars>>

Next ==
  \/ \E a \in Apps, v \in Vacancies, c \in Candidates : Apply(a, v, c)
  \/ \E a \in Apps, to \in Moves : Move(a, to)
  \/ \E v \in Vacancies : CloseVacancy(v)
  \/ \E c \in Candidates : SetVisibility(c)
  \/ Inviting
  \/ Talking

Spec == Init /\ [][Next]_vars

--------------------------------------------------------------------------------
(* Properties *)

\* A candidate who applied, if only to withdraw later, or who accepted an invitation
\* that nothing has overwritten since.
Consented(c) ==
  \/ \E a \in Apps : application[a].candidate = c
  \/ AcceptedInvitation(c)

\* Applications name their candidate from the first stage on.
BoardOK ==
  /\ application \in [Apps -> [status    : Board!ApplicationStatuses \cup {Board!NoStatus},
                               vacancy   : Vacancies \cup {Null},
                               candidate : Candidates \cup {Null}]]
  /\ \A a \in Apps : application[a].status = Board!NoStatus => application[a].candidate = Null

\* A send that is past its gate is to somebody who consented.
GatesPassed ==
  \A t \in Txns : chatPc[t] \in {"insertMessage", "touch", "commitMessage"} =>
    Consented(thread[chatReq[t].thread].pair[2])

\* What both sides see of each other stays in order: one open invitation per slot,
\* an answer that stays an answer, one thread per pair, and a last activity that some
\* message really had; and so does what requests in flight have read of it.
RowsHold == Invite!IInv /\ Talk!IInv /\ BoardOK /\ GatesPassed

\* A block stops every message that had not passed the gate before it.
BlockStopsSends == Talk!BlockStopsSends

\* Reading a thread covers every message that was shown.
MarkCoversSeen == Talk!MarkCoversSeen

\* Section 9.1, BR-09: nobody writes to a stranger.  Behind every message stands
\* an application or an accepted invitation of the candidate it was written to or by.
MessagesNeedConsent ==
  \A c \in Threads : messages[c] # {} => Consented(thread[c].pair[2])

\* Inductive.
IInv == RowsHold /\ MessagesNeedConsent

================================================================================
