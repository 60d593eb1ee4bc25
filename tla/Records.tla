--------------------------------- MODULE Records ---------------------------------
(***************************************************************************)
(* The employer's records: the profile and its verification (Employers)    *)
(* over the files of the same account (Files).                             *)
(*                                                                         *)
(* A submission names files by id.  They are looked up before the          *)
(* transaction that records it, and their owner may remove them, or upload *)
(* others, at any time.                                                    *)
(***************************************************************************)
EXTENDS Naturals, Sequences, FiniteSets

CONSTANTS
  Answers, Evidence, Submissions,             \* Employers
  Ids, Messages, Purposes, Slots, MaxCount,   \* Files
  Txns,         \* requests in flight at once, in each service
  MaxRequests,  \* bound: requests that arrive in one behaviour
  Null

ASSUME IdsAssumption == IsFiniteSet(Ids)

ASSUME BoundAssumption == MaxRequests \in Nat

ASSUME EvidenceAssumption == Evidence \subseteq SUBSET Ids

ASSUME SlotsAssumption == Slots \subseteq Purposes /\ MaxCount \in [Slots -> Nat \ {0}]

VARIABLES
  review, profile, company, submission, history, employerPc, employerReq,  \* Employers
  file, chat, clock, overfull, removed, filePc, fileReq,                    \* Files
  arrived

employers == <<review, profile, company, submission, history, employerPc, employerReq>>
files     == <<file, chat, clock, overfull, removed, filePc, fileReq>>

vars == <<employers, files, arrived>>

File == INSTANCE Files WITH pc <- filePc, req <- fileReq

Employer == INSTANCE Employers WITH
  live <- File!LiveFiles, purposeOf <- [f \in Ids |-> file[f].purpose],
  pc <- employerPc, req <- employerReq

ASSUME NullAssumption ==
  /\ Null \notin Submissions \cup Ids \cup Messages \cup Purposes
               \cup Employer!Statuses \cup Employer!Ops
  /\ \A columns \in SUBSET Employer!CompanyColumns : columns # Null

--------------------------------------------------------------------------------

Init == Employer!Init /\ File!Init /\ arrived = 0

Next == \/ UNCHANGED files /\ Employer!Next
        \/ UNCHANGED employers /\ File!Next

Spec == Init /\ [][Next]_vars

--------------------------------------------------------------------------------
(* Properties *)

\* The employer's stored completeness is that of the answers, at most one submission is
\* open where there is a review, and requests in flight rely on nothing that moved.
EmployerHolds == Employer!IInv

\* No badge without the documents its type requires.
VerifiedHasEvidence == Employer!VerifiedHasEvidence

\* The last history row names the status the employer has.
HistoryNamesStatus == Employer!HistoryNamesStatus

\* The rows and the chat agree: a live file can be fetched, only a file that newer
\* ones outnumber is retired, and a slot never ends up over its limit.
FilesHold == File!IInv /\ File!SlotHolds

\* Inductive.
IInv == Employer!IInv /\ File!IInv /\ arrived \in Nat

================================================================================
