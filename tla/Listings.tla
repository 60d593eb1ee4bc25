-------------------------------- MODULE Listings --------------------------------
(***************************************************************************)
(* Vacancies and the people who browse them: the writers of a vacancy row  *)
(* (Vacancies) beside what a candidate saves and reports of it and what an *)
(* employer keeps of the candidates (Discovery).  Requests of both kinds   *)
(* count towards one bound.                                                *)
(***************************************************************************)
EXTENDS Vacancies, FiniteSets

CONSTANTS
  Candidates, Notes, Taps   \* Discovery

\* A note is neither the absence of a note nor the absence of a card.
ASSUME NotesAssumption == Null # "unsaved" /\ Notes \cap {Null, "unsaved"} = {}

VARIABLES findable, kept, card, shortlist, complaint, tap   \* Discovery

browsing == <<findable, kept, card, shortlist, complaint, tap>>

Browse == INSTANCE Discovery WITH
  existing <- {v \in Vacancies : Exists(v)},
  visible <- {v \in Vacancies : vacancy[v].status = "active"},
  tapped <- arrived, MaxTaps <- MaxRequests

--------------------------------------------------------------------------------

ListingsInit == Init /\ Browse!Init

ListingsNext == \/ Next /\ UNCHANGED browsing
                \/ Browse!Next /\ UNCHANGED <<vacancy, history, pc, req>>

ListingsSpec == ListingsInit /\ [][ListingsNext]_<<vars, browsing>>

--------------------------------------------------------------------------------
(* Properties *)

\* The keys, the indexes and the CHECKs of these tables hold and abort nothing that
\* was decided before: a vacancy is published and stamped once, closed when it says
\* so, and has one open complaint per reporter.
ListingsHold ==
  /\ TypeOK /\ RequestsOK /\ ChecksHold /\ PublishedOnce
  /\ Browse!TypeOK /\ Browse!OneOpenComplaint

\* Inductive.
ListingsInv == IInv /\ Browse!TypeOK /\ Browse!OneOpenComplaint

\* Nothing a person keeps is lost to somebody else's request, or to another of
\* their own: not the note on a card, not a saved vacancy that closes.
KeptStays == Browse!NotesOutliveSaves /\ Browse!SavedNeverVanishes

================================================================================
