-------------------------------- MODULE Discovery --------------------------------
(***************************************************************************)
(* What people keep and report while they browse: DiscoveryService (the    *)
(* candidate's saved vacancies and complaints) and the saving half of      *)
(* CandidateSearchService (the employer's saved candidates, their notes    *)
(* and the shortlists).                                                    *)
(*                                                                         *)
(* No request here opens a transaction.  A request that writes first       *)
(* checks, in statements of its own, that what it names exists or may be   *)
(* found, and then sends the one statement that writes; whatever has       *)
(* changed between the two is settled by a key or an index.                *)
(***************************************************************************)
EXTENDS Naturals, FiniteSets

CONSTANTS
  Vacancies,   \* ids of vacancies
  Candidates,  \* candidates with a profile; each also browses
  Notes,       \* what an employer may write about a candidate
  Taps,        \* browsing requests in flight at once
  MaxTaps,     \* bound: browsing requests that arrive in one behaviour
  Null         \* no note

VARIABLES
  existing,   \* the vacancies in the table: only ever read here
  visible,    \* those that discovery shows: only ever read here
  findable,   \* candidates who are searchable and complete
  kept,       \* saved_vacancies: pairs of candidate and vacancy
  card,       \* saved_candidates of one employer: candidate -> note, or Unsaved
  shortlist,  \* vacancy_shortlists: pairs of vacancy and candidate
  complaint,  \* open complaints per reporter and vacancy
  tap,        \* what each request is about to write; Idle for none
  tapped      \* browsing requests that have arrived

Unsaved == "unsaved"

Idle == [op |-> "idle"]

mine == <<kept, card, shortlist, complaint>>

Writes ==
  [op : {"save", "report"}, by : Candidates, vacancy : Vacancies]
    \cup [op : {"saveCandidate"}, candidate : Candidates]
    \cup [op : {"note"}, candidate : Candidates, note : Notes \cup {Null}]
    \cup [op : {"shortlist"}, candidate : Candidates, vacancy : Vacancies]

--------------------------------------------------------------------------------
(* The checks that come first *)

\* assertFindable: searchable and complete, or 404.
Findable(candidate) == candidate \in findable

\* report's friendly check: an open complaint of the same person.
AlreadyReported(reporter, v) == complaint[<<reporter, v>>] > 0

\* What a request finds before it writes. assertVacancyExists asks for the row
\* alone, whatever its status; the employer's requests ask whether the candidate
\* could have been found.
Passes(write) ==
  CASE write.op = "save" -> write.vacancy \in existing
    [] write.op = "report" ->
         write.vacancy \in existing /\ ~AlreadyReported(write.by, write.vacancy)
    [] write.op = "shortlist" -> write.vacancy \in existing /\ Findable(write.candidate)
    [] OTHER -> Findable(write.candidate)

--------------------------------------------------------------------------------
(* The statements that write *)

\* report's INSERT: complaints_one_open_per_reporter_idx refuses a second open row.
FileComplaint(reporter, v) ==
  complaint' = IF AlreadyReported(reporter, v) THEN complaint
               ELSE [complaint EXCEPT ![<<reporter, v>>] = 1]

\* save's INSERT ... ON CONFLICT DO NOTHING.
SaveCard(candidate) ==
  card' = IF card[candidate] # Unsaved THEN card
          ELSE [card EXCEPT ![candidate] = Null]

\* setNote's upsert: a note cannot exist without the save.
WriteNote(candidate, note) == card' = [card EXCEPT ![candidate] = note]

Write(write) ==
  \/ /\ write.op = "save"
     /\ kept' = kept \cup {<<write.by, write.vacancy>>}
     /\ UNCHANGED <<card, shortlist, complaint>>
  \/ /\ write.op = "report"
     /\ FileComplaint(write.by, write.vacancy)
     /\ UNCHANGED <<kept, card, shortlist>>
  \/ /\ write.op = "saveCandidate"
     /\ SaveCard(write.candidate)
     /\ UNCHANGED <<kept, shortlist, complaint>>
  \/ /\ write.op = "note"
     /\ WriteNote(write.candidate, write.note)
     /\ UNCHANGED <<kept, shortlist, complaint>>
  \/ /\ write.op = "shortlist"
     /\ shortlist' = shortlist \cup {<<write.vacancy, write.candidate>>}
     /\ UNCHANGED <<kept, card, complaint>>

--------------------------------------------------------------------------------
(* The requests *)

\* A request that passed its checks and has yet to write.
Begin(t, write) ==
  /\ tap[t] = Idle /\ tapped < MaxTaps
  /\ Passes(write)
  /\ tap' = [tap EXCEPT ![t] = write]
  /\ tapped' = tapped + 1
  /\ UNCHANGED <<findable, mine>>

Commit(t) ==
  /\ tap[t] # Idle
  /\ Write(tap[t])
  /\ tap' = [tap EXCEPT ![t] = Idle]
  /\ UNCHANGED <<findable, tapped>>

\* The process dies, or the client goes, between the check and the write.
Die(t) ==
  /\ tap[t] # Idle
  /\ tap' = [tap EXCEPT ![t] = Idle]
  /\ UNCHANGED <<findable, mine, tapped>>

\* unsave and unshortlist: one DELETE each, of whatever is there.
Forget ==
  /\ tapped < MaxTaps
  /\ \/ /\ \E k \in kept : kept' = kept \ {k}
        /\ UNCHANGED <<card, shortlist, complaint>>
     \/ /\ \E c \in Candidates : card[c] # Unsaved /\ card' = [card EXCEPT ![c] = Unsaved]
        /\ UNCHANGED <<kept, shortlist, complaint>>
     \/ /\ \E s \in shortlist : shortlist' = shortlist \ {s}
        /\ UNCHANGED <<kept, card, complaint>>
  /\ tapped' = tapped + 1
  /\ UNCHANGED <<findable, tap>>

\* A moderator closes a complaint (the review queue is not in this repository).
Review ==
  /\ \E p \in Candidates \X Vacancies :
       complaint[p] > 0 /\ complaint' = [complaint EXCEPT ![p] = @ - 1]
  /\ UNCHANGED <<findable, kept, card, shortlist, tap, tapped>>

\* A candidate hides, or comes back (setVisibility, or completeness, changes).
Toggle ==
  /\ tapped < MaxTaps
  /\ \E c \in Candidates :
       findable' = IF c \in findable THEN findable \ {c} ELSE findable \cup {c}
  /\ tapped' = tapped + 1
  /\ UNCHANGED <<mine, tap>>

--------------------------------------------------------------------------------
(* The lists *)

\* The scope of listSaved and of listShortlist over the one query of every list
\* of cards, whose WHERE starts with BR-02's gate.
SavedCards == {c \in Candidates : card[c] # Unsaved /\ Findable(c)}

ShortlistCards(v) == {c \in Candidates : <<v, c>> \in shortlist /\ Findable(c)}

\* Mutant: the saved list starts from the predicate of discovery, as the feeds do.
SavedFeedVisible(candidate) == {v \in existing : <<candidate, v>> \in kept /\ v \in visible}

\* saved: the candidate's list, joined with the vacancies and not with the
\* predicate of discovery.
SavedFeed(candidate) == {v \in existing : <<candidate, v>> \in kept}

--------------------------------------------------------------------------------

Init ==
  /\ findable = Candidates
  /\ kept = {} /\ shortlist = {}
  /\ card = [c \in Candidates |-> Unsaved]
  /\ complaint = [p \in Candidates \X Vacancies |-> 0]
  /\ tap = [t \in Taps |-> Idle]
  /\ tapped = 0

Next == \/ \E t \in Taps : \/ \E w \in Writes : Begin(t, w)
                           \/ Commit(t)
                           \/ Die(t)
        \/ Forget \/ Review \/ Toggle

--------------------------------------------------------------------------------
(* Properties *)

TypeOK ==
  /\ findable \subseteq Candidates
  /\ kept \subseteq Candidates \X Vacancies /\ shortlist \subseteq Vacancies \X Candidates
  /\ card \in [Candidates -> Notes \cup {Null, Unsaved}]
  /\ complaint \in [Candidates \X Vacancies -> Nat]
  /\ tap \in [Taps -> Writes \cup {Idle}]

\* One open complaint per reporter and vacancy, although two taps may both find
\* none before either writes, and a moderator may close one in between.
OneOpenComplaint == \A p \in Candidates \X Vacancies : complaint[p] <= 1

\* A saved candidate keeps the note until the employer unsaves the card or writes
\* another note: no save that arrives late empties it.
NotesOutliveSaves ==
  [][\A c \in Candidates :
       card[c] \in Notes /\ card'[c] = Null =>
         \E t \in Taps : tap[t].op = "note" /\ tap[t].candidate = c]_card

\* "Needs to see that it closed, not have it silently vanish": nothing that
\* happens to a vacancy takes it out of a list it was saved to.
SavedNeverVanishes ==
  [][\A c \in Candidates : \A v \in SavedFeed(c) \ SavedFeed(c)' : <<c, v>> \notin kept']_<<kept, existing, visible>>

================================================================================
