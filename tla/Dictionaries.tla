------------------------------ MODULE Dictionaries ------------------------------
(***************************************************************************)
(* One dictionary type: the seeders that write it at a deployment          *)
(* (seed/dictionary-seed.ts), the revision every write takes from one      *)
(* sequence, and the clients that keep a copy of it by deltas              *)
(* (DictionariesService, DictionariesController).                          *)
(*                                                                         *)
(* A seeder is one transaction that walks the items in the order of the    *)
(* data file, reads each and writes only what differs; two may overlap     *)
(* when a deployment is started again.  PostgreSQL makes the second writer *)
(* of a row wait for the first, and then write over what it had not read.  *)
(* A client's request is three statements outside any transaction.         *)
(*                                                                         *)
(* The four labels of an item, which are written together, are one row.    *)
(***************************************************************************)
EXTENDS Naturals, Sequences, FiniteSets

CONSTANTS
  Items,       \* the codes of the data file, in its order
  Declared,    \* what each release declares: release -> code -> [facts, text]
  Corrected,   \* the label the office gives an item
  Seeders,     \* seed processes that may overlap
  MaxSeeds,    \* bound: seeders started in one behaviour
  MaxActs,     \* bound: acts of the office in one behaviour
  MaxLosses,   \* bound: answers lost on the way
  Null

Codes == {Items[k] : k \in DOMAIN Items}

Releases == DOMAIN Declared

Texts == {Corrected} \cup {Declared[r][c].text : r \in Releases, c \in Codes}

ItemRows == [facts : {Declared[r][c].facts : r \in Releases, c \in Codes},
             active : BOOLEAN, merged : Codes \cup {Null}, rev : Nat \ {0}]

LabelRows == [text : Texts, rev : Nat \ {0}]

ASSUME BoundsAssumption == {MaxSeeds, MaxActs, MaxLosses} \subseteq Nat

ASSUME ItemsAssumption ==
  /\ Items \in Seq(Codes) /\ Items # <<>>
  /\ \A j, k \in DOMAIN Items : Items[j] = Items[k] => j = k
  /\ Declared \in Seq({Declared[r] : r \in Releases}) /\ Declared # <<>>

ASSUME NullAssumption == /\ Null \notin Codes /\ Null \notin Nat
                         /\ Null \notin ItemRows /\ Null \notin LabelRows

VARIABLES
  item,     \* dictionary_items, committed: code -> row or Null
  label,    \* dictionary_item_translations, committed: code -> row or Null
  seq,      \* dictionary_revision_seq, which no rollback gives back
  release,  \* the release whose data file is being deployed
  seeder,   \* the seed processes
  client,   \* one client's copy, and the version and the tag it holds it under
  fetch,    \* that client's request
  seeds, acts, losses

vars == <<item, label, seq, release, seeder, client, fetch, seeds, acts, losses>>

Facts(c) == Declared[release][c].facts

Text(c) == Declared[release][c].text

Nothing == [c \in Codes |-> Null]

--------------------------------------------------------------------------------
(* What a client is told *)

\* An item's revision is its own or its labels', whichever is newer.
Effective(c) ==
  IF label[c] # Null /\ label[c].rev > item[c].rev THEN label[c].rev ELSE item[c].rev

\* typeVersions: the newest revision anywhere in the type.
TypeVersion ==
  LET revs == {0} \cup {Effective(c) : c \in {d \in Codes : item[d] # Null}}
  IN CHOOSE r \in revs : \A q \in revs : q <= r

\* The WHERE of resolveRows; a row without a label is dropped by warnOnFallback.
Changed(since) ==
  {c \in Codes : item[c] # Null /\ label[c] # Null /\ Effective(c) > since}

\* delta: an item goes to `items`, or to `removed` with the reason.
Content(c) ==
  IF item[c] = Null \/ label[c] = Null THEN [kind |-> "absent"]
  ELSE IF item[c].merged # Null THEN [kind |-> "merged", into |-> item[c].merged]
  ELSE IF ~item[c].active THEN [kind |-> "inactive"]
  ELSE [kind |-> "offered", facts |-> item[c].facts, text |-> label[c].text]

\* usable, of the validator: the ids a write may store.
Usable(c) == item[c] # Null /\ item[c].active /\ item[c].merged = Null

--------------------------------------------------------------------------------
(* A client's request *)

NoFetch == [pc |-> "idle"]

unread == <<item, label, seq, release, seeder, seeds, acts>>

\* The controller computes the tag; a client whose tag it is gets a 304, which
\* changes nothing.
AskTag ==
  /\ fetch.pc = "idle" /\ TypeVersion # client.tag
  /\ fetch' = [pc |-> "tagged", tag |-> TypeVersion]
  /\ UNCHANGED <<unread, client, losses>>

\* delta reads the version first,
ReadVersion ==
  /\ fetch.pc = "tagged"
  /\ fetch' = [pc |-> "versioned", tag |-> fetch.tag, version |-> TypeVersion]
  /\ UNCHANGED <<unread, client, losses>>

\* and then, in a statement of its own, the rows.
ReadRows ==
  /\ fetch.pc = "versioned"
  /\ fetch' = [pc |-> "answered", tag |-> fetch.tag, version |-> fetch.version,
               rows |-> [c \in Changed(client.version) |-> Content(c)]]
  /\ UNCHANGED <<unread, client, losses>>

\* Mutant: the version of the answer is read after its rows.
AbsorbLateVersion(answer) ==
  [cache |-> [c \in Codes |-> IF c \in DOMAIN answer.rows THEN answer.rows[c] ELSE client.cache[c]],
   version |-> TypeVersion, tag |-> answer.tag]

\* What a client makes of an answer: the next `since` is the answer's version.
Absorb(answer) ==
  [cache |-> [c \in Codes |-> IF c \in DOMAIN answer.rows THEN answer.rows[c] ELSE client.cache[c]],
   version |-> answer.version, tag |-> answer.tag]

Deliver ==
  /\ fetch.pc = "answered"
  /\ client' = Absorb(fetch)
  /\ fetch' = NoFetch
  /\ UNCHANGED <<unread, losses>>

Lose ==
  /\ fetch.pc # "idle" /\ losses < MaxLosses
  /\ fetch' = NoFetch
  /\ losses' = losses + 1
  /\ UNCHANGED <<unread, client>>

Fetching == AskTag \/ ReadVersion \/ ReadRows \/ Deliver

--------------------------------------------------------------------------------
(* The seeder *)

Idle ==
  [pc |-> "idle", at |-> 1, seen |-> Null, item |-> Nothing, label |-> Nothing, silent |-> FALSE]

Running(s) == seeder[s].pc \notin {"idle", "done"}

\* Mutant: one of two seeders walks the file from its end.
PlaceBackwards(s) ==
  IF s = (CHOOSE t \in Seeders : TRUE) THEN Items[seeder[s].at]
  ELSE Items[Len(Items) + 1 - seeder[s].at]

\* The item a seeder is at.
Place(s) == Items[seeder[s].at]

\* What a statement of the seeder's transaction sees: its own writes, or what is
\* committed.
ItemSeen(s, c) == IF seeder[s].item[c] # Null THEN seeder[s].item[c] ELSE item[c]

LabelSeen(s, c) == IF seeder[s].label[c] # Null THEN seeder[s].label[c] ELSE label[c]

\* A row that another transaction has written is waited for.
ItemFree(s, c) == \A t \in Seeders \ {s} : seeder[t].item[c] = Null

LabelFree(s, c) == \A t \in Seeders \ {s} : seeder[t].label[c] = Null

\* dictionary_bump_revision, before every insert and update of either table.
Revision == seq + 1

WriteItem(s, c, row, pc) ==
  /\ seeder' = [seeder EXCEPT ![s].item[c] = [row EXCEPT !.rev = Revision], ![s].pc = pc]
  /\ seq' = seq + 1

\* The next item, or the end of the transaction.
Onward(s, me) ==
  IF me.at = Len(Items) THEN [me EXCEPT !.pc = "commit"]
  ELSE [me EXCEPT !.at = @ + 1, !.pc = "item"]

\* seedLabels: the rows are read and only what differs is written.
LabelsDiffer(s) ==
  LET row == LabelSeen(s, Place(s)) IN row = Null \/ row.text # Text(Place(s))

\* Mutant: only what this seeder inserted is activated.
NeedsActivationNew(s) == seeder[s].seen = Null

\* if (!existing?.is_active), of the row as it was read at first.
NeedsActivation(s) == seeder[s].seen = Null \/ ~seeder[s].seen.active

AfterLabels(s, me) == IF NeedsActivation(s) THEN [me EXCEPT !.pc = "activate"] ELSE Onward(s, me)

settled ==
  \A c \in Codes : /\ item[c] # Null /\ item[c].facts = Facts(c) /\ item[c].active
                   /\ label[c] # Null /\ label[c].text = Text(c)

Start(s) ==
  /\ ~Running(s) /\ seeds < MaxSeeds
  /\ seeder' = [seeder EXCEPT ![s] = [Idle EXCEPT !.pc = "item", !.silent = settled]]
  /\ seeds' = seeds + 1
  /\ UNCHANGED <<item, label, seq, release, client, fetch, acts, losses>>

shared == <<item, label, release, client, fetch, seeds, acts, losses>>

ReadItem(s) ==
  LET row == ItemSeen(s, Place(s)) IN
  /\ seeder[s].pc = "item"
  /\ seeder' = [seeder EXCEPT
       ![s].seen = row,
       ![s].pc = IF row = Null THEN "insert"
                 ELSE IF row.facts # Facts(Place(s)) THEN "update" ELSE "labels"]
  /\ UNCHANGED <<shared, seq>>

\* The lost race on dictionary_items_type_code_key ends the whole seed.
InsertItem(s) ==
  LET c == Place(s) IN
  /\ seeder[s].pc = "insert" /\ ItemFree(s, c)
  /\ \/ /\ item[c] = Null
        /\ WriteItem(s, c, [facts |-> Facts(c), active |-> FALSE, merged |-> Null, rev |-> 1], "labels")
     \/ /\ item[c] # Null
        /\ seeder' = [seeder EXCEPT ![s] = Idle]
        /\ seq' = seq + 1
  /\ UNCHANGED shared

UpdateItem(s) ==
  LET c == Place(s) IN
  /\ seeder[s].pc = "update" /\ ItemFree(s, c)
  /\ WriteItem(s, c, [ItemSeen(s, c) EXCEPT !.facts = Facts(c)], "labels")
  /\ UNCHANGED shared

ReadLabels(s) ==
  /\ seeder[s].pc = "labels"
  /\ seeder' = [seeder EXCEPT
       ![s] = IF LabelsDiffer(s) THEN [@ EXCEPT !.pc = "write"] ELSE AfterLabels(s, @)]
  /\ UNCHANGED <<shared, seq>>

WriteLabels(s) ==
  LET c == Place(s) IN
  /\ seeder[s].pc = "write" /\ LabelFree(s, c)
  /\ seeder' = [seeder EXCEPT
       ![s] = AfterLabels(s, [@ EXCEPT !.label[c] = [text |-> Text(c), rev |-> Revision]])]
  /\ seq' = seq + 1
  /\ UNCHANGED shared

Activate(s) ==
  LET c == Place(s) IN
  /\ seeder[s].pc = "activate" /\ ItemFree(s, c)
  /\ seeder' = [seeder EXCEPT
       ![s] = Onward(s, [@ EXCEPT !.item[c] = [ItemSeen(s, c) EXCEPT !.active = TRUE, !.rev = Revision]])]
  /\ seq' = seq + 1
  /\ UNCHANGED shared

Commit(s) ==
  /\ seeder[s].pc = "commit"
  /\ item' = [c \in Codes |-> ItemSeen(s, c)]
  /\ label' = [c \in Codes |-> LabelSeen(s, c)]
  /\ seeder' = [seeder EXCEPT ![s] = [Idle EXCEPT !.pc = "done"]]
  /\ UNCHANGED <<seq, release, client, fetch, seeds, acts, losses>>

\* The release job dies; its transaction is rolled back.
Crash(s) ==
  /\ Running(s)
  /\ seeder' = [seeder EXCEPT ![s] = Idle]
  /\ UNCHANGED <<shared, seq>>

Seeding(s) ==
  \/ ReadItem(s) \/ InsertItem(s) \/ UpdateItem(s) \/ ReadLabels(s) \/ WriteLabels(s)
  \/ Activate(s) \/ Commit(s)

--------------------------------------------------------------------------------
(* Between the seeders *)

Quiet == \A s \in Seeders : ~Running(s)

\* The next release: its data file says something else.
NewRelease ==
  /\ Quiet /\ release < Len(Declared)
  /\ release' = release + 1
  /\ UNCHANGED <<item, label, seq, seeder, client, fetch, seeds, acts, losses>>

\* The office retires an item, merges it into another (which touches both rows)
\* or corrects its label.  Nothing under src/ does this yet; the tables, the delta
\* and the tests are made for it.  A revision is taken before its transaction
\* commits, so the office is assumed not to write while a seeder runs.
Office ==
  /\ Quiet /\ acts < MaxActs
  /\ acts' = acts + 1
  /\ \E c \in {d \in Codes : item[d] # Null} :
       \/ /\ item' = [item EXCEPT ![c].active = FALSE, ![c].rev = Revision]
          /\ seq' = seq + 1
          /\ UNCHANGED label
       \/ \E d \in Codes \ {c} :
            /\ item[d] # Null
            /\ item' = [item EXCEPT ![c].active = FALSE, ![c].merged = d,
                                    ![c].rev = seq + 1, ![d].rev = seq + 2]
            /\ seq' = seq + 2
            /\ UNCHANGED label
       \/ /\ label' = [label EXCEPT ![c] = [text |-> Corrected, rev |-> Revision]]
          /\ seq' = seq + 1
          /\ UNCHANGED item
  /\ UNCHANGED <<release, seeder, client, fetch, seeds, losses>>

--------------------------------------------------------------------------------

\* Tables that were never seeded, or as the first release's seed left them: an
\* insert, the labels and an activation per item.
Tables ==
  \/ item = Nothing /\ label = Nothing /\ seq = 0
  \/ /\ item = [c \in Codes |-> [facts |-> Facts(c), active |-> TRUE, merged |-> Null,
                                 rev |-> 3 * CHOOSE k \in DOMAIN Items : Items[k] = c]]
     /\ label = [c \in Codes |-> [text |-> Text(c), rev |-> item[c].rev - 1]]
     /\ seq = 3 * Len(Items)

Init ==
  /\ release = 1
  /\ Tables
  /\ seeder = [s \in Seeders |-> Idle]
  /\ client = [cache |-> [c \in Codes |-> [kind |-> "absent"]], version |-> 0, tag |-> Null]
  /\ fetch = NoFetch
  /\ seeds = 0 /\ acts = 0 /\ losses = 0

Next ==
  \/ Fetching \/ Lose
  \/ \E s \in Seeders : Start(s) \/ Seeding(s) \/ Crash(s)
  \/ NewRelease \/ Office

\* A client asks again at every launch; a seeder's next statement is run as soon as
\* the rows it needs are free.
Spec ==
  /\ Init /\ [][Next]_vars
  /\ WF_vars(Fetching)
  /\ \A s \in Seeders : WF_vars(Seeding(s))

--------------------------------------------------------------------------------
(* Properties *)

\* Rows keep their types and every revision was taken from the sequence.
TypeOK ==
  /\ item \in [Codes -> ItemRows \cup {Null}]
  /\ label \in [Codes -> LabelRows \cup {Null}]
  /\ \A c \in Codes : /\ item[c] # Null => item[c].rev <= seq
                      /\ label[c] # Null => label[c].rev <= seq
  /\ client.version \in 0..seq

\* A delta never skips a change: an item whose revision the client's version
\* covers is held as the server has it.  Versions and rows are read in separate
\* statements while seeders, which take their revisions long before they commit,
\* are running.
NothingMissed ==
  \A c \in Codes :
    item[c] # Null /\ Effective(c) <= client.version => client.cache[c] = Content(c)

\* A 304 is never wrong: while the tag a client sends is the one the server would
\* compute, its whole copy is current.
TagMeansCurrent == client.tag = TypeVersion => \A c \in Codes : client.cache[c] = Content(c)

\* A client whose copy is current offers exactly the ids a write may store (BR-13),
\* a merged item that a later seed has activated again included.
OffersAreUsable ==
  client.tag = TypeVersion =>
    \A c \in Codes : client.cache[c].kind = "offered" <=> Usable(c)

\* "A second run writes nothing at all": a seeder that starts on tables that
\* already say what its release declares writes no row, whatever else runs.
SecondSeedWritesNothing ==
  \A s \in Seeders :
    seeder[s].silent => seeder[s].item = Nothing /\ seeder[s].label = Nothing

\* A seed that commits leaves every item as its release declares it, and active,
\* even if it overlapped another and wrote over rows it had read too early.
SeedCompletes ==
  [][\A s \in Seeders : ~(seeder[s].pc = "commit" /\ seeder'[s].pc = "done") \/ settled']_vars

\* Overlapping seeders wait for each other's rows and never in a circle: each
\* commits, fails or dies.
SeedsEnd == \A s \in Seeders : Running(s) ~> ~Running(s)

\* A client that goes on asking ends up with the tables as they are.
CatchesUp == <>[](\A c \in Codes : client.cache[c] = Content(c))

\* What a client holds is what the tables say, as far as its version and its tag go,
\* and it offers nothing a write would refuse.
CopiesHold == TypeOK /\ NothingMissed /\ TagMeansCurrent /\ OffersAreUsable

\* A seed leaves its release in the tables, and run again on them writes nothing.
SeedsSettle == SeedCompletes /\ []SecondSeedWritesNothing

\* Seeders end, and a client catches up with what they leave.
AllSettles == SeedsEnd /\ CatchesUp

--------------------------------------------------------------------------------
(* The inductive invariant *)

SeederStates ==
  [pc : {"idle", "item", "insert", "update", "labels", "write", "activate", "commit", "done"},
   at : DOMAIN Items, seen : ItemRows \cup {Null}, item : [Codes -> ItemRows \cup {Null}],
   label : [Codes -> LabelRows \cup {Null}], silent : BOOLEAN]

\* What the processes hold has its type, and an item has its labels.
StatesOK ==
  /\ TypeOK
  /\ seq \in Nat /\ release \in Releases
  /\ seeder \in [Seeders -> SeederStates]
  /\ \A c \in Codes : item[c] # Null <=> label[c] # Null

\* A row that a seeder has written and not committed is its alone, says what its
\* release declares, and is newer than the row it will replace; while the tables
\* do not say what the release declares, it is newer than all of them.
PendingOK(s) ==
  \A c \in Codes :
    /\ seeder[s].item[c] # Null =>
         /\ ItemFree(s, c)
         /\ seeder[s].item[c].facts = Facts(c) /\ seeder[s].item[c].rev <= seq
         /\ item[c] # Null => /\ seeder[s].item[c].merged = item[c].merged
                              /\ seeder[s].item[c].rev > item[c].rev
         /\ ~settled => seeder[s].item[c].rev > TypeVersion
    /\ seeder[s].label[c] # Null =>
         /\ LabelFree(s, c)
         /\ seeder[s].label[c].text = Text(c) /\ seeder[s].label[c].rev <= seq
         /\ label[c] # Null => seeder[s].label[c].rev > label[c].rev
         /\ ~settled => seeder[s].label[c].rev > TypeVersion

\* A seeder sees the item as its release declares it.
SeesFacts(s, c) == ItemSeen(s, c) # Null /\ ItemSeen(s, c).facts = Facts(c)

SeesText(s, c) == LabelSeen(s, c) # Null /\ LabelSeen(s, c).text = Text(c)

SeesActive(s, c) == ItemSeen(s, c) # Null /\ ItemSeen(s, c).active

Behind(s) == {k \in DOMAIN Items : k < seeder[s].at \/ seeder[s].pc = "commit"}

\* What a seeder has seen to of the item it is at, and of those behind it; what it
\* read at first may be stale, but nobody undoes what made it leave a step out.
WalkOK(s) ==
  /\ ~Running(s) => seeder[s].item = Nothing /\ seeder[s].label = Nothing /\ ~seeder[s].silent
  /\ Running(s) => \A k \in Behind(s) :
       /\ SeesFacts(s, Items[k]) /\ SeesActive(s, Items[k]) /\ SeesText(s, Items[k])
  /\ seeder[s].pc = "insert" => seeder[s].seen = Null
  /\ seeder[s].pc = "update" => ItemSeen(s, Place(s)) # Null
  /\ seeder[s].pc \in {"labels", "write", "activate"} => SeesFacts(s, Place(s))
  /\ seeder[s].pc = "activate" => SeesText(s, Place(s))
  /\ seeder[s].pc \in {"update", "labels", "write", "activate"} /\ ~NeedsActivation(s) =>
       SeesActive(s, Place(s))
  /\ seeder[s].silent =>
       /\ settled /\ seeder[s].item = Nothing /\ seeder[s].label = Nothing
       /\ seeder[s].pc \in {"item", "labels", "commit"}
       /\ seeder[s].pc = "labels" => ~NeedsActivation(s)

\* A copy held under a version is the tables' as far as the version goes, and says
\* nothing of an item that is not there.
Current(cache, version) ==
  \A c \in Codes : IF item[c] = Null THEN cache[c] = [kind |-> "absent"]
                   ELSE Effective(c) <= version => cache[c] = Content(c)

ClientOK ==
  /\ client.version \in Nat /\ client.version <= TypeVersion
  /\ client.tag = Null \/ (client.tag \in Nat /\ client.tag <= client.version)
  /\ Current(client.cache, client.version)

FetchOK ==
  /\ fetch.pc \in {"idle", "tagged", "versioned", "answered"}
  /\ fetch.pc # "idle" => fetch.tag \in Nat /\ fetch.tag <= TypeVersion
  /\ fetch.pc \in {"versioned", "answered"} =>
       fetch.version \in Nat /\ fetch.tag <= fetch.version /\ fetch.version <= TypeVersion
  /\ fetch.pc = "answered" => Current(Absorb(fetch).cache, fetch.version)

IInv ==
  /\ StatesOK
  /\ \A s \in Seeders : PendingOK(s) /\ WalkOK(s)
  /\ ClientOK /\ FetchOK

================================================================================
