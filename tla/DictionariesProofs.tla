--------------------------- MODULE DictionariesProofs ---------------------------
(***************************************************************************)
(* Proofs about Dictionaries for every data file, every number of releases *)
(* and of seeders that overlap: what a seed leaves in the tables, and what *)
(* a client that follows the deltas holds of them.                         *)
(***************************************************************************)
EXTENDS Dictionaries, WellFoundedInduction, TLAPS

--------------------------------------------------------------------------------
(* Codes and revisions *)

LEMMA ItemsAre ==
  /\ Len(Items) \in Nat \ {0} /\ DOMAIN Items = 1..Len(Items)
  /\ \A k \in DOMAIN Items : Items[k] \in Codes
  /\ Len(Declared) \in Nat \ {0} /\ Releases = 1..Len(Declared)
  <1>1. /\ Items \in Seq(Codes) /\ Items # <<>>
        /\ Declared \in Seq({Declared[r] : r \in Releases}) /\ Declared # <<>>
    BY ItemsAssumption
  <1>2. Len(Items) \in Nat \ {0} /\ DOMAIN Items = 1..Len(Items)
    BY <1>1
  <1>3. Len(Declared) \in Nat \ {0} /\ Releases = 1..Len(Declared)
    BY <1>1 DEF Releases
  <1>4. QED
    BY <1>2, <1>3 DEF Codes

Less == {pair \in Nat \X Nat : pair[1] < pair[2]}

\* A set of numbers has a least one.
LEMMA LeastNumber ==
  ASSUME NEW T, T \subseteq Nat, T # {}
  PROVE  \E x \in T : \A y \in T : x <= y
  <1>1. IsWellFoundedOn(Less, Nat)
    BY NatLessThanWellFounded DEF OpToRel, Less
  <1>2. \E x \in T : \A y \in T : ~(<<y, x>> \in Less)
    BY <1>1, WFMin
  <1>3. \A x, y \in Nat : y < x => <<y, x>> \in Less
    BY DEF Less
  <1>4. \A x, y \in Nat : ~(y < x) => x <= y
    OBVIOUS
  <1>5. QED
    BY <1>2, <1>3, <1>4

\* A set of numbers below a bound has a greatest one.
LEMMA GreatestNumber ==
  ASSUME NEW S, S \subseteq Nat, 0 \in S, NEW bound \in Nat, \A x \in S : x <= bound
  PROVE  \E r \in S : \A q \in S : q <= r
  <1> DEFINE Above == {n \in Nat : \A x \in S : x <= n}
  <1>1. Above \subseteq Nat /\ bound \in Above
    OBVIOUS
  <1>2. PICK m \in Above : \A n \in Above : m <= n
    BY <1>1, LeastNumber
  <1>3. m \in Nat /\ \A x \in S : x <= m
    BY <1>2
  <1>4. m \in S
    <2> SUFFICES ASSUME m \notin S PROVE FALSE
      OBVIOUS
    <2>1. \A x \in S : x \in Nat /\ x <= m /\ x # m
      BY <1>3
    <2>2. m # 0
      OBVIOUS
    <2>3. m - 1 \in Nat /\ \A x \in S : x <= m - 1
      BY <1>3, <2>1, <2>2
    <2>4. m - 1 \in Above
      BY <2>3
    <2>5. QED
      BY <1>2, <1>3, <2>4
  <1>5. QED
    BY <1>3, <1>4

\* An item's revision is one of its two, and neither is newer.
LEMMA EffectiveIs ==
  ASSUME StatesOK, NEW c \in Codes, item[c] # Null
  PROVE  /\ item[c] \in ItemRows /\ label[c] \in LabelRows /\ label[c] # Null
         /\ item[c].rev \in Nat /\ label[c].rev \in Nat /\ Effective(c) \in Nat
         /\ Effective(c) >= item[c].rev /\ Effective(c) >= label[c].rev
         /\ Effective(c) = item[c].rev \/ Effective(c) = label[c].rev
         /\ Effective(c) <= seq
  <1>1. item[c] \in ItemRows /\ label[c] \in LabelRows /\ label[c] # Null
    BY DEF StatesOK, TypeOK
  <1>2. item[c].rev \in Nat /\ label[c].rev \in Nat
    BY <1>1 DEF ItemRows, LabelRows
  <1>3. item[c].rev <= seq /\ label[c].rev <= seq
    BY <1>1 DEF StatesOK, TypeOK
  <1>4. QED
    BY <1>1, <1>2, <1>3 DEF Effective, StatesOK

\* The version of a type is the newest revision in it.
IsNewest(version) ==
  /\ version \in Nat /\ version <= seq
  /\ \A c \in Codes : item[c] # Null => Effective(c) <= version
  /\ version = 0 \/ \E c \in Codes : item[c] # Null /\ Effective(c) = version

LEMMA Newest == StatesOK => IsNewest(TypeVersion)
  <1> SUFFICES ASSUME StatesOK PROVE IsNewest(TypeVersion)
    OBVIOUS
  <1> DEFINE revs == {0} \cup {Effective(c) : c \in {d \in Codes : item[d] # Null}}
  <1>1. seq \in Nat
    BY DEF StatesOK
  <1>2. \A c \in Codes : item[c] # Null => Effective(c) \in Nat /\ Effective(c) <= seq
    BY EffectiveIs
  <1>3. revs \subseteq Nat /\ 0 \in revs /\ \A x \in revs : x <= seq
    BY <1>1, <1>2
  <1>4. \E r \in revs : \A q \in revs : q <= r
    <2> HIDE DEF revs
    <2>1. QED
      BY <1>1, <1>3, GreatestNumber
  <1>5. TypeVersion = CHOOSE r \in revs : \A q \in revs : q <= r
    BY DEF TypeVersion
  <1>6. TypeVersion \in revs /\ \A q \in revs : q <= TypeVersion
    <2> HIDE DEF revs
    <2>1. QED
      BY <1>4, <1>5
  <1>7. TypeVersion \in Nat /\ TypeVersion <= seq
    BY <1>3, <1>6
  <1>8. \A c \in Codes : item[c] # Null => Effective(c) <= TypeVersion
    BY <1>6
  <1>9. TypeVersion = 0 \/ \E c \in Codes : item[c] # Null /\ Effective(c) = TypeVersion
    BY <1>6
  <1>10. QED
    BY <1>7, <1>8, <1>9 DEF IsNewest

--------------------------------------------------------------------------------
(* The tables stay, and a process changes *)

LEMMA TablesStay ==
  ASSUME item' = item, label' = label
  PROVE  /\ TypeVersion' = TypeVersion
         /\ \A c \in Codes : Effective(c)' = Effective(c) /\ Content(c)' = Content(c)
  <1>1. \A c \in Codes : Effective(c)' = Effective(c) /\ Content(c)' = Content(c)
    BY DEF Effective, Content
  <1>2. TypeVersion' = TypeVersion
    BY DEF TypeVersion, Effective
  <1>3. QED
    BY <1>1, <1>2

LEMMA CurrentStays ==
  ASSUME item' = item, label' = label, NEW cache, NEW v, Current(cache, v)
  PROVE  \A c \in Codes : IF item'[c] = Null THEN cache[c] = [kind |-> "absent"]
                          ELSE Effective(c)' <= v => cache[c] = Content(c)'
  BY TablesStay DEF Current

\* A client that does nothing, over tables that stay.
LEMMA ClientStays ==
  ASSUME ClientOK, FetchOK, UNCHANGED <<item, label, client, fetch>>
  PROVE  ClientOK' /\ FetchOK'
  <1>1. TypeVersion' = TypeVersion
    BY TablesStay
  <1>2. ClientOK'
    BY <1>1, TablesStay DEF ClientOK, Current
  <1>3. FetchOK'
    BY <1>1, TablesStay DEF FetchOK, Current, Absorb
  <1>4. QED
    BY <1>2, <1>3

\* What a statement of seeder s leaves as its row of the items.
NewItem(s, c, row) ==
  /\ ItemFree(s, c) /\ row.facts = Facts(c) /\ row.rev = seq + 1
  /\ item[c] # Null => row.merged = item[c].merged

NewLabel(s, c, row) == LabelFree(s, c) /\ row.text = Text(c) /\ row.rev = seq + 1

\* One seeder runs a statement; the tables stay, and the others see what they saw.
Statement(s) ==
  /\ UNCHANGED <<item, label, release, client, fetch>>
  /\ seq' \in Nat /\ seq' >= seq
  /\ seeder' \in [Seeders -> SeederStates]
  /\ \A t \in Seeders : t # s => seeder'[t] = seeder[t]
  /\ \A c \in Codes :
       /\ \/ seeder'[s].item[c] \in {Null, seeder[s].item[c]}
          \/ seq' = seq + 1 /\ NewItem(s, c, seeder'[s].item[c])
       /\ \/ seeder'[s].label[c] \in {Null, seeder[s].label[c]}
          \/ seq' = seq + 1 /\ NewLabel(s, c, seeder'[s].label[c])

LEMMA StatementStates ==
  ASSUME StatesOK, NEW s \in Seeders, Statement(s)
  PROVE  StatesOK' /\ (settled' <=> settled)
  <1>1. TypeOK'
    <2>1. \A c \in Codes : /\ item'[c] # Null => item'[c].rev <= seq'
                           /\ label'[c] # Null => label'[c].rev <= seq'
      BY EffectiveIs DEF StatesOK, TypeOK, Statement
    <2>2. client'.version \in 0..seq'
      BY DEF StatesOK, TypeOK, Statement
    <2>3. QED
      BY <2>1, <2>2 DEF StatesOK, TypeOK, Statement
  <1>2. settled' <=> settled
    BY DEF settled, Facts, Text, Statement
  <1>3. QED
    BY <1>1, <1>2 DEF StatesOK, Statement

LEMMA OthersPending ==
  ASSUME StatesOK, NEW s \in Seeders, Statement(s), NEW t \in Seeders, t # s, PendingOK(t)
  PROVE  PendingOK(t)'
  <1>1. /\ settled' <=> settled
        /\ TypeVersion' = TypeVersion
        /\ UNCHANGED <<item, label, release, seeder[t]>> /\ seq' >= seq
        /\ seq \in Nat /\ seq' \in Nat
    BY StatementStates, TablesStay DEF Statement, StatesOK
  <1>2. SUFFICES ASSUME NEW c \in Codes
                 PROVE  /\ seeder'[t].item[c] # Null =>
                             /\ ItemFree(t, c)'
                             /\ seeder'[t].item[c].facts = Facts(c)'
                             /\ seeder'[t].item[c].rev <= seq'
                             /\ item'[c] # Null => /\ seeder'[t].item[c].merged = item'[c].merged
                                                   /\ seeder'[t].item[c].rev > item'[c].rev
                             /\ ~settled' => seeder'[t].item[c].rev > TypeVersion'
                        /\ seeder'[t].label[c] # Null =>
                             /\ LabelFree(t, c)'
                             /\ seeder'[t].label[c].text = Text(c)'
                             /\ seeder'[t].label[c].rev <= seq'
                             /\ label'[c] # Null => seeder'[t].label[c].rev > label'[c].rev
                             /\ ~settled' => seeder'[t].label[c].rev > TypeVersion'
    BY DEF PendingOK
  <1>3. Facts(c)' = Facts(c) /\ Text(c)' = Text(c)
    BY <1>1 DEF Facts, Text
  <1>4. ASSUME seeder'[t].item[c] # Null
        PROVE  /\ ItemFree(t, c)' /\ seeder'[t].item[c].facts = Facts(c)'
               /\ seeder'[t].item[c].rev <= seq'
               /\ item'[c] # Null => /\ seeder'[t].item[c].merged = item'[c].merged
                                     /\ seeder'[t].item[c].rev > item'[c].rev
               /\ ~settled' => seeder'[t].item[c].rev > TypeVersion'
    <2>1. /\ ItemFree(t, c) /\ seeder[t].item[c].facts = Facts(c)
          /\ seeder[t].item[c].rev <= seq
          /\ item[c] # Null => /\ seeder[t].item[c].merged = item[c].merged
                               /\ seeder[t].item[c].rev > item[c].rev
          /\ ~settled => seeder[t].item[c].rev > TypeVersion
      BY <1>1, <1>4 DEF PendingOK
    <2>2. seeder[t].item[c] \in ItemRows
      BY <1>1, <1>4 DEF StatesOK, SeederStates
    <2>3. seeder[t].item[c].rev \in Nat
      BY <2>2 DEF ItemRows
    <2>4. seeder[s].item[c] = Null /\ ~ItemFree(s, c)
      BY <1>1, <1>4, <2>1 DEF ItemFree
    <2>5. seeder'[s].item[c] = Null
      BY <2>4 DEF Statement, NewItem
    <2>6. ItemFree(t, c)'
      BY <2>1, <2>5 DEF ItemFree, Statement
    <2>7. QED
      BY <1>1, <1>3, <2>1, <2>3, <2>6
  <1>5. ASSUME seeder'[t].label[c] # Null
        PROVE  /\ LabelFree(t, c)' /\ seeder'[t].label[c].text = Text(c)'
               /\ seeder'[t].label[c].rev <= seq'
               /\ label'[c] # Null => seeder'[t].label[c].rev > label'[c].rev
               /\ ~settled' => seeder'[t].label[c].rev > TypeVersion'
    <2>1. /\ LabelFree(t, c) /\ seeder[t].label[c].text = Text(c)
          /\ seeder[t].label[c].rev <= seq
          /\ label[c] # Null => seeder[t].label[c].rev > label[c].rev
          /\ ~settled => seeder[t].label[c].rev > TypeVersion
      BY <1>1, <1>5 DEF PendingOK
    <2>2. seeder[t].label[c] \in LabelRows
      BY <1>1, <1>5 DEF StatesOK, SeederStates
    <2>3. seeder[t].label[c].rev \in Nat
      BY <2>2 DEF LabelRows
    <2>4. seeder[s].label[c] = Null /\ ~LabelFree(s, c)
      BY <1>1, <1>5, <2>1 DEF LabelFree
    <2>5. seeder'[s].label[c] = Null
      BY <2>4 DEF Statement, NewLabel
    <2>6. LabelFree(t, c)'
      BY <2>1, <2>5 DEF LabelFree, Statement
    <2>7. QED
      BY <1>1, <1>3, <2>1, <2>3, <2>6
  <1>6. QED
    BY <1>4, <1>5

LEMMA OwnPending ==
  ASSUME StatesOK, NEW s \in Seeders, Statement(s), PendingOK(s)
  PROVE  PendingOK(s)'
  <1>1. /\ settled' <=> settled
        /\ TypeVersion' = TypeVersion
        /\ UNCHANGED <<item, label, release>> /\ seq' >= seq
        /\ seq \in Nat /\ seq' \in Nat
        /\ TypeVersion \in Nat /\ TypeVersion <= seq
        /\ \A t \in Seeders : t # s => seeder'[t] = seeder[t]
    BY StatementStates, TablesStay, Newest DEF Statement, StatesOK, IsNewest
  <1>2. SUFFICES ASSUME NEW c \in Codes
                 PROVE  /\ seeder'[s].item[c] # Null =>
                             /\ ItemFree(s, c)'
                             /\ seeder'[s].item[c].facts = Facts(c)'
                             /\ seeder'[s].item[c].rev <= seq'
                             /\ item'[c] # Null => /\ seeder'[s].item[c].merged = item'[c].merged
                                                   /\ seeder'[s].item[c].rev > item'[c].rev
                             /\ ~settled' => seeder'[s].item[c].rev > TypeVersion'
                        /\ seeder'[s].label[c] # Null =>
                             /\ LabelFree(s, c)'
                             /\ seeder'[s].label[c].text = Text(c)'
                             /\ seeder'[s].label[c].rev <= seq'
                             /\ label'[c] # Null => seeder'[s].label[c].rev > label'[c].rev
                             /\ ~settled' => seeder'[s].label[c].rev > TypeVersion'
    BY DEF PendingOK
  <1>3. Facts(c)' = Facts(c) /\ Text(c)' = Text(c)
    BY <1>1 DEF Facts, Text
  <1>4. /\ item[c] # Null => item[c].rev \in Nat /\ item[c].rev <= seq
        /\ label[c] # Null => label[c].rev \in Nat /\ label[c].rev <= seq
    BY EffectiveIs DEF StatesOK, TypeOK
  <1>5. ItemFree(s, c)' <=> ItemFree(s, c)
    BY <1>1 DEF ItemFree
  <1>6. LabelFree(s, c)' <=> LabelFree(s, c)
    BY <1>1 DEF LabelFree
  <1>7. ASSUME seeder'[s].item[c] # Null
        PROVE  /\ ItemFree(s, c) /\ seeder'[s].item[c].facts = Facts(c)
               /\ seeder'[s].item[c].rev <= seq'
               /\ item[c] # Null => /\ seeder'[s].item[c].merged = item[c].merged
                                    /\ seeder'[s].item[c].rev > item[c].rev
               /\ ~settled => seeder'[s].item[c].rev > TypeVersion
    <2>1. seeder'[s].item[c] \in ItemRows
      BY <1>7 DEF Statement, SeederStates
    <2>2. seeder'[s].item[c].rev \in Nat
      BY <2>1 DEF ItemRows
    <2>3. CASE seeder'[s].item[c] = seeder[s].item[c]
      BY <1>1, <1>7, <2>2, <2>3 DEF PendingOK
    <2>4. CASE seq' = seq + 1 /\ NewItem(s, c, seeder'[s].item[c])
      BY <1>1, <1>4, <2>4 DEF NewItem
    <2>5. QED
      BY <1>7, <2>3, <2>4 DEF Statement
  <1>8. ASSUME seeder'[s].label[c] # Null
        PROVE  /\ LabelFree(s, c) /\ seeder'[s].label[c].text = Text(c)
               /\ seeder'[s].label[c].rev <= seq'
               /\ label[c] # Null => seeder'[s].label[c].rev > label[c].rev
               /\ ~settled => seeder'[s].label[c].rev > TypeVersion
    <2>1. seeder'[s].label[c] \in LabelRows
      BY <1>8 DEF Statement, SeederStates
    <2>2. seeder'[s].label[c].rev \in Nat
      BY <2>1 DEF LabelRows
    <2>3. CASE seeder'[s].label[c] = seeder[s].label[c]
      BY <1>1, <1>8, <2>2, <2>3 DEF PendingOK
    <2>4. CASE seq' = seq + 1 /\ NewLabel(s, c, seeder'[s].label[c])
      BY <1>1, <1>4, <2>4 DEF NewLabel
    <2>5. QED
      BY <1>8, <2>3, <2>4 DEF Statement
  <1>9. QED
    BY <1>1, <1>3, <1>5, <1>6, <1>7, <1>8

LEMMA OthersWalk ==
  ASSUME StatesOK, NEW s \in Seeders, Statement(s), NEW t \in Seeders, t # s, WalkOK(t)
  PROVE  WalkOK(t)'
  <1>1. /\ settled' <=> settled
        /\ seeder'[t] = seeder[t] /\ item' = item /\ label' = label /\ release' = release
    BY StatementStates DEF Statement
  <1>2. \A c : /\ ItemSeen(t, c)' = ItemSeen(t, c) /\ LabelSeen(t, c)' = LabelSeen(t, c)
               /\ Facts(c)' = Facts(c) /\ Text(c)' = Text(c)
    BY <1>1 DEF ItemSeen, LabelSeen, Facts, Text
  <1>3. \A c : /\ SeesFacts(t, c)' <=> SeesFacts(t, c)
               /\ SeesText(t, c)' <=> SeesText(t, c)
               /\ SeesActive(t, c)' <=> SeesActive(t, c)
    BY <1>2 DEF SeesFacts, SeesText, SeesActive
  <1>4. /\ Place(t)' = Place(t) /\ Behind(t)' = Behind(t)
        /\ NeedsActivation(t)' <=> NeedsActivation(t)
        /\ Running(t)' <=> Running(t)
    BY <1>1 DEF Place, Behind, NeedsActivation, Running
  <1>5. QED
    BY <1>1, <1>2, <1>3, <1>4 DEF WalkOK

\* It is enough to see to the seeder itself.
LEMMA AStatement ==
  ASSUME IInv, NEW s \in Seeders, Statement(s), WalkOK(s)'
  PROVE  IInv'
  <1>1. StatesOK /\ ClientOK /\ FetchOK /\ \A t \in Seeders : PendingOK(t) /\ WalkOK(t)
    BY DEF IInv
  <1>2. StatesOK' /\ PendingOK(s)'
    BY <1>1, StatementStates, OwnPending
  <1>3. \A t \in Seeders : t # s => PendingOK(t)' /\ WalkOK(t)'
    BY <1>1, OthersPending, OthersWalk
  <1>4. ClientOK' /\ FetchOK'
    BY <1>1, ClientStays DEF Statement
  <1>5. QED
    BY <1>2, <1>3, <1>4 DEF IInv

--------------------------------------------------------------------------------
(* The statements of a seeder *)

LEMMA PlaceIs ==
  ASSUME StatesOK, NEW s \in Seeders
  PROVE  /\ seeder[s] \in SeederStates /\ seeder[s].at \in DOMAIN Items
         /\ Place(s) \in Codes /\ Place(s) = Items[seeder[s].at]
         /\ \A k \in DOMAIN Items : k < seeder[s].at => Items[k] # Place(s)
  <1>1. seeder[s] \in SeederStates
    BY DEF StatesOK
  <1>2. seeder[s].at \in DOMAIN Items
    BY <1>1 DEF SeederStates
  <1>3. \A k \in DOMAIN Items : k < seeder[s].at => k # seeder[s].at
    BY <1>2, ItemsAre
  <1>4. QED
    BY <1>1, <1>2, <1>3, ItemsAre, ItemsAssumption DEF Place

LEMMA IdleIs ==
  /\ Idle \in SeederStates
  /\ Idle.pc = "idle" /\ Idle.at = 1 /\ Idle.item = Nothing /\ Idle.label = Nothing
  /\ Idle.silent = FALSE
  BY ItemsAre DEF Idle, SeederStates, Nothing

\* What a seeder sees of an item it has not written since.
LEMMA SeesSame ==
  ASSUME NEW s, NEW c, item' = item, label' = label, release' = release,
         seeder'[s].item[c] = seeder[s].item[c], seeder'[s].label[c] = seeder[s].label[c]
  PROVE  /\ ItemSeen(s, c)' = ItemSeen(s, c) /\ LabelSeen(s, c)' = LabelSeen(s, c)
         /\ SeesFacts(s, c)' <=> SeesFacts(s, c)
         /\ SeesText(s, c)' <=> SeesText(s, c)
         /\ SeesActive(s, c)' <=> SeesActive(s, c)
  <1>1. /\ ItemSeen(s, c)' = ItemSeen(s, c) /\ LabelSeen(s, c)' = LabelSeen(s, c)
        /\ Facts(c)' = Facts(c) /\ Text(c)' = Text(c)
    BY DEF ItemSeen, LabelSeen, Facts, Text
  <1>2. QED
    BY <1>1 DEF SeesFacts, SeesText, SeesActive

LEMMA SeenTypes ==
  ASSUME StatesOK, NEW s \in Seeders, NEW c \in Codes
  PROVE  /\ ItemSeen(s, c) \in ItemRows \cup {Null}
         /\ LabelSeen(s, c) \in LabelRows \cup {Null}
         /\ seeder[s].item[c] \in ItemRows \cup {Null}
         /\ seeder[s].label[c] \in LabelRows \cup {Null}
         /\ DOMAIN seeder[s].item = Codes /\ DOMAIN seeder[s].label = Codes
         /\ Facts(c) \in {Declared[r][d].facts : r \in Releases, d \in Codes}
         /\ Text(c) \in Texts
  <1>1. seeder[s] \in SeederStates /\ TypeOK /\ release \in Releases
    BY DEF StatesOK
  <1>2. QED
    BY <1>1 DEF ItemSeen, LabelSeen, SeederStates, TypeOK, Facts, Text, Texts

LEMMA StartInv ==
  ASSUME IInv, NEW s \in Seeders, Start(s)
  PROVE  IInv'
  <1>1. StatesOK /\ WalkOK(s) /\ ~Running(s) /\ seq \in Nat
    BY DEF IInv, Start, StatesOK
  <1> DEFINE me == [Idle EXCEPT !.pc = "item", !.silent = settled]
  <1>2. /\ me \in SeederStates
        /\ me.pc = "item" /\ me.at = 1 /\ me.item = Nothing /\ me.label = Nothing
        /\ me.silent <=> settled
    <2>1. settled \in BOOLEAN
      BY DEF settled
    <2>2. QED
      BY <2>1, IdleIs DEF SeederStates, Idle
  <1>3. /\ seeder' = [seeder EXCEPT ![s] = me]
        /\ UNCHANGED <<item, label, seq, release, client, fetch>>
    BY DEF Start
  <1> HIDE DEF me
  <1>4. /\ seeder' \in [Seeders -> SeederStates] /\ seeder'[s] = me
        /\ \A t \in Seeders : t # s => seeder'[t] = seeder[t]
    BY <1>1, <1>2, <1>3 DEF StatesOK
  <1>5. Statement(s)
    <2>1. \A c \in Codes : seeder'[s].item[c] = Null /\ seeder'[s].label[c] = Null
      BY <1>2, <1>4 DEF Nothing
    <2>2. QED
      BY <1>1, <1>3, <1>4, <2>1 DEF Statement
  <1>6. settled' <=> settled
    BY <1>1, <1>5, StatementStates
  <1>7. Behind(s)' = {}
    <2>1. \A k \in DOMAIN Items : ~(k < 1)
      BY ItemsAre
    <2>2. QED
      BY <1>2, <1>4, <2>1 DEF Behind
  <1>8. WalkOK(s)'
    BY <1>2, <1>4, <1>6, <1>7 DEF WalkOK, Running
  <1>9. QED
    BY <1>5, <1>8, AStatement

\* A seeder that fails or dies leaves nothing.
LEMMA GivesUp ==
  ASSUME IInv, NEW s \in Seeders, seeder' = [seeder EXCEPT ![s] = Idle],
         seq' \in {seq, seq + 1}, UNCHANGED <<item, label, release, client, fetch>>
  PROVE  IInv'
  <1>1. StatesOK /\ seq \in Nat
    BY DEF IInv, StatesOK
  <1>2. /\ seeder' \in [Seeders -> SeederStates] /\ seeder'[s] = Idle
        /\ \A t \in Seeders : t # s => seeder'[t] = seeder[t]
    BY <1>1, IdleIs DEF StatesOK
  <1>3. Statement(s)
    <2>1. \A c \in Codes : seeder'[s].item[c] = Null /\ seeder'[s].label[c] = Null
      BY <1>2, IdleIs DEF Nothing
    <2>2. QED
      BY <1>1, <1>2, <2>1 DEF Statement
  <1>4. WalkOK(s)'
    BY <1>2, IdleIs DEF WalkOK, Running
  <1>5. QED
    BY <1>3, <1>4, AStatement

LEMMA CrashInv ==
  ASSUME IInv, NEW s \in Seeders, Crash(s)
  PROVE  IInv'
  BY GivesUp DEF Crash, shared

LEMMA ReadItemInv ==
  ASSUME IInv, NEW s \in Seeders, ReadItem(s)
  PROVE  IInv'
  <1> DEFINE c == Place(s)
  <1> DEFINE row == ItemSeen(s, c)
  <1> DEFINE next == IF row = Null THEN "insert"
                     ELSE IF row.facts # Facts(c) THEN "update" ELSE "labels"
  <1>1. StatesOK /\ WalkOK(s) /\ seq \in Nat
    BY DEF IInv, StatesOK
  <1>2. /\ seeder[s].pc = "item" /\ Running(s)
        /\ UNCHANGED <<item, label, seq, release, client, fetch>>
        /\ seeder' = [seeder EXCEPT ![s].seen = row, ![s].pc = next]
    BY DEF ReadItem, Running, shared
  <1>3. c \in Codes /\ row \in ItemRows \cup {Null}
    BY <1>1, PlaceIs, SeenTypes
  <1>4. /\ seeder'[s].seen = row /\ seeder'[s].pc = next
        /\ seeder'[s].item = seeder[s].item /\ seeder'[s].label = seeder[s].label
        /\ seeder'[s].at = seeder[s].at /\ seeder'[s].silent = seeder[s].silent
        /\ seeder' \in [Seeders -> SeederStates]
        /\ \A t \in Seeders : t # s => seeder'[t] = seeder[t]
    <2>1. seeder \in [Seeders -> SeederStates] /\ next \in {"insert", "update", "labels"}
      BY <1>1 DEF StatesOK
    <2> HIDE DEF row, next
    <2>2. seeder[s] \in SeederStates
      BY <2>1
    <2>3. [seeder[s] EXCEPT !.seen = row, !.pc = next] \in SeederStates
      BY <1>3, <2>1, <2>2 DEF SeederStates
    <2>4. seeder' = [seeder EXCEPT ![s] = [seeder[s] EXCEPT !.seen = row, !.pc = next]]
      BY <1>2, <2>1
    <2>5. seeder'[s] = [seeder[s] EXCEPT !.seen = row, !.pc = next]
      BY <2>1, <2>4
    <2>6. QED
      BY <2>1, <2>2, <2>3, <2>4, <2>5 DEF SeederStates
  <1>5. Statement(s)
    BY <1>1, <1>2, <1>4 DEF Statement
  <1>6. /\ settled' <=> settled
        /\ \A d : /\ SeesFacts(s, d)' <=> SeesFacts(s, d)
                  /\ SeesText(s, d)' <=> SeesText(s, d)
                  /\ SeesActive(s, d)' <=> SeesActive(s, d)
                  /\ ItemSeen(s, d)' = ItemSeen(s, d)
    BY <1>1, <1>2, <1>4, <1>5, StatementStates, SeesSame
  <1>7. Place(s)' = c /\ Running(s)' /\ Behind(s)' = Behind(s)
    BY <1>2, <1>4 DEF Place, Running, Behind
  <1>8. NeedsActivation(s)' <=> (row = Null \/ ~row.active)
    BY <1>4 DEF NeedsActivation
  <1>9. next = "labels" => SeesFacts(s, c)
    BY DEF SeesFacts
  <1>10. ~(row = Null \/ ~row.active) => SeesActive(s, c)
    BY DEF SeesActive
  <1>11. seeder[s].silent => /\ settled /\ seeder[s].item = Nothing /\ seeder[s].label = Nothing
                             /\ next = "labels" /\ ~(row = Null \/ ~row.active)
    <2> SUFFICES ASSUME seeder[s].silent
                 PROVE  /\ settled /\ seeder[s].item = Nothing /\ seeder[s].label = Nothing
                        /\ next = "labels" /\ ~(row = Null \/ ~row.active)
      OBVIOUS
    <2>1. settled /\ seeder[s].item = Nothing /\ seeder[s].label = Nothing
      BY <1>1 DEF WalkOK
    <2>2. row = item[c]
      BY <1>3, <2>1 DEF ItemSeen, Nothing
    <2>3. item[c] # Null /\ item[c].facts = Facts(c) /\ item[c].active
      BY <1>3, <2>1 DEF settled
    <2>4. QED
      BY <2>1, <2>2, <2>3
  <1>12. WalkOK(s)'
    <2>1. \A k \in Behind(s) : /\ SeesFacts(s, Items[k]) /\ SeesActive(s, Items[k])
                               /\ SeesText(s, Items[k])
      BY <1>1, <1>2 DEF WalkOK
    <2>2. next \in {"insert", "update", "labels"} /\ (next = "insert" <=> row = Null)
      OBVIOUS
    <2> HIDE DEF next, row, c
    <2>3. ItemSeen(s, c) = row
      BY DEF row
    <2>4. QED
      BY <1>4, <1>6, <1>7, <1>8, <1>9, <1>10, <1>11, <2>1, <2>2, <2>3 DEF WalkOK
  <1>13. QED
    BY <1>5, <1>12, AStatement

LEMMA WriteItemIs ==
  ASSUME StatesOK, NEW s \in Seeders, NEW c \in Codes, NEW row \in ItemRows,
         NEW pc \in {"labels", "activate"}, WriteItem(s, c, row, pc)
  PROVE  /\ seeder' \in [Seeders -> SeederStates]
         /\ \A t \in Seeders : t # s => seeder'[t] = seeder[t]
         /\ seeder'[s].item[c] = [row EXCEPT !.rev = seq + 1]
         /\ seeder'[s].item[c] \in ItemRows
         /\ \A d \in Codes \ {c} : seeder'[s].item[d] = seeder[s].item[d]
         /\ seeder'[s].label = seeder[s].label /\ seeder'[s].pc = pc
         /\ seeder'[s].at = seeder[s].at /\ seeder'[s].seen = seeder[s].seen
         /\ seeder'[s].silent = seeder[s].silent
         /\ seq' = seq + 1
  <1> DEFINE new == [row EXCEPT !.rev = seq + 1]
  <1>1. seeder \in [Seeders -> SeederStates] /\ seeder[s] \in SeederStates /\ seq \in Nat
    BY DEF StatesOK
  <1>2. new \in ItemRows
    <2>1. seq + 1 \in Nat \ {0}
      BY <1>1
    <2>2. QED
      BY <2>1 DEF ItemRows
  <1>3. seq' = seq + 1
        /\ seeder' = [seeder EXCEPT ![s].item[c] = new, ![s].pc = pc]
    BY DEF WriteItem, Revision
  <1> HIDE DEF new
  <1> DEFINE me == [seeder[s] EXCEPT !.item[c] = new, !.pc = pc]
  <1>4. seeder[s].item \in [Codes -> ItemRows \cup {Null}]
    BY <1>1 DEF SeederStates
  <1>5. [seeder[s].item EXCEPT ![c] = new] \in [Codes -> ItemRows \cup {Null}]
    BY <1>2, <1>4
  <1>6. /\ me \in SeederStates
        /\ me.item = [seeder[s].item EXCEPT ![c] = new] /\ me.pc = pc
        /\ me.label = seeder[s].label /\ me.at = seeder[s].at
        /\ me.seen = seeder[s].seen /\ me.silent = seeder[s].silent
    BY <1>1, <1>5 DEF SeederStates
  <1>7. seeder' = [seeder EXCEPT ![s] = me]
    BY <1>1, <1>3
  <1> HIDE DEF me
  <1>8. seeder'[s] = me /\ \A t \in Seeders : t # s => seeder'[t] = seeder[t]
    BY <1>1, <1>7
  <1>9. seeder' \in [Seeders -> SeederStates]
    BY <1>1, <1>6, <1>7
  <1>10. me.item[c] = new /\ \A d \in Codes \ {c} : me.item[d] = seeder[s].item[d]
    BY <1>4, <1>6
  <1>11. new = [row EXCEPT !.rev = seq + 1]
    BY DEF new
  <1>12. QED
    BY <1>2, <1>3, <1>6, <1>8, <1>9, <1>10, <1>11

\* A row of the items written by its rule is a statement, and what was seen to of
\* the items behind stays so.
LEMMA ItemWritten ==
  ASSUME StatesOK, NEW s \in Seeders, seeder[s].pc # "commit", Running(s), WalkOK(s),
         NEW row \in ItemRows, WriteItem(s, Place(s), row, "labels"),
         ItemFree(s, Place(s)), row.facts = Facts(Place(s)),
         item[Place(s)] # Null => row.merged = item[Place(s)].merged,
         UNCHANGED <<item, label, release, client, fetch>>
  PROVE  /\ Statement(s)
         /\ Running(s)' /\ Place(s)' = Place(s) /\ Behind(s)' = Behind(s)
         /\ seeder'[s].pc = "labels"
         /\ seeder'[s].seen = seeder[s].seen /\ seeder'[s].silent = seeder[s].silent
         /\ \A k \in Behind(s) : /\ SeesFacts(s, Items[k])' /\ SeesActive(s, Items[k])'
                                 /\ SeesText(s, Items[k])'
         /\ SeesFacts(s, Place(s))'
         /\ SeesActive(s, Place(s))' <=> row.active
  <1>0. PICK c \in Codes : c = Place(s)
    BY PlaceIs
  <1>1. /\ seq \in Nat
        /\ \A k \in Behind(s) : Items[k] \in Codes \ {c}
    BY <1>0, PlaceIs, ItemsAre DEF StatesOK, Behind
  <1>2. WriteItem(s, c, row, "labels") /\ ItemFree(s, c) /\ row.facts = Facts(c)
        /\ (item[c] # Null => row.merged = item[c].merged)
    BY <1>0
  <1>3. /\ seeder' \in [Seeders -> SeederStates]
        /\ \A t \in Seeders : t # s => seeder'[t] = seeder[t]
        /\ seeder'[s].item[c] = [row EXCEPT !.rev = seq + 1]
        /\ seeder'[s].item[c] \in ItemRows
        /\ \A d \in Codes \ {c} : seeder'[s].item[d] = seeder[s].item[d]
        /\ seeder'[s].label = seeder[s].label /\ seeder'[s].pc = "labels"
        /\ seeder'[s].at = seeder[s].at /\ seeder'[s].seen = seeder[s].seen
        /\ seeder'[s].silent = seeder[s].silent
        /\ seq' = seq + 1
    BY <1>1, <1>2, WriteItemIs
  <1> DEFINE new == seeder'[s].item[c]
  <1>4. /\ new # Null /\ new.facts = Facts(c) /\ new.rev = seq + 1
        /\ new.active = row.active /\ new.merged = row.merged
    BY <1>2, <1>3, NullAssumption DEF ItemRows
  <1>5. NewItem(s, c, new)
    BY <1>2, <1>4 DEF NewItem
  <1>6. Statement(s)
    BY <1>1, <1>3, <1>5 DEF Statement
  <1>7. Running(s)' /\ Place(s)' = c /\ Behind(s)' = Behind(s)
    BY <1>0, <1>3 DEF Running, Place, Behind
  <1>8. \A k \in Behind(s) : /\ SeesFacts(s, Items[k])' /\ SeesActive(s, Items[k])'
                             /\ SeesText(s, Items[k])'
    <2> SUFFICES ASSUME NEW k \in Behind(s)
                 PROVE  /\ SeesFacts(s, Items[k])' /\ SeesActive(s, Items[k])'
                        /\ SeesText(s, Items[k])'
      OBVIOUS
    <2>1. SeesFacts(s, Items[k]) /\ SeesActive(s, Items[k]) /\ SeesText(s, Items[k])
      BY DEF WalkOK
    <2>2. QED
      BY <1>1, <1>3, <2>1, SeesSame
  <1>9. ItemSeen(s, c)' = new /\ Facts(c)' = Facts(c)
    BY <1>3, <1>4 DEF ItemSeen, Facts
  <1>10. SeesFacts(s, c)' /\ (SeesActive(s, c)' <=> row.active)
    <2>1. SeesFacts(s, c)' <=> (ItemSeen(s, c)' # Null /\ ItemSeen(s, c)'.facts = Facts(c)')
      BY DEF SeesFacts
    <2>2. SeesActive(s, c)' <=> (ItemSeen(s, c)' # Null /\ ItemSeen(s, c)'.active)
      BY DEF SeesActive
    <2>3. QED
      BY <1>4, <1>9, <2>1, <2>2
  <1>11. /\ SeesFacts(s, Place(s))' <=> SeesFacts(s, c)'
         /\ SeesActive(s, Place(s))' <=> SeesActive(s, c)'
    BY <1>7 DEF SeesFacts, SeesActive, ItemSeen, Facts
  <1>12. QED
    BY <1>0, <1>3, <1>6, <1>7, <1>8, <1>10, <1>11

LEMMA InsertItemInv ==
  ASSUME IInv, NEW s \in Seeders, InsertItem(s)
  PROVE  IInv'
  <1>1. /\ StatesOK /\ WalkOK(s) /\ seq \in Nat /\ seeder[s].pc = "insert"
        /\ UNCHANGED <<item, label, release, client, fetch>>
    BY DEF IInv, StatesOK, InsertItem, shared
  <1>2. PICK c \in Codes : c = Place(s)
    BY <1>1, PlaceIs
  <1>3. CASE seeder' = [seeder EXCEPT ![s] = Idle] /\ seq' = seq + 1
    BY <1>1, <1>3, GivesUp
  <1>4. CASE /\ item[c] = Null
             /\ WriteItem(s, c, [facts |-> Facts(c), active |-> FALSE, merged |-> Null, rev |-> 1],
                          "labels")
    <2>1. PICK row : row = [facts |-> Facts(c), active |-> FALSE, merged |-> Null, rev |-> 1]
      OBVIOUS
    <2>2. row \in ItemRows /\ row.facts = Facts(c)
      BY <1>1, <2>1, SeenTypes DEF ItemRows
    <2>3. Running(s) /\ ItemFree(s, c)
      BY <1>1, <1>2 DEF Running, InsertItem
    <2>4. /\ Statement(s)
          /\ Running(s)' /\ Place(s)' = Place(s) /\ Behind(s)' = Behind(s)
          /\ seeder'[s].pc = "labels"
          /\ seeder'[s].seen = seeder[s].seen /\ seeder'[s].silent = seeder[s].silent
          /\ \A k \in Behind(s) : /\ SeesFacts(s, Items[k])' /\ SeesActive(s, Items[k])'
                                  /\ SeesText(s, Items[k])'
          /\ SeesFacts(s, Place(s))'
      BY <1>1, <1>2, <1>4, <2>1, <2>2, <2>3, ItemWritten
    <2>5. NeedsActivation(s)' /\ ~seeder'[s].silent
      BY <1>1, <2>4 DEF NeedsActivation, WalkOK
    <2>6. WalkOK(s)'
      BY <2>4, <2>5 DEF WalkOK
    <2>7. QED
      BY <2>4, <2>6, AStatement
  <1>5. QED
    BY <1>2, <1>3, <1>4 DEF InsertItem

LEMMA UpdateItemInv ==
  ASSUME IInv, NEW s \in Seeders, UpdateItem(s)
  PROVE  IInv'
  <1>1. /\ StatesOK /\ WalkOK(s) /\ PendingOK(s) /\ seq \in Nat /\ seeder[s].pc = "update"
        /\ UNCHANGED <<item, label, release, client, fetch>>
    BY DEF IInv, StatesOK, UpdateItem, shared
  <1>2. PICK c \in Codes : c = Place(s)
    BY <1>1, PlaceIs
  <1>3. PICK row : row = [ItemSeen(s, c) EXCEPT !.facts = Facts(c)]
    OBVIOUS
  <1>4. ItemSeen(s, c) \in ItemRows
    BY <1>1, <1>2, SeenTypes DEF WalkOK
  <1>5. /\ row \in ItemRows /\ row.facts = Facts(c)
        /\ row.active = ItemSeen(s, c).active /\ row.merged = ItemSeen(s, c).merged
    BY <1>1, <1>3, <1>4, SeenTypes DEF ItemRows
  <1>6. Running(s) /\ ItemFree(s, c) /\ WriteItem(s, c, row, "labels")
    BY <1>1, <1>2, <1>3 DEF Running, UpdateItem
  <1>7. item[c] # Null => row.merged = item[c].merged
    BY <1>1, <1>5 DEF ItemSeen, PendingOK
  <1>8. /\ Statement(s)
        /\ Running(s)' /\ Place(s)' = Place(s) /\ Behind(s)' = Behind(s)
        /\ seeder'[s].pc = "labels"
        /\ seeder'[s].seen = seeder[s].seen /\ seeder'[s].silent = seeder[s].silent
        /\ \A k \in Behind(s) : /\ SeesFacts(s, Items[k])' /\ SeesActive(s, Items[k])'
                                /\ SeesText(s, Items[k])'
        /\ SeesFacts(s, Place(s))'
        /\ SeesActive(s, Place(s))' <=> row.active
    BY <1>1, <1>2, <1>5, <1>6, <1>7, ItemWritten
  <1>9. /\ NeedsActivation(s)' <=> NeedsActivation(s)
        /\ ~NeedsActivation(s) => row.active
        /\ ~seeder'[s].silent
    BY <1>1, <1>2, <1>5, <1>8 DEF NeedsActivation, WalkOK, SeesActive
  <1>10. WalkOK(s)'
    BY <1>8, <1>9 DEF WalkOK
  <1>11. QED
    BY <1>8, <1>10, AStatement

\* Where a seeder goes when it is done with an item.
LEMMA OnwardIs ==
  ASSUME NEW s \in Seeders, NEW me \in SeederStates
  PROVE  /\ Onward(s, me) \in SeederStates
         /\ Onward(s, me).pc \in {"item", "commit"}
         /\ Onward(s, me).item = me.item /\ Onward(s, me).label = me.label
         /\ Onward(s, me).seen = me.seen /\ Onward(s, me).silent = me.silent
         /\ \A k \in DOMAIN Items :
              k < Onward(s, me).at \/ Onward(s, me).pc = "commit" => k < me.at \/ k = me.at
  <1>1. me.at \in 1..Len(Items) /\ Len(Items) \in Nat /\ DOMAIN Items = 1..Len(Items)
    BY ItemsAre DEF SeederStates
  <1>2. CASE me.at = Len(Items)
    <2>1. Onward(s, me) = [me EXCEPT !.pc = "commit"]
      BY <1>2 DEF Onward
    <2>2. QED
      BY <1>1, <1>2, <2>1 DEF SeederStates
  <1>3. CASE me.at # Len(Items)
    <2>1. Onward(s, me) = [me EXCEPT !.at = @ + 1, !.pc = "item"]
      BY <1>3 DEF Onward
    <2>2. me.at + 1 \in DOMAIN Items
      BY <1>1, <1>3
    <2>3. /\ Onward(s, me) \in SeederStates /\ Onward(s, me).pc = "item"
          /\ Onward(s, me).at = me.at + 1
          /\ Onward(s, me).item = me.item /\ Onward(s, me).label = me.label
          /\ Onward(s, me).seen = me.seen /\ Onward(s, me).silent = me.silent
      BY <2>1, <2>2 DEF SeederStates
    <2>4. \A k \in DOMAIN Items : k < me.at + 1 => k < me.at \/ k = me.at
      BY <1>1
    <2>5. QED
      BY <2>3, <2>4
  <1>4. QED
    BY <1>2, <1>3

\* A statement after which the seeder goes on: it has seen to its item.
LEMMA GoesOn ==
  ASSUME StatesOK, NEW s \in Seeders, Statement(s),
         NEW me \in SeederStates, me.at = seeder[s].at, seeder'[s] = Onward(s, me),
         \A k \in Behind(s) : /\ SeesFacts(s, Items[k])' /\ SeesActive(s, Items[k])'
                              /\ SeesText(s, Items[k])',
         NEW c \in Codes, c = Place(s),
         SeesFacts(s, c)', SeesActive(s, c)', SeesText(s, c)',
         me.silent => settled /\ me.item = Nothing /\ me.label = Nothing
  PROVE  WalkOK(s)'
  <1>1. /\ seeder'[s].pc \in {"item", "commit"}
        /\ seeder'[s].item = me.item /\ seeder'[s].label = me.label
        /\ seeder'[s].silent = me.silent
        /\ \A k \in DOMAIN Items :
             k < seeder'[s].at \/ seeder'[s].pc = "commit" => k < me.at \/ k = me.at
    BY OnwardIs
  <1>2. settled' <=> settled
    BY StatementStates
  <1>3. \A k \in Behind(s)' : /\ SeesFacts(s, Items[k])' /\ SeesActive(s, Items[k])'
                              /\ SeesText(s, Items[k])'
    <2> SUFFICES ASSUME NEW k \in Behind(s)'
                 PROVE  /\ SeesFacts(s, Items[k])' /\ SeesActive(s, Items[k])'
                        /\ SeesText(s, Items[k])'
      OBVIOUS
    <2>1. k \in DOMAIN Items /\ (k < seeder[s].at \/ k = seeder[s].at)
      BY <1>1 DEF Behind
    <2>2. CASE k < seeder[s].at
      BY <2>1, <2>2 DEF Behind
    <2>3. CASE k = seeder[s].at
      <3>1. Items[k] = c
        BY <2>3 DEF Place
      <3>2. QED
        BY <3>1
    <2>4. QED
      BY <2>1, <2>2, <2>3
  <1>4. Running(s)'
    BY <1>1 DEF Running
  <1>5. QED
    BY <1>1, <1>2, <1>3, <1>4 DEF WalkOK

\* The same, of what follows the labels.
LEMMA LabelsDone ==
  ASSUME IInv, NEW s \in Seeders, Statement(s), seeder[s].pc \in {"labels", "write"},
         NEW me \in SeederStates, me.at = seeder[s].at, me.item = seeder[s].item,
         me.seen = seeder[s].seen, me.silent = seeder[s].silent,
         seeder'[s] = AfterLabels(s, me), seeder[s].silent => me.label = seeder[s].label,
         \A d \in Codes \ {Place(s)} : me.label[d] = seeder[s].label[d],
         NEW c \in Codes, c = Place(s), SeesText(s, c)'
  PROVE  IInv'
  <1>1. StatesOK /\ WalkOK(s) /\ Running(s)
    BY DEF IInv, Running
  <1>2. UNCHANGED <<item, label, release>>
    BY DEF Statement
  <1>3. /\ seeder'[s].item = seeder[s].item
        /\ \A d \in Codes \ {c} : seeder'[s].label[d] = seeder[s].label[d]
    <2>1. CASE NeedsActivation(s)
      <3>1. seeder'[s] = [me EXCEPT !.pc = "activate"]
        BY <2>1 DEF AfterLabels
      <3>2. QED
        BY <3>1 DEF SeederStates
    <2>2. CASE ~NeedsActivation(s)
      BY <2>2, OnwardIs DEF AfterLabels
    <2>3. QED
      BY <2>1, <2>2
  <1>4. \A k \in Behind(s) : /\ SeesFacts(s, Items[k])' /\ SeesActive(s, Items[k])'
                             /\ SeesText(s, Items[k])'
    <2> SUFFICES ASSUME NEW k \in Behind(s)
                 PROVE  /\ SeesFacts(s, Items[k])' /\ SeesActive(s, Items[k])'
                        /\ SeesText(s, Items[k])'
      OBVIOUS
    <2>1. SeesFacts(s, Items[k]) /\ SeesActive(s, Items[k]) /\ SeesText(s, Items[k])
      BY <1>1 DEF WalkOK
    <2>2. Items[k] \in Codes \ {c}
      BY <1>1, PlaceIs, ItemsAre DEF Behind
    <2>3. QED
      BY <1>2, <1>3, <2>1, <2>2, SeesSame
  <1>5. /\ ItemSeen(s, c)' = ItemSeen(s, c) /\ Facts(c)' = Facts(c)
    BY <1>2, <1>3 DEF ItemSeen, Facts
  <1>6. SeesFacts(s, c)' /\ (SeesActive(s, c) => SeesActive(s, c)')
    <2>1. SeesFacts(s, c)
      BY <1>1 DEF WalkOK
    <2>2. SeesFacts(s, c)'
      BY <1>5, <2>1 DEF SeesFacts
    <2>3. SeesActive(s, c) => SeesActive(s, c)'
      BY <1>5 DEF SeesActive
    <2>4. QED
      BY <2>2, <2>3
  <1>7. CASE NeedsActivation(s)
    <2>1. seeder'[s] = [me EXCEPT !.pc = "activate"]
      BY <1>7 DEF AfterLabels
    <2>2. /\ seeder'[s].pc = "activate" /\ seeder'[s].at = seeder[s].at
          /\ seeder'[s].seen = seeder[s].seen /\ seeder'[s].silent = seeder[s].silent
      BY <2>1 DEF SeederStates
    <2>3. /\ Running(s)' /\ Place(s)' = c /\ Behind(s)' = Behind(s)
          /\ NeedsActivation(s)'
      BY <1>1, <1>7, <2>2 DEF Running, Place, Behind, NeedsActivation
    <2>4. ~seeder[s].silent
      BY <1>1, <1>7 DEF WalkOK
    <2>5. /\ SeesFacts(s, Place(s))' <=> SeesFacts(s, c)'
          /\ SeesText(s, Place(s))' <=> SeesText(s, c)'
      BY <2>3 DEF SeesFacts, SeesText, ItemSeen, LabelSeen, Facts, Text
    <2>6. WalkOK(s)'
      BY <1>4, <1>6, <2>2, <2>3, <2>4, <2>5 DEF WalkOK
    <2>7. QED
      BY <2>6, AStatement
  <1>8. CASE ~NeedsActivation(s)
    <2>1. seeder'[s] = Onward(s, me)
      BY <1>8 DEF AfterLabels
    <2>2. SeesActive(s, c)'
      BY <1>1, <1>6, <1>8 DEF WalkOK
    <2>3. me.silent => settled /\ me.item = Nothing /\ me.label = Nothing
      BY <1>1 DEF WalkOK
    <2>4. WalkOK(s)'
      BY <1>1, <1>4, <1>6, <2>1, <2>2, <2>3, GoesOn
    <2>5. QED
      BY <2>4, AStatement
  <1>9. QED
    BY <1>7, <1>8

LEMMA ReadLabelsInv ==
  ASSUME IInv, NEW s \in Seeders, ReadLabels(s)
  PROVE  IInv'
  <1>1. /\ StatesOK /\ WalkOK(s) /\ seq \in Nat /\ seeder[s].pc = "labels" /\ Running(s)
        /\ UNCHANGED <<item, label, seq, release, client, fetch>>
    BY DEF IInv, StatesOK, ReadLabels, shared, Running
  <1>2. PICK me : me = seeder[s]
    OBVIOUS
  <1>3. me \in SeederStates /\ seeder \in [Seeders -> SeederStates]
    BY <1>1, <1>2 DEF StatesOK
  <1>4. PICK c \in Codes : c = Place(s)
    BY <1>1, PlaceIs
  <1>5. CASE LabelsDiffer(s)
    <2>1. PICK next : next = [me EXCEPT !.pc = "write"]
      OBVIOUS
    <2>2. /\ next \in SeederStates /\ next.pc = "write" /\ next.at = me.at
          /\ next.item = me.item /\ next.label = me.label
          /\ next.seen = me.seen /\ next.silent = me.silent
      BY <1>3, <2>1 DEF SeederStates
    <2>3. seeder' = [seeder EXCEPT ![s] = next]
      BY <1>2, <1>5, <2>1 DEF ReadLabels
    <2>4. /\ seeder' \in [Seeders -> SeederStates] /\ seeder'[s] = next
          /\ \A t \in Seeders : t # s => seeder'[t] = seeder[t]
      BY <1>3, <2>2, <2>3
    <2>5. Statement(s)
      BY <1>1, <1>2, <2>2, <2>4 DEF Statement
    <2>6. \A d : /\ SeesFacts(s, d)' <=> SeesFacts(s, d)
                 /\ SeesText(s, d)' <=> SeesText(s, d)
                 /\ SeesActive(s, d)' <=> SeesActive(s, d)
      BY <1>1, <1>2, <2>2, <2>4, SeesSame
    <2>7. /\ Place(s)' = Place(s) /\ Running(s)' /\ Behind(s)' = Behind(s)
          /\ NeedsActivation(s)' <=> NeedsActivation(s)
      BY <1>1, <1>2, <2>2, <2>4 DEF Place, Running, Behind, NeedsActivation
    <2>8. ~seeder[s].silent
      <3> SUFFICES ASSUME seeder[s].silent PROVE FALSE
        OBVIOUS
      <3>1. settled /\ seeder[s].label = Nothing
        BY <1>1 DEF WalkOK
      <3>2. LabelSeen(s, c) = label[c] /\ label[c] # Null /\ label[c].text = Text(c)
        BY <3>1 DEF LabelSeen, Nothing, settled
      <3>3. QED
        BY <1>4, <1>5, <3>2 DEF LabelsDiffer
    <2>9. WalkOK(s)'
      BY <1>1, <1>2, <2>2, <2>4, <2>6, <2>7, <2>8 DEF WalkOK
    <2>10. QED
      BY <2>5, <2>9, AStatement
  <1>6. CASE ~LabelsDiffer(s)
    <2>1. PICK next : next = AfterLabels(s, me)
      OBVIOUS
    <2>2. /\ next \in SeederStates
          /\ next.item = me.item /\ next.label = me.label
      <3>1. CASE NeedsActivation(s)
        BY <1>3, <2>1, <3>1 DEF AfterLabels, SeederStates
      <3>2. CASE ~NeedsActivation(s)
        BY <1>3, <2>1, <3>2, OnwardIs DEF AfterLabels
      <3>3. QED
        BY <3>1, <3>2
    <2>3. seeder' = [seeder EXCEPT ![s] = next]
      BY <1>2, <1>6, <2>1 DEF ReadLabels
    <2>4. /\ seeder' \in [Seeders -> SeederStates] /\ seeder'[s] = next
          /\ \A t \in Seeders : t # s => seeder'[t] = seeder[t]
      BY <1>3, <2>2, <2>3
    <2>5. Statement(s)
      BY <1>1, <1>2, <2>2, <2>4 DEF Statement
    <2>6. SeesText(s, c)
      BY <1>4, <1>6 DEF LabelsDiffer, SeesText
    <2>7. SeesText(s, c)'
      BY <1>1, <1>2, <2>2, <2>4, <2>6, SeesSame
    <2>8. QED
      BY <1>1, <1>2, <1>3, <1>4, <2>1, <2>4, <2>5, <2>7, LabelsDone
  <1>7. QED
    BY <1>5, <1>6

LEMMA WriteLabelsInv ==
  ASSUME IInv, NEW s \in Seeders, WriteLabels(s)
  PROVE  IInv'
  <1>1. /\ StatesOK /\ WalkOK(s) /\ seq \in Nat /\ seeder[s].pc = "write"
        /\ UNCHANGED <<item, label, release, client, fetch>> /\ seq' = seq + 1
    BY DEF IInv, StatesOK, WriteLabels, shared
  <1>2. PICK c \in Codes : c = Place(s)
    BY <1>1, PlaceIs
  <1>3. PICK row : row = [text |-> Text(c), rev |-> seq + 1]
    OBVIOUS
  <1>4. row \in LabelRows /\ row.text = Text(c) /\ row.rev = seq + 1 /\ row # Null
    <2>1. row \in LabelRows /\ row.text = Text(c) /\ row.rev = seq + 1
      BY <1>1, <1>3, SeenTypes DEF LabelRows
    <2>2. QED
      BY <2>1, NullAssumption
  <1>5. seeder[s] \in SeederStates /\ seeder \in [Seeders -> SeederStates]
    BY <1>1 DEF StatesOK
  <1>6. seeder[s].label \in [Codes -> LabelRows \cup {Null}]
    BY <1>5 DEF SeederStates
  <1>7. PICK me : me = [seeder[s] EXCEPT !.label[c] = row]
    OBVIOUS
  <1>8. /\ [seeder[s].label EXCEPT ![c] = row] \in [Codes -> LabelRows \cup {Null}]
        /\ [seeder[s].label EXCEPT ![c] = row][c] = row
        /\ \A d \in Codes \ {c} : [seeder[s].label EXCEPT ![c] = row][d] = seeder[s].label[d]
    BY <1>4, <1>6
  <1>9. /\ me \in SeederStates /\ me.at = seeder[s].at
        /\ me.label = [seeder[s].label EXCEPT ![c] = row]
        /\ me.item = seeder[s].item /\ me.seen = seeder[s].seen
        /\ me.silent = seeder[s].silent
    BY <1>5, <1>7, <1>8 DEF SeederStates
  <1>10. PICK next : next = AfterLabels(s, me)
    OBVIOUS
  <1>11. /\ next \in SeederStates
         /\ next.item = me.item /\ next.label = me.label
    <2>1. CASE NeedsActivation(s)
      BY <1>9, <1>10, <2>1 DEF AfterLabels, SeederStates
    <2>2. CASE ~NeedsActivation(s)
      BY <1>9, <1>10, <2>2, OnwardIs DEF AfterLabels
    <2>3. QED
      BY <2>1, <2>2
  <1>12. seeder' = [seeder EXCEPT ![s] = next]
    BY <1>2, <1>3, <1>5, <1>7, <1>10 DEF WriteLabels, Revision
  <1>13. /\ seeder' \in [Seeders -> SeederStates] /\ seeder'[s] = next
         /\ \A t \in Seeders : t # s => seeder'[t] = seeder[t]
    BY <1>5, <1>11, <1>12
  <1>14. /\ seeder'[s].item = seeder[s].item /\ seeder'[s].label[c] = row
         /\ \A d \in Codes \ {c} : seeder'[s].label[d] = seeder[s].label[d]
    BY <1>8, <1>9, <1>11, <1>13
  <1>15. NewLabel(s, c, seeder'[s].label[c])
    BY <1>2, <1>4, <1>14 DEF NewLabel, WriteLabels
  <1>16. Statement(s)
    BY <1>1, <1>13, <1>14, <1>15 DEF Statement
  <1>17. SeesText(s, c)'
    <2>1. LabelSeen(s, c)' = row /\ Text(c)' = Text(c)
      BY <1>1, <1>4, <1>14 DEF LabelSeen, Text
    <2>2. QED
      BY <1>4, <2>1 DEF SeesText
  <1>18. ~seeder[s].silent
    BY <1>1 DEF WalkOK
  <1>19. \A d \in Codes \ {Place(s)} : me.label[d] = seeder[s].label[d]
    BY <1>2, <1>8, <1>9
  <1>20. QED
    BY <1>1, <1>2, <1>9, <1>10, <1>13, <1>16, <1>17, <1>18, <1>19, LabelsDone

LEMMA ActivateInv ==
  ASSUME IInv, NEW s \in Seeders, Activate(s)
  PROVE  IInv'
  <1>1. /\ StatesOK /\ WalkOK(s) /\ PendingOK(s) /\ seq \in Nat
        /\ seeder[s].pc = "activate" /\ Running(s)
        /\ UNCHANGED <<item, label, release, client, fetch>> /\ seq' = seq + 1
    BY DEF IInv, StatesOK, Activate, shared, Running
  <1>2. PICK c \in Codes : c = Place(s)
    BY <1>1, PlaceIs
  <1>3. PICK row : row = [ItemSeen(s, c) EXCEPT !.active = TRUE, !.rev = seq + 1]
    OBVIOUS
  <1>4. /\ ItemSeen(s, c) \in ItemRows /\ ItemSeen(s, c).facts = Facts(c)
        /\ SeesText(s, c)
    BY <1>1, <1>2, SeenTypes DEF WalkOK, SeesFacts
  <1>5. /\ row \in ItemRows /\ row.facts = Facts(c) /\ row.active = TRUE
        /\ row.rev = seq + 1 /\ row.merged = ItemSeen(s, c).merged
    <2>1. seq + 1 \in Nat \ {0}
      BY <1>1
    <2>2. row \in ItemRows
      <3> DEFINE F == {Declared[r][d].facts : r \in Releases, d \in Codes}
      <3>1. ItemRows = [facts : F, active : BOOLEAN, merged : Codes \cup {Null}, rev : Nat \ {0}]
        BY DEF ItemRows
      <3> HIDE DEF F
      <3>2. QED
        BY <1>3, <1>4, <2>1, <3>1
    <2>3. /\ row.active = TRUE /\ row.rev = seq + 1
          /\ row.facts = ItemSeen(s, c).facts /\ row.merged = ItemSeen(s, c).merged
      BY <1>3, <1>4 DEF ItemRows
    <2>4. QED
      BY <1>4, <2>2, <2>3
  <1>6. row # Null
    BY <1>5, NullAssumption
  <1>7. item[c] # Null => row.merged = item[c].merged
    BY <1>1, <1>5 DEF ItemSeen, PendingOK
  <1>8. seeder[s] \in SeederStates /\ seeder \in [Seeders -> SeederStates]
    BY <1>1 DEF StatesOK
  <1>9. seeder[s].item \in [Codes -> ItemRows \cup {Null}]
    BY <1>8 DEF SeederStates
  <1>10. PICK me : me = [seeder[s] EXCEPT !.item[c] = row]
    OBVIOUS
  <1>11. /\ [seeder[s].item EXCEPT ![c] = row] \in [Codes -> ItemRows \cup {Null}]
         /\ [seeder[s].item EXCEPT ![c] = row][c] = row
         /\ \A d \in Codes \ {c} : [seeder[s].item EXCEPT ![c] = row][d] = seeder[s].item[d]
    BY <1>5, <1>9
  <1>12. /\ me \in SeederStates /\ me.at = seeder[s].at
         /\ me.item = [seeder[s].item EXCEPT ![c] = row]
         /\ me.label = seeder[s].label /\ me.silent = seeder[s].silent
    BY <1>8, <1>10, <1>11 DEF SeederStates
  <1>13. PICK next : next = Onward(s, me)
    OBVIOUS
  <1>14. next \in SeederStates /\ next.item = me.item /\ next.label = me.label
    BY <1>12, <1>13, OnwardIs
  <1>15. seeder' = [seeder EXCEPT ![s] = next]
    BY <1>2, <1>3, <1>8, <1>10, <1>13 DEF Activate, Revision
  <1>16. /\ seeder' \in [Seeders -> SeederStates] /\ seeder'[s] = next
         /\ \A t \in Seeders : t # s => seeder'[t] = seeder[t]
    BY <1>8, <1>14, <1>15
  <1>17. /\ seeder'[s].label = seeder[s].label /\ seeder'[s].item[c] = row
         /\ \A d \in Codes \ {c} : seeder'[s].item[d] = seeder[s].item[d]
    BY <1>11, <1>12, <1>14, <1>16
  <1>18. NewItem(s, c, seeder'[s].item[c])
    BY <1>2, <1>5, <1>7, <1>17 DEF NewItem, Activate
  <1>19. Statement(s)
    BY <1>1, <1>16, <1>17, <1>18 DEF Statement
  <1>20. SeesFacts(s, c)' /\ SeesActive(s, c)' /\ SeesText(s, c)'
    <2>1. /\ ItemSeen(s, c)' = row /\ Facts(c)' = Facts(c)
          /\ LabelSeen(s, c)' = LabelSeen(s, c) /\ Text(c)' = Text(c)
      BY <1>1, <1>6, <1>17 DEF ItemSeen, LabelSeen, Facts, Text
    <2>2. QED
      BY <1>4, <1>5, <1>6, <2>1 DEF SeesFacts, SeesActive, SeesText
  <1>21. \A k \in Behind(s) : /\ SeesFacts(s, Items[k])' /\ SeesActive(s, Items[k])'
                              /\ SeesText(s, Items[k])'
    <2> SUFFICES ASSUME NEW k \in Behind(s)
                 PROVE  /\ SeesFacts(s, Items[k])' /\ SeesActive(s, Items[k])'
                        /\ SeesText(s, Items[k])'
      OBVIOUS
    <2>1. SeesFacts(s, Items[k]) /\ SeesActive(s, Items[k]) /\ SeesText(s, Items[k])
      BY <1>1 DEF WalkOK
    <2>2. Items[k] \in Codes \ {c}
      BY <1>1, <1>2, PlaceIs, ItemsAre DEF Behind
    <2>3. QED
      BY <1>1, <1>17, <2>1, <2>2, SeesSame
  <1>22. ~me.silent
    BY <1>1, <1>12 DEF WalkOK
  <1>23. WalkOK(s)'
    BY <1>1, <1>2, <1>12, <1>13, <1>16, <1>19, <1>20, <1>21, <1>22, GoesOn
  <1>24. QED
    BY <1>19, <1>23, AStatement

--------------------------------------------------------------------------------
(* The tables advance *)

\* A row of the tables stays, is newer than all of them were, or says what it said
\* under a revision that is no older.
Advanced(c) ==
  \/ item'[c] = item[c] /\ label'[c] = label[c]
  \/ item'[c] # Null /\ Effective(c)' > TypeVersion
  \/ /\ item[c] # Null /\ item'[c] # Null
     /\ Content(c)' = Content(c) /\ Effective(c)' >= Effective(c)

EffectiveOK(c) ==
  item[c] # Null =>
    /\ item[c].rev \in Nat /\ label[c].rev \in Nat /\ Effective(c) \in Nat
    /\ Effective(c) >= item[c].rev /\ Effective(c) >= label[c].rev
    /\ Effective(c) = item[c].rev \/ Effective(c) = label[c].rev

LEMMA EffectiveAre == StatesOK => \A c \in Codes : EffectiveOK(c)
  BY EffectiveIs DEF EffectiveOK

LEMMA VersionAdvances ==
  ASSUME StatesOK, StatesOK', \A c \in Codes : Advanced(c)
  PROVE  TypeVersion \in Nat /\ TypeVersion' \in Nat /\ TypeVersion <= TypeVersion'
  <1>1. IsNewest(TypeVersion)
    BY Newest
  <1>2. (StatesOK => IsNewest(TypeVersion))'
    BY Newest, PTL
  <1>3. /\ TypeVersion' \in Nat
        /\ \A c \in Codes : item'[c] # Null => Effective(c)' <= TypeVersion'
    BY <1>2 DEF IsNewest
  <1>4. (StatesOK => \A c \in Codes : EffectiveOK(c))'
    BY EffectiveAre, PTL
  <1>5. \A c \in Codes : item'[c] # Null => Effective(c)' \in Nat
    BY <1>4 DEF EffectiveOK
  <1>6. CASE TypeVersion = 0
    BY <1>3, <1>6
  <1>7. CASE \E c \in Codes : item[c] # Null /\ Effective(c) = TypeVersion
    <2>1. PICK c \in Codes : item[c] # Null /\ Effective(c) = TypeVersion
      BY <1>7
    <2>2. TypeVersion \in Nat /\ TypeVersion' \in Nat
      BY <1>1, <1>3 DEF IsNewest
    <2>3. CASE item'[c] = item[c] /\ label'[c] = label[c]
      <3>1. Effective(c)' = Effective(c)
        BY <2>3 DEF Effective
      <3>2. QED
        BY <1>3, <2>1, <2>2, <2>3, <3>1
    <2>4. CASE item'[c] # Null /\ Effective(c)' > TypeVersion
      BY <1>3, <1>5, <2>1, <2>2, <2>4
    <2>5. CASE item'[c] # Null /\ Effective(c)' >= Effective(c)
      BY <1>3, <1>5, <2>1, <2>2, <2>5
    <2>6. QED
      BY <2>1, <2>3, <2>4, <2>5 DEF Advanced
  <1>8. QED
    BY <1>1, <1>3, <1>6, <1>7 DEF IsNewest

LEMMA CurrentAdvances ==
  ASSUME StatesOK, StatesOK', \A c \in Codes : Advanced(c), NEW cache,
         NEW v \in Nat, v <= TypeVersion, Current(cache, v)
  PROVE  \A c \in Codes : IF item'[c] = Null THEN cache[c] = [kind |-> "absent"]
                          ELSE Effective(c)' <= v => cache[c] = Content(c)'
  <1>1. TypeVersion \in Nat
    BY VersionAdvances
  <1>2. (StatesOK => \A c \in Codes : EffectiveOK(c))'
    BY EffectiveAre, PTL
  <1> SUFFICES ASSUME NEW c \in Codes
               PROVE  IF item'[c] = Null THEN cache[c] = [kind |-> "absent"]
                      ELSE Effective(c)' <= v => cache[c] = Content(c)'
    OBVIOUS
  <1>3. item'[c] # Null => Effective(c)' \in Nat
    BY <1>2 DEF EffectiveOK
  <1>4. item[c] # Null => Effective(c) \in Nat
    BY EffectiveIs
  <1>5. IF item[c] = Null THEN cache[c] = [kind |-> "absent"]
        ELSE Effective(c) <= v => cache[c] = Content(c)
    BY DEF Current
  <1>6. CASE item'[c] = item[c] /\ label'[c] = label[c]
    <2>1. Effective(c)' = Effective(c) /\ Content(c)' = Content(c)
      BY <1>6 DEF Effective, Content
    <2>2. QED
      BY <1>5, <1>6, <2>1
  <1>7. CASE item'[c] # Null /\ Effective(c)' > TypeVersion
    BY <1>1, <1>3, <1>7
  <1>8. CASE /\ item[c] # Null /\ item'[c] # Null
             /\ Content(c)' = Content(c) /\ Effective(c)' >= Effective(c)
    BY <1>3, <1>4, <1>5, <1>8
  <1>9. QED
    BY <1>6, <1>7, <1>8 DEF Advanced

LEMMA ClientAdvances ==
  ASSUME IInv, StatesOK', \A c \in Codes : Advanced(c), UNCHANGED <<client, fetch>>
  PROVE  ClientOK' /\ FetchOK'
  <1>1. StatesOK /\ ClientOK /\ FetchOK
    BY DEF IInv
  <1>2. TypeVersion \in Nat /\ TypeVersion' \in Nat /\ TypeVersion <= TypeVersion'
    BY <1>1, VersionAdvances
  <1>3. Current(client.cache, client.version)'
    <2>1. client.version \in Nat /\ client.version <= TypeVersion
      BY <1>1 DEF ClientOK
    <2>2. PICK cache, v : cache = client.cache /\ v = client.version
      OBVIOUS
    <2>3. \A c \in Codes : IF item'[c] = Null THEN cache[c] = [kind |-> "absent"]
                           ELSE Effective(c)' <= v => cache[c] = Content(c)'
      BY <1>1, <2>1, <2>2, CurrentAdvances DEF ClientOK
    <2>4. client'.cache = cache /\ client'.version = v
      BY <2>2
    <2>5. QED
      BY <2>3, <2>4 DEF Current
  <1>4. ClientOK'
    BY <1>1, <1>2, <1>3 DEF ClientOK
  <1>5. fetch.pc = "answered" => Current(Absorb(fetch).cache, fetch.version)'
    <2> SUFFICES ASSUME fetch.pc = "answered"
                 PROVE  Current(Absorb(fetch).cache, fetch.version)'
      OBVIOUS
    <2>1. /\ fetch.version \in Nat /\ fetch.version <= TypeVersion
          /\ Current(Absorb(fetch).cache, fetch.version)
      BY <1>1 DEF FetchOK
    <2>2. PICK cache, v : cache = Absorb(fetch).cache /\ v = fetch.version
      OBVIOUS
    <2>3. \A c \in Codes : IF item'[c] = Null THEN cache[c] = [kind |-> "absent"]
                           ELSE Effective(c)' <= v => cache[c] = Content(c)'
      BY <1>1, <2>1, <2>2, CurrentAdvances
    <2>4. (Absorb(fetch).cache)' = cache /\ fetch'.version = v
      BY <2>2 DEF Absorb
    <2>5. QED
      BY <2>3, <2>4 DEF Current
  <1>6. FetchOK'
    BY <1>1, <1>2, <1>5 DEF FetchOK
  <1>7. QED
    BY <1>4, <1>6

--------------------------------------------------------------------------------
(* The end of a seeder's transaction *)

\* A seed that commits leaves every item as its release declares it.
LEMMA CommitSettles ==
  ASSUME IInv, NEW s \in Seeders, Commit(s)
  PROVE  /\ settled'
         /\ \A c \in Codes : /\ SeesFacts(s, c) /\ SeesActive(s, c) /\ SeesText(s, c)
                             /\ item'[c] = ItemSeen(s, c) /\ label'[c] = LabelSeen(s, c)
                             /\ Facts(c)' = Facts(c) /\ Text(c)' = Text(c)
  <1>1. WalkOK(s) /\ seeder[s].pc = "commit" /\ Running(s)
    BY DEF IInv, Commit, Running
  <1>2. \A k \in DOMAIN Items : k \in Behind(s)
    BY <1>1 DEF Behind
  <1>3. \A c \in Codes : /\ SeesFacts(s, c) /\ SeesActive(s, c) /\ SeesText(s, c)
                         /\ item'[c] = ItemSeen(s, c) /\ label'[c] = LabelSeen(s, c)
                         /\ Facts(c)' = Facts(c) /\ Text(c)' = Text(c)
    <2> SUFFICES ASSUME NEW c \in Codes
                 PROVE  /\ SeesFacts(s, c) /\ SeesActive(s, c) /\ SeesText(s, c)
                        /\ item'[c] = ItemSeen(s, c) /\ label'[c] = LabelSeen(s, c)
                        /\ Facts(c)' = Facts(c) /\ Text(c)' = Text(c)
      OBVIOUS
    <2>1. PICK k \in DOMAIN Items : Items[k] = c
      BY DEF Codes
    <2>2. SeesFacts(s, c) /\ SeesActive(s, c) /\ SeesText(s, c)
      BY <1>1, <1>2, <2>1 DEF WalkOK
    <2>3. item'[c] = ItemSeen(s, c) /\ label'[c] = LabelSeen(s, c)
      BY DEF Commit
    <2>4. Facts(c)' = Facts(c) /\ Text(c)' = Text(c)
      BY DEF Commit, Facts, Text
    <2>5. QED
      BY <2>2, <2>3, <2>4
  <1>4. settled'
    BY <1>3 DEF settled, SeesFacts, SeesActive, SeesText
  <1>5. QED
    BY <1>3, <1>4

LEMMA CommitStates ==
  ASSUME IInv, NEW s \in Seeders, Commit(s)
  PROVE  /\ StatesOK'
         /\ seeder'[s] = [Idle EXCEPT !.pc = "done"]
         /\ \A t \in Seeders : t # s => seeder'[t] = seeder[t]
         /\ seeder'[s].item = Nothing /\ seeder'[s].label = Nothing
         /\ ~seeder'[s].silent /\ seeder'[s].pc = "done"
  <1>1. /\ StatesOK /\ seq \in Nat /\ release \in Releases
        /\ UNCHANGED <<seq, release, client, fetch>>
        /\ seeder \in [Seeders -> SeederStates]
        /\ PendingOK(s)
    BY DEF IInv, StatesOK, Commit
  <1>2. PICK me : me = [Idle EXCEPT !.pc = "done"]
    OBVIOUS
  <1>3. /\ me \in SeederStates /\ me.pc = "done" /\ me.item = Nothing /\ me.label = Nothing
        /\ me.silent = FALSE
    BY <1>2, IdleIs DEF SeederStates
  <1>4. seeder' = [seeder EXCEPT ![s] = me]
    BY <1>2 DEF Commit
  <1>5. /\ seeder' \in [Seeders -> SeederStates] /\ seeder'[s] = me
        /\ \A t \in Seeders : t # s => seeder'[t] = seeder[t]
    BY <1>1, <1>3, <1>4
  <1>6. /\ item' \in [Codes -> ItemRows \cup {Null}]
        /\ label' \in [Codes -> LabelRows \cup {Null}]
    BY <1>1, SeenTypes DEF Commit
  <1>7. \A c \in Codes : /\ item'[c] # Null => item'[c].rev <= seq'
                         /\ label'[c] # Null => label'[c].rev <= seq'
                         /\ item'[c] # Null <=> label'[c] # Null
    <2> SUFFICES ASSUME NEW c \in Codes
                 PROVE  /\ item'[c] # Null => item'[c].rev <= seq'
                        /\ label'[c] # Null => label'[c].rev <= seq'
                        /\ item'[c] # Null <=> label'[c] # Null
      OBVIOUS
    <2>1. item'[c] = ItemSeen(s, c) /\ label'[c] = LabelSeen(s, c)
          /\ item'[c] # Null /\ label'[c] # Null
      BY CommitSettles DEF SeesFacts, SeesText
    <2>2. item'[c] = seeder[s].item[c] \/ item'[c] = item[c]
      BY <2>1 DEF ItemSeen
    <2>3. label'[c] = seeder[s].label[c] \/ label'[c] = label[c]
      BY <2>1 DEF LabelSeen
    <2>4. item'[c].rev <= seq
      BY <1>1, <2>1, <2>2 DEF PendingOK, StatesOK, TypeOK
    <2>5. label'[c].rev <= seq
      BY <1>1, <2>1, <2>3 DEF PendingOK, StatesOK, TypeOK
    <2>6. QED
      BY <1>1, <2>1, <2>4, <2>5
  <1>8. TypeOK'
    BY <1>1, <1>6, <1>7 DEF StatesOK, TypeOK
  <1>9. StatesOK'
    BY <1>1, <1>5, <1>7, <1>8 DEF StatesOK
  <1>10. QED
    BY <1>2, <1>3, <1>5, <1>9

\* What another seeder has pending and what it sees survive a commit.
LEMMA CommitOthers ==
  ASSUME IInv, NEW s \in Seeders, Commit(s), NEW t \in Seeders, t # s
  PROVE  PendingOK(t)' /\ WalkOK(t)'
  <1>1. /\ StatesOK /\ PendingOK(t) /\ WalkOK(t) /\ seq \in Nat
        /\ UNCHANGED <<seq, release>>
    BY DEF IInv, StatesOK, Commit
  <1>2. /\ StatesOK' /\ settled'
        /\ seeder'[s].item = Nothing /\ seeder'[s].label = Nothing
        /\ \A u \in Seeders : u # s => seeder'[u] = seeder[u]
        /\ seeder'[t] = seeder[t]
    BY CommitStates, CommitSettles
  <1>3. \A c \in Codes :
          /\ seeder[t].item[c] # Null => ItemFree(t, c) /\ item'[c] = item[c]
          /\ seeder[t].label[c] # Null => LabelFree(t, c) /\ label'[c] = label[c]
    <2> SUFFICES ASSUME NEW c \in Codes
                 PROVE  /\ seeder[t].item[c] # Null => ItemFree(t, c) /\ item'[c] = item[c]
                        /\ seeder[t].label[c] # Null => LabelFree(t, c) /\ label'[c] = label[c]
      OBVIOUS
    <2>1. item'[c] = ItemSeen(s, c) /\ label'[c] = LabelSeen(s, c)
      BY CommitSettles
    <2>2. seeder[t].item[c] # Null => ItemFree(t, c) /\ seeder[s].item[c] = Null
      BY <1>1 DEF PendingOK, ItemFree
    <2>3. seeder[t].label[c] # Null => LabelFree(t, c) /\ seeder[s].label[c] = Null
      BY <1>1 DEF PendingOK, LabelFree
    <2>4. QED
      BY <2>1, <2>2, <2>3 DEF ItemSeen, LabelSeen
  <1>4. \A c \in Codes : /\ Facts(c)' = Facts(c) /\ Text(c)' = Text(c)
                         /\ ItemFree(t, c) => ItemFree(t, c)'
                         /\ LabelFree(t, c) => LabelFree(t, c)'
    <2>1. \A c \in Codes : seeder'[s].item[c] = Null /\ seeder'[s].label[c] = Null
      BY <1>2 DEF Nothing
    <2>2. QED
      BY <1>1, <1>2, <2>1 DEF Facts, Text, ItemFree, LabelFree
  <1>5. PendingOK(t)'
    BY <1>1, <1>2, <1>3, <1>4 DEF PendingOK
  <1>6. \A c \in Codes : /\ SeesFacts(t, c)' /\ SeesText(t, c)'
                         /\ SeesActive(t, c) => SeesActive(t, c)'
    <2> SUFFICES ASSUME NEW c \in Codes
                 PROVE  /\ SeesFacts(t, c)' /\ SeesText(t, c)'
                        /\ SeesActive(t, c) => SeesActive(t, c)'
      OBVIOUS
    <2>1. /\ item'[c] # Null /\ item'[c].facts = Facts(c)' /\ item'[c].active
          /\ label'[c] # Null /\ label'[c].text = Text(c)'
      BY <1>2 DEF settled
    <2>2. /\ ItemSeen(t, c)' = IF seeder[t].item[c] # Null THEN seeder[t].item[c] ELSE item'[c]
          /\ LabelSeen(t, c)' = IF seeder[t].label[c] # Null THEN seeder[t].label[c] ELSE label'[c]
      BY <1>2 DEF ItemSeen, LabelSeen
    <2>3. /\ seeder[t].item[c] # Null => seeder[t].item[c].facts = Facts(c)
          /\ seeder[t].label[c] # Null => seeder[t].label[c].text = Text(c)
      BY <1>1 DEF PendingOK
    <2>4. SeesFacts(t, c)'
      BY <1>4, <2>1, <2>2, <2>3 DEF SeesFacts
    <2>5. SeesText(t, c)'
      BY <1>4, <2>1, <2>2, <2>3 DEF SeesText
    <2>6. SeesActive(t, c) => SeesActive(t, c)'
      BY <2>1, <2>2 DEF SeesActive, ItemSeen
    <2>7. QED
      BY <2>4, <2>5, <2>6
  <1>7. /\ Place(t)' = Place(t) /\ Behind(t)' = Behind(t)
        /\ NeedsActivation(t)' <=> NeedsActivation(t)
        /\ Running(t)' <=> Running(t)
        /\ Place(t) \in Codes
        /\ \A k \in Behind(t) : Items[k] \in Codes
    BY <1>1, <1>2, PlaceIs, ItemsAre DEF Place, Behind, NeedsActivation, Running
  <1>8. PICK c \in Codes : c = Place(t)
    BY <1>7
  <1>9. SeesFacts(t, c)' /\ SeesText(t, c)' /\ (SeesActive(t, c) => SeesActive(t, c)')
    BY <1>6
  <1>10. /\ SeesFacts(t, Place(t))' <=> SeesFacts(t, c)'
         /\ SeesText(t, Place(t))' <=> SeesText(t, c)'
         /\ SeesActive(t, Place(t))' <=> SeesActive(t, c)'
         /\ (ItemSeen(t, Place(t)) # Null)' <=> ItemSeen(t, c)' # Null
    BY <1>7, <1>8 DEF SeesFacts, SeesText, SeesActive, ItemSeen, LabelSeen, Facts, Text
  <1>11. ItemSeen(t, c)' # Null
    BY <1>9 DEF SeesFacts
  <1>12. \A k \in Behind(t) : /\ SeesFacts(t, Items[k])' /\ SeesText(t, Items[k])'
                              /\ SeesActive(t, Items[k]) => SeesActive(t, Items[k])'
    BY <1>6, <1>7
  <1>13. WalkOK(t)'
    BY <1>1, <1>2, <1>7, <1>8, <1>9, <1>10, <1>11, <1>12 DEF WalkOK
  <1>14. QED
    BY <1>5, <1>13

LEMMA CommitAdvances ==
  ASSUME IInv, NEW s \in Seeders, Commit(s)
  PROVE  \A c \in Codes : Advanced(c)
  <1>0. (StatesOK => \A c \in Codes : EffectiveOK(c))'
    BY EffectiveAre, PTL
  <1> SUFFICES ASSUME NEW c \in Codes PROVE Advanced(c)
    OBVIOUS
  <1>1. /\ StatesOK /\ PendingOK(s) /\ StatesOK' /\ seq \in Nat
    BY CommitStates DEF IInv, StatesOK
  <1>2. /\ SeesFacts(s, c) /\ SeesActive(s, c) /\ SeesText(s, c)
        /\ item'[c] = ItemSeen(s, c) /\ label'[c] = LabelSeen(s, c)
        /\ item'[c] # Null /\ label'[c] # Null
    BY CommitSettles DEF SeesFacts, SeesText
  <1>4. /\ item'[c].rev \in Nat /\ label'[c].rev \in Nat /\ Effective(c)' \in Nat
        /\ Effective(c)' >= item'[c].rev /\ Effective(c)' >= label'[c].rev
    BY <1>1, <1>2, <1>0 DEF EffectiveOK
  <1>5. TypeVersion \in Nat
    BY <1>1, Newest DEF IsNewest
  <1>6. CASE ~settled
    <2>1. CASE seeder[s].item[c] # Null
      <3>1. item'[c] = seeder[s].item[c] /\ item'[c].rev > TypeVersion
        BY <1>1, <1>2, <1>6, <2>1 DEF ItemSeen, PendingOK
      <3>2. QED
        BY <1>2, <1>4, <1>5, <3>1 DEF Advanced
    <2>2. CASE seeder[s].label[c] # Null
      <3>1. label'[c] = seeder[s].label[c] /\ label'[c].rev > TypeVersion
        BY <1>1, <1>2, <1>6, <2>2 DEF LabelSeen, PendingOK
      <3>2. QED
        BY <1>2, <1>4, <1>5, <3>1 DEF Advanced
    <2>3. CASE seeder[s].item[c] = Null /\ seeder[s].label[c] = Null
      BY <1>2, <2>3 DEF ItemSeen, LabelSeen, Advanced
    <2>4. QED
      BY <2>1, <2>2, <2>3
  <1>7. CASE settled
    <2>1. /\ item[c] # Null /\ item[c].facts = Facts(c) /\ item[c].active
          /\ label[c] # Null /\ label[c].text = Text(c)
      BY <1>7 DEF settled
    <2>2. EffectiveOK(c)
      BY <1>1, EffectiveAre
    <2>3. /\ item[c].rev \in Nat /\ label[c].rev \in Nat /\ Effective(c) \in Nat
          /\ Effective(c) = item[c].rev \/ Effective(c) = label[c].rev
      BY <2>1, <2>2 DEF EffectiveOK
    <2>4. item'[c].facts = Facts(c) /\ item'[c].active /\ label'[c].text = Text(c)
      BY <1>2 DEF SeesFacts, SeesActive, SeesText
    <2>5. item'[c].merged = item[c].merged /\ item'[c].rev >= item[c].rev
      BY <1>1, <1>2, <1>4, <2>1, <2>3 DEF ItemSeen, PendingOK
    <2>6. label'[c].rev >= label[c].rev
      BY <1>1, <1>2, <1>4, <2>1, <2>3 DEF LabelSeen, PendingOK
    <2>7. Content(c)' = Content(c)
      BY <1>2, <2>1, <2>4, <2>5 DEF Content
    <2>8. Effective(c)' >= Effective(c)
      BY <1>4, <2>3, <2>5, <2>6
    <2>9. QED
      BY <1>2, <2>1, <2>7, <2>8 DEF Advanced
  <1>8. QED
    BY <1>6, <1>7

LEMMA CommitInv ==
  ASSUME IInv, NEW s \in Seeders, Commit(s)
  PROVE  IInv'
  <1>1. /\ StatesOK'
        /\ seeder'[s].item = Nothing /\ seeder'[s].label = Nothing
        /\ ~seeder'[s].silent /\ seeder'[s].pc = "done"
    BY CommitStates
  <1>2. PendingOK(s)'
    <2>1. \A c \in Codes : seeder'[s].item[c] = Null /\ seeder'[s].label[c] = Null
      BY <1>1 DEF Nothing
    <2>2. QED
      BY <2>1 DEF PendingOK
  <1>3. WalkOK(s)'
    BY <1>1 DEF WalkOK, Running
  <1>4. \A t \in Seeders : PendingOK(t)' /\ WalkOK(t)'
    BY <1>2, <1>3, CommitOthers
  <1>5. UNCHANGED <<client, fetch>>
    BY DEF Commit
  <1>6. ClientOK' /\ FetchOK'
    BY <1>1, <1>5, CommitAdvances, ClientAdvances
  <1>7. QED
    BY <1>1, <1>4, <1>6 DEF IInv

--------------------------------------------------------------------------------
(* Between the seeders *)

\* Nothing is pending while no seeder runs.
LEMMA QuietIs ==
  ASSUME IInv, Quiet, NEW s \in Seeders
  PROVE  /\ seeder[s].item = Nothing /\ seeder[s].label = Nothing
         /\ ~seeder[s].silent /\ ~Running(s)
  BY DEF IInv, WalkOK, Quiet

LEMMA QuietStays ==
  ASSUME IInv, Quiet, UNCHANGED seeder
  PROVE  \A s \in Seeders : PendingOK(s)' /\ WalkOK(s)'
  <1> SUFFICES ASSUME NEW s \in Seeders PROVE PendingOK(s)' /\ WalkOK(s)'
    OBVIOUS
  <1>1. /\ seeder'[s].item = Nothing /\ seeder'[s].label = Nothing
        /\ ~seeder'[s].silent /\ seeder'[s].pc \in {"idle", "done"}
    BY QuietIs DEF Running
  <1>2. \A c \in Codes : seeder'[s].item[c] = Null /\ seeder'[s].label[c] = Null
    BY <1>1 DEF Nothing
  <1>3. PendingOK(s)'
    BY <1>2 DEF PendingOK
  <1>4. WalkOK(s)'
    BY <1>1 DEF WalkOK, Running
  <1>5. QED
    BY <1>3, <1>4

LEMMA NewReleaseInv ==
  ASSUME IInv, NewRelease
  PROVE  IInv'
  <1>1. /\ StatesOK /\ ClientOK /\ FetchOK /\ Quiet
        /\ UNCHANGED <<item, label, seq, seeder, client, fetch>>
        /\ release \in Releases /\ release < Len(Declared) /\ release' = release + 1
    BY DEF IInv, StatesOK, NewRelease
  <1>2. release' \in Releases
    BY <1>1, ItemsAre
  <1>3. StatesOK'
    BY <1>1, <1>2 DEF StatesOK, TypeOK
  <1>4. \A s \in Seeders : PendingOK(s)' /\ WalkOK(s)'
    BY <1>1, QuietStays
  <1>5. ClientOK' /\ FetchOK'
    BY <1>1, ClientStays
  <1>6. QED
    BY <1>3, <1>4, <1>5 DEF IInv

\* The rows the office touches are newer than all there was.
LEMMA OfficeRows ==
  ASSUME StatesOK, NEW n \in Nat, n > seq, seq' = n, UNCHANGED <<release, seeder, client>>,
         item' \in [Codes -> ItemRows \cup {Null}],
         label' \in [Codes -> LabelRows \cup {Null}],
         \A c \in Codes : /\ item'[c] = Null <=> item[c] = Null
                          /\ label'[c] = Null <=> label[c] = Null
                          /\ item'[c] = item[c] \/ item'[c].rev \in seq + 1..n
                          /\ label'[c] = label[c] \/ label'[c].rev \in seq + 1..n
  PROVE  StatesOK' /\ \A c \in Codes : Advanced(c)
  <1>0. (StatesOK => \A c \in Codes : EffectiveOK(c))'
    BY EffectiveAre, PTL
  <1>1. seq \in Nat /\ TypeVersion \in Nat /\ TypeVersion <= seq
    BY Newest DEF IsNewest, StatesOK
  <1>2. \A c \in Codes : /\ item'[c] # Null => item'[c].rev <= seq'
                         /\ label'[c] # Null => label'[c].rev <= seq'
                         /\ item'[c] # Null <=> label'[c] # Null
    <2> SUFFICES ASSUME NEW c \in Codes
                 PROVE  /\ item'[c] # Null => item'[c].rev <= seq'
                        /\ label'[c] # Null => label'[c].rev <= seq'
                        /\ item'[c] # Null <=> label'[c] # Null
      OBVIOUS
    <2>1. /\ item[c] # Null => item[c].rev \in Nat /\ item[c].rev <= seq
          /\ label[c] # Null => label[c].rev \in Nat /\ label[c].rev <= seq
          /\ item[c] # Null <=> label[c] # Null
      BY EffectiveIs DEF StatesOK, TypeOK
    <2>2. QED
      BY <1>1, <2>1
  <1>3. StatesOK'
    <2>1. TypeOK'
      BY <1>1, <1>2 DEF StatesOK, TypeOK
    <2>2. QED
      BY <1>2, <2>1 DEF StatesOK
  <1>4. \A c \in Codes : Advanced(c)
    <2> SUFFICES ASSUME NEW c \in Codes PROVE Advanced(c)
      OBVIOUS
    <2>1. item'[c] # Null =>
            /\ item'[c].rev \in Nat /\ label'[c].rev \in Nat /\ Effective(c)' \in Nat
            /\ Effective(c)' >= item'[c].rev /\ Effective(c)' >= label'[c].rev
      BY <1>0, <1>3 DEF EffectiveOK
    <2>2. CASE item'[c] = item[c] /\ label'[c] = label[c]
      BY <2>2 DEF Advanced
    <2>3. CASE item'[c] # item[c]
      <3>1. item'[c] # Null /\ item'[c].rev \in seq + 1..n
        BY <2>3
      <3>2. QED
        BY <1>1, <2>1, <3>1 DEF Advanced
    <2>4. CASE label'[c] # label[c]
      <3>1. label'[c] # Null /\ label'[c].rev \in seq + 1..n
        BY <2>4
      <3>2. item'[c] # Null
        BY <1>2, <3>1
      <3>3. QED
        BY <1>1, <2>1, <3>1, <3>2 DEF Advanced
    <2>5. QED
      BY <2>2, <2>3, <2>4
  <1>5. QED
    BY <1>3, <1>4

LEMMA OfficeInv ==
  ASSUME IInv, Office
  PROVE  IInv'
  <1>1. /\ StatesOK /\ Quiet /\ UNCHANGED <<release, seeder, client, fetch>> /\ seq \in Nat
        /\ item \in [Codes -> ItemRows \cup {Null}]
        /\ label \in [Codes -> LabelRows \cup {Null}]
        /\ \A c \in Codes : item[c] # Null <=> label[c] # Null
    BY DEF IInv, StatesOK, TypeOK, Office
  <1> DEFINE F == {Declared[r][d].facts : r \in Releases, d \in Codes}
  <1>2. ItemRows = [facts : F, active : BOOLEAN, merged : Codes \cup {Null}, rev : Nat \ {0}]
    BY DEF ItemRows
  <1> HIDE DEF F
  <1>3. seq + 1 \in Nat \ {0} /\ seq + 2 \in Nat \ {0}
    BY <1>1
  <1>4. PICK c \in Codes :
          /\ item[c] # Null
          /\ \/ /\ item' = [item EXCEPT ![c].active = FALSE, ![c].rev = Revision]
                /\ seq' = seq + 1
                /\ UNCHANGED label
             \/ \E d \in Codes \ {c} :
                  /\ item[d] # Null
                  /\ item' = [item EXCEPT ![c].active = FALSE, ![c].merged = d,
                                          ![c].rev = seq + 1, ![d].rev = seq + 2]
                  /\ seq' = seq + 2
                  /\ UNCHANGED label
             \/ /\ label' = [label EXCEPT ![c] = [text |-> Corrected, rev |-> Revision]]
                /\ seq' = seq + 1
                /\ UNCHANGED item
    BY DEF Office
  <1>5. item[c] \in ItemRows
    BY <1>1, <1>4
  <1>6. CASE /\ item' = [item EXCEPT ![c].active = FALSE, ![c].rev = Revision]
             /\ seq' = seq + 1
             /\ UNCHANGED label
    <2>1. PICK row : row = [item[c] EXCEPT !.active = FALSE, !.rev = seq + 1]
      OBVIOUS
    <2>2. row \in ItemRows /\ row.rev = seq + 1 /\ row # Null
      <3>1. row \in ItemRows /\ row.rev = seq + 1
        BY <1>2, <1>3, <1>5, <2>1
      <3>2. QED
        BY <3>1, NullAssumption
    <2>3. item' = [item EXCEPT ![c] = row]
      BY <1>1, <1>6, <2>1 DEF Revision
    <2>4. /\ item' \in [Codes -> ItemRows \cup {Null}]
          /\ item'[c] = row /\ \A d \in Codes \ {c} : item'[d] = item[d]
      BY <1>1, <2>2, <2>3
    <2>5. seq + 1 \in Nat /\ seq + 1 > seq /\ seq + 1 \in seq + 1..seq + 1
      BY <1>1
    <2>6. ASSUME NEW e \in Codes
          PROVE  /\ item'[e] = Null <=> item[e] = Null
                 /\ label'[e] = Null <=> label[e] = Null
                 /\ item'[e] = item[e] \/ item'[e].rev \in seq + 1..seq + 1
                 /\ label'[e] = label[e] \/ label'[e].rev \in seq + 1..seq + 1
      <3>1. CASE e # c
        BY <1>6, <2>4, <3>1
      <3>2. CASE e = c
        BY <1>4, <1>6, <2>2, <2>4, <2>5, <3>2
      <3>3. QED
        BY <3>1, <3>2
    <2>7. StatesOK' /\ \A e \in Codes : Advanced(e)
      BY <1>1, <1>6, <2>4, <2>5, <2>6, OfficeRows
    <2>8. QED
      BY <1>1, <2>7, QuietStays, ClientAdvances DEF IInv
  <1>7. CASE \E d \in Codes \ {c} :
               /\ item[d] # Null
               /\ item' = [item EXCEPT ![c].active = FALSE, ![c].merged = d,
                                       ![c].rev = seq + 1, ![d].rev = seq + 2]
               /\ seq' = seq + 2
               /\ UNCHANGED label
    <2>1. PICK d \in Codes \ {c} :
            /\ item[d] # Null
            /\ item' = [item EXCEPT ![c].active = FALSE, ![c].merged = d,
                                    ![c].rev = seq + 1, ![d].rev = seq + 2]
            /\ seq' = seq + 2
            /\ UNCHANGED label
      BY <1>7
    <2>2. PICK row : row = [item[c] EXCEPT !.active = FALSE, !.merged = d, !.rev = seq + 1]
      OBVIOUS
    <2>3. PICK into : into = [item[d] EXCEPT !.rev = seq + 2]
      OBVIOUS
    <2>4. row \in ItemRows /\ row.rev = seq + 1
      BY <1>2, <1>3, <1>5, <2>2
    <2>5. into \in ItemRows /\ into.rev = seq + 2
      <3>1. item[d] \in ItemRows
        BY <1>1, <2>1
      <3>2. QED
        BY <1>2, <1>3, <2>3, <3>1
    <2>6. row # Null /\ into # Null
      BY <2>4, <2>5, NullAssumption
    <2>7. item' = [item EXCEPT ![c] = row, ![d] = into]
      BY <1>1, <2>1, <2>2, <2>3
    <2>8. /\ item' \in [Codes -> ItemRows \cup {Null}]
          /\ item'[c] = row /\ item'[d] = into
          /\ \A e \in Codes \ {c, d} : item'[e] = item[e]
      BY <1>1, <2>4, <2>5, <2>7
    <2>9. /\ seq + 2 \in Nat /\ seq + 2 > seq
          /\ seq + 1 \in seq + 1..seq + 2 /\ seq + 2 \in seq + 1..seq + 2
      BY <1>1
    <2>10. ASSUME NEW e \in Codes
           PROVE  /\ item'[e] = Null <=> item[e] = Null
                  /\ label'[e] = Null <=> label[e] = Null
                  /\ item'[e] = item[e] \/ item'[e].rev \in seq + 1..seq + 2
                  /\ label'[e] = label[e] \/ label'[e].rev \in seq + 1..seq + 2
      <3>1. CASE e \notin {c, d}
        BY <2>1, <2>8, <3>1
      <3>2. CASE e = c
        BY <1>4, <2>1, <2>4, <2>6, <2>8, <2>9, <3>2
      <3>3. CASE e = d
        BY <2>1, <2>5, <2>6, <2>8, <2>9, <3>3
      <3>4. QED
        BY <3>1, <3>2, <3>3
    <2>11. StatesOK' /\ \A e \in Codes : Advanced(e)
      BY <1>1, <2>1, <2>8, <2>9, <2>10, OfficeRows
    <2>12. QED
      BY <1>1, <2>11, QuietStays, ClientAdvances DEF IInv
  <1>8. CASE /\ label' = [label EXCEPT ![c] = [text |-> Corrected, rev |-> Revision]]
             /\ seq' = seq + 1
             /\ UNCHANGED item
    <2>1. PICK row : row = [text |-> Corrected, rev |-> seq + 1]
      OBVIOUS
    <2>2. row \in LabelRows /\ row.rev = seq + 1 /\ row # Null
      <3>1. row \in LabelRows /\ row.rev = seq + 1
        BY <1>3, <2>1 DEF LabelRows, Texts
      <3>2. QED
        BY <3>1, NullAssumption
    <2>3. label' = [label EXCEPT ![c] = row]
      BY <1>8, <2>1 DEF Revision
    <2>4. /\ label' \in [Codes -> LabelRows \cup {Null}]
          /\ label'[c] = row /\ \A d \in Codes \ {c} : label'[d] = label[d]
      BY <1>1, <2>2, <2>3
    <2>5. StatesOK' /\ \A d \in Codes : Advanced(d)
      BY <1>1, <1>3, <1>4, <1>8, <2>2, <2>4, OfficeRows
    <2>6. QED
      BY <1>1, <2>5, QuietStays, ClientAdvances DEF IInv
  <1>9. QED
    BY <1>4, <1>6, <1>7, <1>8

--------------------------------------------------------------------------------
(* The client *)

\* What an answer makes of a client's copy is as current as the answer.
LEMMA AnswerIsCurrent ==
  ASSUME StatesOK, ClientOK, NEW version, NEW answer,
         answer.rows = [c \in Changed(client.version) |-> Content(c)]
  PROVE  Current(Absorb(answer).cache, version)
  <1> DEFINE cache == [c \in Codes |-> IF c \in DOMAIN answer.rows THEN answer.rows[c]
                                       ELSE client.cache[c]]
  <1>1. Absorb(answer).cache = cache
    BY DEF Absorb
  <1>2. \A c \in Codes : IF item[c] = Null THEN cache[c] = [kind |-> "absent"]
                         ELSE cache[c] = Content(c)
    <2> SUFFICES ASSUME NEW c \in Codes
                 PROVE  IF item[c] = Null THEN cache[c] = [kind |-> "absent"]
                        ELSE cache[c] = Content(c)
      OBVIOUS
    <2>1. cache[c] = IF c \in Changed(client.version) THEN Content(c) ELSE client.cache[c]
      OBVIOUS
    <2>2. CASE item[c] = Null
      BY <2>1, <2>2 DEF Changed, ClientOK, Current
    <2>3. CASE item[c] # Null
      <3>1. label[c] # Null /\ Effective(c) \in Nat /\ client.version \in Nat
        BY <2>3, EffectiveIs DEF ClientOK
      <3>2. CASE Effective(c) > client.version
        BY <2>1, <2>3, <3>1, <3>2 DEF Changed
      <3>3. CASE Effective(c) <= client.version
        BY <2>1, <2>3, <3>1, <3>3 DEF Changed, ClientOK, Current
      <3>4. QED
        BY <3>1, <3>2, <3>3
    <2>4. QED
      BY <2>2, <2>3
  <1> HIDE DEF cache
  <1>3. QED
    BY <1>1, <1>2 DEF Current

\* A step of the client leaves the tables and the seeders as they are.
LEMMA ClientStep ==
  ASSUME IInv, UNCHANGED unread, ClientOK', FetchOK'
  PROVE  IInv'
  <1>1. StatesOK /\ (\A s \in Seeders : PendingOK(s) /\ WalkOK(s))
        /\ UNCHANGED <<item, label, seq, release, seeder>>
    BY DEF IInv, unread
  <1>2. TypeVersion' = TypeVersion /\ TypeVersion \in Nat /\ TypeVersion <= seq
    BY <1>1, TablesStay, Newest DEF IsNewest
  <1>3. client'.version \in 0..seq
    BY <1>1, <1>2 DEF ClientOK, StatesOK
  <1>4. StatesOK'
    BY <1>1, <1>3 DEF StatesOK, TypeOK
  <1>5. settled' <=> settled
    BY <1>1 DEF settled, Facts, Text
  <1>6. ASSUME NEW s \in Seeders PROVE PendingOK(s)' /\ WalkOK(s)'
    <2>1. PendingOK(s)'
      BY <1>1, <1>2, <1>5 DEF PendingOK, ItemFree, LabelFree, Facts, Text
    <2>2. \A c : /\ SeesFacts(s, c)' <=> SeesFacts(s, c)
                 /\ SeesText(s, c)' <=> SeesText(s, c)
                 /\ SeesActive(s, c)' <=> SeesActive(s, c)
                 /\ ItemSeen(s, c)' = ItemSeen(s, c)
      BY <1>1, SeesSame
    <2>3. /\ Place(s)' = Place(s) /\ Behind(s)' = Behind(s)
          /\ NeedsActivation(s)' <=> NeedsActivation(s)
          /\ Running(s)' <=> Running(s)
      BY <1>1 DEF Place, Behind, NeedsActivation, Running
    <2>4. WalkOK(s)'
      BY <1>1, <1>5, <2>2, <2>3 DEF WalkOK
    <2>5. QED
      BY <2>1, <2>4
  <1>7. QED
    BY <1>4, <1>6 DEF IInv

LEMMA CopyStays ==
  ASSUME IInv, UNCHANGED unread, UNCHANGED client
  PROVE  ClientOK'
  <1>1. UNCHANGED <<item, label>> /\ ClientOK
    BY DEF unread, IInv
  <1>2. QED
    BY <1>1, TablesStay DEF ClientOK, Current

LEMMA AskTagInv ==
  ASSUME IInv, AskTag
  PROVE  IInv'
  <1>1. /\ UNCHANGED unread /\ UNCHANGED client /\ StatesOK
        /\ fetch' = [pc |-> "tagged", tag |-> TypeVersion]
    BY DEF AskTag, IInv
  <1>2. TypeVersion' = TypeVersion /\ TypeVersion \in Nat
    BY <1>1, TablesStay, Newest DEF IsNewest, unread
  <1>3. fetch'.pc = "tagged" /\ fetch'.tag = TypeVersion
    BY <1>1
  <1>4. FetchOK'
    BY <1>2, <1>3 DEF FetchOK
  <1>5. QED
    BY <1>1, <1>4, CopyStays, ClientStep

LEMMA ReadVersionInv ==
  ASSUME IInv, ReadVersion
  PROVE  IInv'
  <1>1. /\ UNCHANGED unread /\ UNCHANGED client /\ StatesOK /\ FetchOK
        /\ fetch.pc = "tagged"
        /\ fetch' = [pc |-> "versioned", tag |-> fetch.tag, version |-> TypeVersion]
    BY DEF ReadVersion, IInv
  <1>2. TypeVersion' = TypeVersion /\ TypeVersion \in Nat
    BY <1>1, TablesStay, Newest DEF IsNewest, unread
  <1>3. /\ fetch'.pc = "versioned" /\ fetch'.tag = fetch.tag
        /\ fetch'.version = TypeVersion
    BY <1>1
  <1>4. FetchOK'
    BY <1>1, <1>2, <1>3 DEF FetchOK
  <1>5. QED
    BY <1>1, <1>4, CopyStays, ClientStep

LEMMA ReadRowsInv ==
  ASSUME IInv, ReadRows
  PROVE  IInv'
  <1>1. /\ UNCHANGED unread /\ UNCHANGED client /\ StatesOK /\ FetchOK /\ ClientOK
        /\ UNCHANGED <<item, label>> /\ fetch.pc = "versioned"
    BY DEF ReadRows, IInv, unread
  <1>2. PICK answer : answer = [pc |-> "answered", tag |-> fetch.tag, version |-> fetch.version,
                                rows |-> [c \in Changed(client.version) |-> Content(c)]]
    OBVIOUS
  <1>3. /\ fetch' = answer
        /\ answer.pc = "answered" /\ answer.tag = fetch.tag /\ answer.version = fetch.version
        /\ answer.rows = [c \in Changed(client.version) |-> Content(c)]
    BY <1>2 DEF ReadRows
  <1>4. TypeVersion' = TypeVersion
    BY <1>1, TablesStay
  <1>5. PICK cache, v : cache = Absorb(answer).cache /\ v = fetch.version
    OBVIOUS
  <1>6. Current(cache, v)
    BY <1>1, <1>3, <1>5, AnswerIsCurrent
  <1>7. \A c \in Codes : IF item'[c] = Null THEN cache[c] = [kind |-> "absent"]
                         ELSE Effective(c)' <= v => cache[c] = Content(c)'
    BY <1>1, <1>6, CurrentStays
  <1>8. (Absorb(fetch).cache)' = cache /\ fetch'.version = v
    BY <1>1, <1>3, <1>5 DEF Absorb
  <1>9. Current(Absorb(fetch).cache, fetch.version)'
    BY <1>7, <1>8 DEF Current
  <1>10. FetchOK'
    BY <1>1, <1>3, <1>4, <1>9 DEF FetchOK
  <1>11. QED
    BY <1>1, <1>10, CopyStays, ClientStep

LEMMA DeliverInv ==
  ASSUME IInv, Deliver
  PROVE  IInv'
  <1>1. /\ UNCHANGED unread /\ UNCHANGED <<item, label>> /\ FetchOK
        /\ fetch.pc = "answered" /\ client' = Absorb(fetch) /\ fetch' = NoFetch
    BY DEF Deliver, IInv, unread
  <1>2. TypeVersion' = TypeVersion
    BY <1>1, TablesStay
  <1>3. PICK copy : copy = Absorb(fetch)
    OBVIOUS
  <1>4. copy.version = fetch.version /\ copy.tag = fetch.tag
    BY <1>3 DEF Absorb
  <1>5. Current(copy.cache, copy.version)
    BY <1>1, <1>3, <1>4 DEF FetchOK
  <1>6. \A c \in Codes : IF item'[c] = Null THEN copy.cache[c] = [kind |-> "absent"]
                         ELSE Effective(c)' <= copy.version => copy.cache[c] = Content(c)'
    BY <1>1, <1>5, CurrentStays
  <1>7. client' = copy
    BY <1>1, <1>3
  <1>8. Current(client.cache, client.version)'
    BY <1>6, <1>7 DEF Current
  <1>9. ClientOK'
    BY <1>1, <1>2, <1>4, <1>7, <1>8 DEF ClientOK, FetchOK
  <1>10. FetchOK'
    BY <1>1 DEF FetchOK, NoFetch
  <1>11. QED
    BY <1>1, <1>9, <1>10, ClientStep

LEMMA LoseInv ==
  ASSUME IInv, Lose
  PROVE  IInv'
  <1>1. UNCHANGED unread /\ UNCHANGED client /\ fetch' = NoFetch
    BY DEF Lose
  <1>2. FetchOK'
    BY <1>1 DEF FetchOK, NoFetch
  <1>3. QED
    BY <1>1, <1>2, CopyStays, ClientStep

--------------------------------------------------------------------------------
(* The invariant and what it says *)

LEMMA InitStates == Init => StatesOK
  <1> SUFFICES ASSUME Init PROVE StatesOK
    OBVIOUS
  <1>1. /\ release \in Releases
        /\ client.version = 0
        /\ seeder = [s \in Seeders |-> Idle]
    BY ItemsAre DEF Init
  <1>2. \A c \in Codes : Facts(c) \in {Declared[r][d].facts : r \in Releases, d \in Codes}
                         /\ Text(c) \in Texts
    BY <1>1 DEF Facts, Text, Texts
  <1>3. seeder \in [Seeders -> SeederStates]
    BY <1>1, IdleIs
  <1>4. CASE item = Nothing /\ label = Nothing /\ seq = 0
    <2>1. /\ item \in [Codes -> ItemRows \cup {Null}] /\ label \in [Codes -> LabelRows \cup {Null}]
          /\ \A c \in Codes : item[c] = Null /\ label[c] = Null
      BY <1>4 DEF Nothing
    <2>2. QED
      BY <1>1, <1>3, <1>4, <2>1 DEF StatesOK, TypeOK
  <1>5. CASE /\ item = [c \in Codes |-> [facts |-> Facts(c), active |-> TRUE, merged |-> Null,
                                         rev |-> 3 * CHOOSE k \in DOMAIN Items : Items[k] = c]]
             /\ label = [c \in Codes |-> [text |-> Text(c), rev |-> item[c].rev - 1]]
             /\ seq = 3 * Len(Items)
    <2>1. ASSUME NEW c \in Codes
          PROVE  /\ item[c] \in ItemRows /\ label[c] \in LabelRows
                 /\ item[c].rev <= seq /\ label[c].rev <= seq
      <3>1. PICK k : k = CHOOSE j \in DOMAIN Items : Items[j] = c
        OBVIOUS
      <3>2. k \in 1..Len(Items) /\ Len(Items) \in Nat
        BY <3>1, ItemsAre DEF Codes
      <3>3. /\ item[c] = [facts |-> Facts(c), active |-> TRUE, merged |-> Null, rev |-> 3 * k]
            /\ label[c] = [text |-> Text(c), rev |-> item[c].rev - 1]
        BY <1>5, <3>1
      <3>4. 3 * k \in Nat \ {0} /\ 3 * k - 1 \in Nat \ {0} /\ 3 * k <= seq
        BY <1>5, <3>2
      <3>5. item[c].rev = 3 * k /\ label[c].rev = 3 * k - 1
        BY <3>3
      <3>6. item[c] \in ItemRows
        BY <1>2, <3>3, <3>4 DEF ItemRows
      <3>7. label[c] \in LabelRows
        BY <1>2, <3>3, <3>4 DEF LabelRows
      <3>8. seq \in Nat
        BY <1>5, <3>2
      <3>9. QED
        BY <3>4, <3>5, <3>6, <3>7, <3>8
    <2>2. \A c \in Codes : item[c] # Null /\ label[c] # Null
      BY <2>1, NullAssumption
    <2>3. /\ item \in [Codes -> ItemRows \cup {Null}] /\ label \in [Codes -> LabelRows \cup {Null}]
      BY <1>5, <2>1
    <2>4. seq \in Nat
      BY <1>5, ItemsAre
    <2>5. QED
      BY <1>1, <1>3, <2>1, <2>2, <2>3, <2>4 DEF StatesOK, TypeOK
  <1>6. QED
    BY <1>4, <1>5 DEF Init, Tables

LEMMA InitIInv == Init => IInv
  <1> SUFFICES ASSUME Init PROVE IInv
    OBVIOUS
  <1>1. StatesOK
    BY InitStates
  <1>2. \A s \in Seeders : /\ seeder[s] = Idle
                           /\ \A c \in Codes : Idle.item[c] = Null /\ Idle.label[c] = Null
    BY IdleIs DEF Init, Nothing
  <1>3. \A s \in Seeders : PendingOK(s) /\ WalkOK(s)
    BY <1>2, IdleIs DEF PendingOK, WalkOK, Running
  <1>4. TypeVersion \in Nat
    BY <1>1, Newest DEF IsNewest
  <1>5. PICK cache : cache = [c \in Codes |-> [kind |-> "absent"]]
    OBVIOUS
  <1>6. client.cache = cache /\ client.version = 0 /\ client.tag = Null
    BY <1>5 DEF Init
  <1>7. \A c \in Codes : item[c] # Null => Effective(c) \in Nat \ {0}
    <2> SUFFICES ASSUME NEW c \in Codes, item[c] # Null PROVE Effective(c) \in Nat \ {0}
      OBVIOUS
    <2>1. item[c] \in ItemRows /\ Effective(c) \in Nat /\ Effective(c) >= item[c].rev
      BY <1>1, EffectiveIs
    <2>2. item[c].rev \in Nat \ {0}
      BY <2>1 DEF ItemRows
    <2>3. QED
      BY <2>1, <2>2
  <1>8. \A c \in Codes : ~(item[c] # Null /\ Effective(c) <= 0)
    BY <1>7
  <1>9. Current(cache, 0)
    BY <1>5, <1>8 DEF Current
  <1>10. ClientOK
    BY <1>4, <1>6, <1>9 DEF ClientOK
  <1>11. FetchOK
    BY DEF FetchOK, Init, NoFetch
  <1>12. QED
    BY <1>1, <1>3, <1>10, <1>11 DEF IInv

LEMMA NextIInv == IInv /\ [Next]_vars => IInv'
  <1> SUFFICES ASSUME IInv, [Next]_vars PROVE IInv'
    OBVIOUS
  <1>1. CASE Fetching
    BY <1>1, AskTagInv, ReadVersionInv, ReadRowsInv, DeliverInv DEF Fetching
  <1>2. CASE Lose
    BY <1>2, LoseInv
  <1>3. ASSUME NEW s \in Seeders, Start(s) \/ Seeding(s) \/ Crash(s) PROVE IInv'
    BY <1>3, StartInv, ReadItemInv, InsertItemInv, UpdateItemInv, ReadLabelsInv,
       WriteLabelsInv, ActivateInv, CommitInv, CrashInv DEF Seeding
  <1>4. CASE NewRelease
    BY <1>4, NewReleaseInv
  <1>5. CASE Office
    BY <1>5, OfficeInv
  <1>6. CASE UNCHANGED vars
    <2>1. UNCHANGED unread /\ UNCHANGED client /\ UNCHANGED fetch
      BY <1>6 DEF vars, unread
    <2>2. ClientOK' /\ FetchOK'
      BY <2>1, ClientStays DEF IInv, unread
    <2>3. QED
      BY <2>1, <2>2, ClientStep
  <1>7. QED
    BY <1>1, <1>2, <1>3, <1>4, <1>5, <1>6 DEF Next

THEOREM Invariance == Spec => []IInv
  <1>1. QED
    BY InitIInv, NextIInv, PTL DEF Spec

\* No delta skips a change, whatever seeders run and however they overlap: what a
\* client's version covers is in its copy; a tag that the server would compute again
\* vouches for the whole copy; and a copy under such a tag offers exactly the items a
\* write may store (DictionariesService.delta, DictionariesController.byType).
THEOREM CopiesAlwaysHold == Spec => []CopiesHold
  <1>1. IInv => CopiesHold
    <2> SUFFICES ASSUME IInv PROVE CopiesHold
      OBVIOUS
    <2>1. StatesOK /\ ClientOK /\ IsNewest(TypeVersion) /\ TypeOK
      BY Newest DEF IInv, StatesOK
    <2>2. NothingMissed
      BY <2>1 DEF NothingMissed, ClientOK, Current
    <2>3. TagMeansCurrent
      <3> SUFFICES ASSUME client.tag = TypeVersion, NEW c \in Codes
                   PROVE  client.cache[c] = Content(c)
        BY DEF TagMeansCurrent
      <3>1. TypeVersion \in Nat /\ client.tag # Null
        BY <2>1, NullAssumption DEF IsNewest
      <3>2. client.version = TypeVersion
        BY <2>1, <3>1 DEF ClientOK
      <3>3. CASE item[c] = Null
        BY <2>1, <3>3 DEF ClientOK, Current, Content
      <3>4. CASE item[c] # Null
        BY <2>1, <3>2, <3>4 DEF ClientOK, Current, IsNewest
      <3>5. QED
        BY <3>3, <3>4
    <2>4. OffersAreUsable
      <3> SUFFICES ASSUME client.tag = TypeVersion, NEW c \in Codes
                   PROVE  client.cache[c].kind = "offered" <=> Usable(c)
        BY DEF OffersAreUsable
      <3>1. client.cache[c] = Content(c)
        BY <2>3 DEF TagMeansCurrent
      <3>2. item[c] # Null <=> label[c] # Null
        BY <2>1 DEF StatesOK
      <3>3. Content(c).kind = "offered" <=> Usable(c)
        BY <3>2 DEF Content, Usable
      <3>4. QED
        BY <3>1, <3>3
    <2>5. QED
      BY <2>1, <2>2, <2>3, <2>4 DEF CopiesHold
  <1>2. QED
    BY <1>1, Invariance, PTL

LEMMA StepSettles ==
  ASSUME IInv, [Next]_vars
  PROVE  \A s \in Seeders : ~(seeder[s].pc = "commit" /\ seeder'[s].pc = "done") \/ settled'
  <1> SUFFICES ASSUME NEW s \in Seeders, seeder[s].pc = "commit", seeder'[s].pc = "done"
               PROVE  settled'
    OBVIOUS
  <1>1. StatesOK /\ seeder \in [Seeders -> SeederStates]
    BY DEF IInv, StatesOK
  <1>2. seeder' # seeder
    OBVIOUS
  <1>3. PICK t \in Seeders : Start(t) \/ Seeding(t) \/ Crash(t)
    BY <1>2 DEF Next, vars, Fetching, AskTag, ReadVersion, ReadRows, Deliver, Lose, unread,
                NewRelease, Office
  <1>4. CASE t # s
    <2>1. seeder'[s] = seeder[s]
      BY <1>1, <1>3, <1>4 DEF Start, Seeding, Crash, ReadItem, InsertItem, UpdateItem,
         ReadLabels, WriteLabels, Activate, Commit, WriteItem
    <2>2. QED
      BY <2>1
  <1>5. CASE t = s
    <2>1. Commit(s)
      <3>1. Running(s)
        BY DEF Running
      <3>2. ~Crash(s)
        <4>1. Crash(s) => seeder'[s] = Idle
          BY <1>1 DEF Crash
        <4>2. QED
          BY <4>1, IdleIs
      <3>3. QED
        BY <1>3, <1>5, <3>1, <3>2 DEF Start, Seeding, ReadItem, InsertItem, UpdateItem,
           ReadLabels, WriteLabels, Activate
    <2>2. QED
      BY <2>1, CommitSettles
  <1>6. QED
    BY <1>4, <1>5

\* A seed that commits leaves every item as its release declares it, and active, even
\* if it overlapped others and wrote over rows it had read too early; and a seed that
\* starts on such tables writes no row ("a second run writes nothing at all").
THEOREM SeedsAlwaysSettle == Spec => SeedsSettle
  <1>1. IInv => SecondSeedWritesNothing
    BY DEF IInv, WalkOK, SecondSeedWritesNothing
  <1>2. IInv /\ [Next]_vars =>
          [\A s \in Seeders : ~(seeder[s].pc = "commit" /\ seeder'[s].pc = "done") \/ settled']_vars
    BY StepSettles
  <1>3. QED
    BY <1>1, <1>2, Invariance, PTL DEF Spec, SeedsSettle, SeedCompletes

================================================================================
