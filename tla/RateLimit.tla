------------------------------- MODULE RateLimit --------------------------------
(***************************************************************************)
(* RateLimitGuard over RateLimitService: fixed windows counted in          *)
(* PostgreSQL, one upsert per rule (section 12.5).                         *)
(*                                                                         *)
(* now() is the time the statement starts; it may wait for the counter's   *)
(* row while a later one rolls the window over.                            *)
(***************************************************************************)
EXTENDS Naturals, Sequences

CONSTANTS
  Subjects,     \* a bucket with a phone or an address
  Limit,        \* Subjects -> how many a window lets through
  Routes,       \* the rules a request meets: sequences of Subjects
  Window,       \* RATE_LIMIT_WINDOW_SECONDS
  Txns,         \* requests in flight at once
  MaxClock,     \* bound: the last time a behaviour reaches
  MaxRequests,  \* bound: requests that arrive in one behaviour
  Null

VARIABLES
  counter,   \* rate_limit_counters: subject -> window_start and hits
  passed,    \* subject, window -> the requests it let through
  clock,
  rules,     \* the rules a request has still to meet
  now,       \* the time its statement started, Null between statements
  arrived

vars == <<counter, passed, clock, rules, now, arrived>>

Windows == {w \in 0..MaxClock : w % Window = 0}

--------------------------------------------------------------------------------

WindowOf(time) == (time \div Window) * Window

Arrive(t, route) ==
  /\ rules[t] = <<>>
  /\ arrived < MaxRequests
  /\ arrived' = arrived + 1
  /\ rules' = [rules EXCEPT ![t] = route]
  /\ UNCHANGED <<counter, passed, clock, now>>

Start(t) ==
  /\ rules[t] # <<>> /\ now[t] = Null
  /\ now' = [now EXCEPT ![t] = clock]
  /\ UNCHANGED <<counter, passed, clock, rules, arrived>>

\* Mutant: any other window starts the count again.
UpsertAnyOther(row, w) ==
  IF row.window # w THEN [window |-> w, hits |-> 1] ELSE [row EXCEPT !.hits = @ + 1]

\* INSERT ... ON CONFLICT DO UPDATE; a row never written counts as an old one.
Upsert(row, w) ==
  IF row.window < w THEN [window |-> w, hits |-> 1] ELSE [row EXCEPT !.hits = @ + 1]

\* A denial ends the request and leaves the remaining counters alone.
Consume(t) ==
  LET s   == Head(rules[t])
      row == Upsert(counter[s], WindowOf(now[t]))
  IN /\ now[t] # Null
     /\ counter' = [counter EXCEPT ![s] = row]
     /\ now' = [now EXCEPT ![t] = Null]
     /\ \/ /\ row.hits <= Limit[s]
           /\ rules' = [rules EXCEPT ![t] = Tail(@)]
           /\ passed' = [passed EXCEPT ![s][row.window] = @ + 1]
        \/ /\ row.hits > Limit[s]
           /\ rules' = [rules EXCEPT ![t] = <<>>]
           /\ UNCHANGED passed
     /\ UNCHANGED <<clock, arrived>>

Init ==
  /\ counter = [s \in Subjects |-> [window |-> 0, hits |-> 0]]
  /\ passed  = [s \in Subjects |-> [w \in Windows |-> 0]]
  /\ rules   = [t \in Txns |-> <<>>]
  /\ now     = [t \in Txns |-> Null]

Next ==
  \E t \in Txns : Start(t) \/ Consume(t) \/ \E route \in Routes : Arrive(t, route)

--------------------------------------------------------------------------------
(* Properties *)

\* Counters and requests stay within their ranges.
TypeOK ==
  /\ counter \in [Subjects -> [window : Nat, hits : Nat]]
  /\ passed \in [Subjects -> [Windows -> Nat]]
  /\ rules \in [Txns -> Seq(Subjects)]
  /\ now \in [Txns -> Nat \cup {Null}]

\* The counter covers what its window has let through; nothing is ahead of it.
CounterCovers ==
  \A s \in Subjects, w \in Windows :
    /\ w = counter[s].window => passed[s][w] <= counter[s].hits
    /\ w > counter[s].window => passed[s][w] = 0

\* No window lets more requests of a subject through than its limit, also when
\* requests of the window before are late.
LimitHolds == \A s \in Subjects, w \in Windows : passed[s][w] <= Limit[s]

\* A statement under way is that of a rule the request has still to meet.
StatementsOK == \A t \in Txns : now[t] # Null => rules[t] # <<>>

\* Inductive.
IInv == TypeOK /\ StatementsOK /\ CounterCovers /\ LimitHolds

================================================================================
