------------------------------ MODULE SignInProofs ------------------------------
(***************************************************************************)
(* Proofs about SignIn for every number of phones, codes, accounts,        *)
(* counters and requests: each component's inductive invariant, then the   *)
(* three beside each other.  Then about Sessions, what signing in opens,   *)
(* for every number of accounts, sessions and concurrent requests: one     *)
(* writer per row is what keeps a family a chain with one live end.        *)
(***************************************************************************)
EXTENDS SignIn, Sessions, FiniteSetTheorems, TLAPS

--------------------------------------------------------------------------------
(* RateLimit *)

LEMMA RateInit == Rate!Init => Rate!IInv
  <1> SUFFICES ASSUME Rate!Init PROVE Rate!IInv
    OBVIOUS
  <1> USE DEF Rate!Init
  <1>1. Rate!TypeOK /\ Rate!StatementsOK
    BY DEF Rate!TypeOK, Rate!StatementsOK
  <1>2. Rate!CounterCovers
    BY DEF Rate!CounterCovers
  <1>3. Rate!LimitHolds
    BY NumbersAssumption DEF Rate!LimitHolds
  <1>4. QED
    BY <1>1, <1>2, <1>3 DEF Rate!IInv

LEMMA WindowOfType ==
  ASSUME NEW time \in Nat
  PROVE  Rate!WindowOf(time) \in Nat
  <1>1. time \div Window \in Nat
    BY NumbersAssumption
  <1>2. \A a, b \in Nat : a * b \in Nat
    OBVIOUS
  <1>3. QED
    BY <1>1, <1>2, NumbersAssumption DEF Rate!WindowOf

\* The upsert of one rule: a later window starts its count with this request, any other
\* request counts in the window that the row has by then.
\* What one more request does to the figures of a window w of the subject: the row
\* has window v and n hits, and the new one window x and m hits.
LEMMA WindowsAdvance ==
  ASSUME NEW v \in Nat, NEW n \in Nat, NEW x \in Nat, NEW m \in Nat, NEW limit \in Nat,
         NEW w \in Nat, NEW k \in Nat, NEW k2,
         (x = v /\ m = n + 1) \/ (x > v /\ m = 1),
         w = v => k <= n,  w > v => k = 0,  k <= limit,
         k2 = k \/ (m <= limit /\ w = x /\ k2 = k + 1)
  PROVE  /\ k2 \in Nat /\ k2 <= limit
         /\ w = x => k2 <= m
         /\ w > x => k2 = 0
  OBVIOUS

\* The upsert of one rule: a later window starts its count with this request, any other
\* request counts in the window that the row has by then.
LEMMA ConsumeInv ==
  ASSUME Rate!IInv, NEW t \in Txns, Rate!Consume(t)
  PROVE  Rate!IInv'
  <1> DEFINE s   == Head(rules[t])
             old == counter[s]
             row == Rate!Upsert(counter[s], Rate!WindowOf(now[t]))
  <1>0. rules[t] # <<>> /\ rules[t] \in Seq(Subjects)
    BY DEF Rate!Consume, Rate!IInv, Rate!TypeOK, Rate!StatementsOK
  <1>1. s \in Subjects /\ Tail(rules[t]) \in Seq(Subjects) /\ <<>> \in Seq(Subjects)
    BY <1>0
  <1>2. now[t] \in Nat /\ Rate!WindowOf(now[t]) \in Nat
    BY WindowOfType DEF Rate!Consume, Rate!IInv, Rate!TypeOK
  <1>3. /\ old \in [window : Nat, hits : Nat] /\ Limit[s] \in Nat
        /\ old.window \in Nat /\ old.hits \in Nat
    BY <1>1, NumbersAssumption DEF Rate!IInv, Rate!TypeOK
  <1>4. /\ row \in [window : Nat, hits : Nat] /\ row.window \in Nat /\ row.hits \in Nat
        /\ \/ row.window = old.window /\ row.hits = old.hits + 1
           \/ row.window > old.window /\ row.hits = 1
    BY <1>2, <1>3 DEF Rate!Upsert
  <1>5. /\ counter' = [counter EXCEPT ![s] = row]
        /\ \/ /\ row.hits <= Limit[s]
              /\ rules' = [rules EXCEPT ![t] = Tail(rules[t])]
              /\ passed' = [passed EXCEPT ![s][row.window] = @ + 1]
           \/ rules' = [rules EXCEPT ![t] = <<>>] /\ passed' = passed
        /\ now' = [now EXCEPT ![t] = Null]
    BY DEF Rate!Consume
  <1>6. \A w \in Rate!Windows :
        /\ passed[s][w] \in Nat /\ w \in Nat
        /\ w = old.window => passed[s][w] <= old.hits
        /\ w > old.window => passed[s][w] = 0
        /\ passed[s][w] <= Limit[s]
    <2>1. ASSUME NEW w \in Rate!Windows PROVE passed[s][w] \in Nat /\ w \in Nat
      <3>1. passed[s] \in [Rate!Windows -> Nat] /\ passed[s][w] \in Nat
        BY <1>1 DEF Rate!IInv, Rate!TypeOK
      <3>2. w \in Nat
        BY DEF Rate!Windows
      <3>3. QED
        BY <3>1, <3>2
    <2>2. QED
      BY <1>1, <2>1 DEF Rate!IInv, Rate!CounterCovers, Rate!LimitHolds
  <1> HIDE DEF row, old, s
  <1>7. ASSUME NEW w \in Rate!Windows
        PROVE  /\ passed'[s][w] \in Nat /\ passed'[s][w] <= Limit[s]
               /\ w = row.window => passed'[s][w] <= row.hits
               /\ w > row.window => passed'[s][w] = 0
    <2>1. \/ passed'[s][w] = passed[s][w]
          \/ row.hits <= Limit[s] /\ w = row.window /\ passed'[s][w] = passed[s][w] + 1
      <3>1. passed \in [Subjects -> [Rate!Windows -> Nat]]
        BY DEF Rate!IInv, Rate!TypeOK
      <3>2. CASE passed' = passed
        BY <3>2
      <3>3. CASE /\ row.hits <= Limit[s]
                 /\ passed' = [passed EXCEPT ![s][row.window] = @ + 1]
        <4>1. passed'[s] = [passed[s] EXCEPT ![row.window] = @ + 1]
          BY <1>1, <3>1, <3>3
        <4>2. passed[s] \in [Rate!Windows -> Nat]
          BY <1>1, <3>1
        <4>3. passed'[s][w] = IF w = row.window THEN passed[s][w] + 1 ELSE passed[s][w]
          BY <4>1, <4>2
        <4>4. QED
          BY <3>3, <4>3
      <3>4. QED
        BY <1>5, <3>2, <3>3
    <2>2. /\ passed[s][w] \in Nat /\ w \in Nat
          /\ w = old.window => passed[s][w] <= old.hits
          /\ w > old.window => passed[s][w] = 0
          /\ passed[s][w] <= Limit[s]
      BY <1>6
    <2>3. QED
      BY <1>3, <1>4, <2>1, <2>2, WindowsAdvance
  <1>8. /\ \A r \in Subjects : r # s => counter'[r] = counter[r] /\ passed'[r] = passed[r]
        /\ counter'[s] = row
    BY <1>1, <1>5 DEF Rate!IInv, Rate!TypeOK
  <1>9. Rate!TypeOK'
    <2>1. counter' \in [Subjects -> [window : Nat, hits : Nat]]
      BY <1>4, <1>5 DEF Rate!IInv, Rate!TypeOK
    <2>2. rules' \in [Txns -> Seq(Subjects)]
      <3>1. PICK rest \in Seq(Subjects) : rules' = [rules EXCEPT ![t] = rest]
        BY <1>1, <1>5
      <3>2. QED
        BY <3>1 DEF Rate!IInv, Rate!TypeOK
    <2>3. now' \in [Txns -> Nat \cup {Null}]
      BY <1>5 DEF Rate!IInv, Rate!TypeOK
    <2>4. passed' \in [Subjects -> [Rate!Windows -> Nat]]
      BY <1>5, <1>7 DEF Rate!IInv, Rate!TypeOK
    <2>5. QED
      BY <2>1, <2>2, <2>3, <2>4 DEF Rate!TypeOK
  <1>10. Rate!StatementsOK'
    BY <1>5 DEF Rate!IInv, Rate!TypeOK, Rate!StatementsOK
  <1>11. Rate!CounterCovers'
    BY <1>7, <1>8 DEF Rate!IInv, Rate!CounterCovers
  <1>12. Rate!LimitHolds'
    BY <1>7, <1>8 DEF Rate!IInv, Rate!LimitHolds
  <1>13. QED
    BY <1>9, <1>10, <1>11, <1>12 DEF Rate!IInv

LEMMA RateNext ==
  ASSUME Rate!IInv, Rate!Next, clock \in Nat
  PROVE  Rate!IInv'
  <1> USE DEF Rate!IInv, Rate!TypeOK, Rate!StatementsOK, Rate!CounterCovers, Rate!LimitHolds
  <1>1. ASSUME NEW t \in Txns, Rate!Start(t) PROVE Rate!IInv'
    BY <1>1 DEF Rate!Start
  <1>2. ASSUME NEW t \in Txns, NEW route \in Routes, Rate!Arrive(t, route) PROVE Rate!IInv'
    <2>1. route \in Seq(Subjects)
      BY NumbersAssumption
    <2>2. QED
      BY <1>2, <2>1 DEF Rate!Arrive
  <1> HIDE DEF Rate!IInv
  <1>3. QED
    BY <1>1, <1>2, ConsumeInv DEF Rate!Next

LEMMA RateUnchanged ==
  ASSUME Rate!IInv, UNCHANGED counters
  PROVE  Rate!IInv'
  BY DEF Rate!IInv, Rate!TypeOK, Rate!StatementsOK, Rate!CounterCovers, Rate!LimitHolds,
         counters

--------------------------------------------------------------------------------
(* Otp *)

LEMMA OtpInit == Otp!Init => Otp!IInv
  <1> SUFFICES ASSUME Otp!Init PROVE Otp!IInv
    OBVIOUS
  <1> USE DEF Otp!Init, Otp!NoRow, Otp!NoRequest, Otp!Exists
  <1>1. Otp!TypeOK
    BY DEF Otp!TypeOK, Otp!Row, Otp!Request
  <1>2. ASSUME NEW t \in Txns PROVE Otp!RequestOK(t)
    BY DEF Otp!RequestOK
  <1>3. Otp!LocksOK /\ Otp!RowsOK
    BY DEF Otp!LocksOK, Otp!RowsOK
  <1>4. Otp!GuessesCounted
    BY NumbersAssumption DEF Otp!GuessesCounted
  <1>5. Otp!OneLiveCode
    BY DEF Otp!OneLiveCode, Otp!LiveOf, Otp!Live
  <1>6. QED
    BY <1>1, <1>2, <1>3, <1>4, <1>5 DEF Otp!IInv

LEMMA OtpUnchanged ==
  ASSUME Otp!IInv, UNCHANGED codes, clock' \in Nat
  PROVE  Otp!IInv'
  <1>1. Otp!TypeOK' /\ Otp!LocksOK' /\ Otp!RowsOK' /\ Otp!GuessesCounted'
    BY DEF codes, Otp!IInv, Otp!TypeOK, Otp!LocksOK, Otp!RowsOK, Otp!GuessesCounted, Otp!Exists
  <1>2. Otp!OneLiveCode'
    BY DEF codes, Otp!IInv, Otp!OneLiveCode, Otp!LiveOf, Otp!Live, Otp!Exists
  <1>3. ASSUME NEW t \in Txns PROVE Otp!RequestOK(t)'
    BY DEF codes, Otp!IInv, Otp!RequestOK, Otp!Conflicts, Otp!LiveOf, Otp!Live, Otp!Exists
  <1>4. QED
    BY <1>1, <1>2, <1>3 DEF Otp!IInv

\* A statement that writes nothing moves one request; what the others carry stays
\* true, and what is left to show is about the request that moves.
LEMMA OtpRequestMoves ==
  ASSUME Otp!IInv, NEW t \in Txns, UNCHANGED <<code, wrong, opened>>,
         \A u \in Txns : u # t => otpPc'[u] = otpPc[u] /\ otpReq'[u] = otpReq[u],
         Otp!TypeOK', Otp!RequestOK(t)',
         \A u \in Txns : u # t =>
           /\ ~(otpReq'[t].held /\ otpReq[u].held /\ otpReq'[t].target = otpReq[u].target)
           /\ ~(/\ otpPc'[t] = "commitSend" /\ otpPc[u] = "commitSend"
                /\ otpReq'[t].key = otpReq[u].key)
           /\ otpReq'[t].fresh # Null => otpReq[u].fresh # otpReq'[t].fresh
  PROVE  Otp!IInv'
  <1>1. Otp!RowsOK' /\ Otp!GuessesCounted'
    BY DEF Otp!IInv, Otp!RowsOK, Otp!GuessesCounted, Otp!Exists
  <1>2. Otp!OneLiveCode'
    BY DEF Otp!IInv, Otp!OneLiveCode, Otp!LiveOf, Otp!Live, Otp!Exists
  <1>3. ASSUME NEW u \in Txns, u # t PROVE Otp!RequestOK(u)'
    BY <1>3 DEF Otp!IInv, Otp!RequestOK, Otp!Conflicts, Otp!LiveOf, Otp!Live, Otp!Exists
  <1>4. Otp!LocksOK'
    BY DEF Otp!IInv, Otp!LocksOK
  <1>5. QED
    BY <1>1, <1>2, <1>3, <1>4 DEF Otp!IInv

\* A commit ends a request.  It writes the row it has inserted and the row it holds,
\* so that what the others hold, or are about to insert, stays as they have seen it.
LEMMA OtpCommits ==
  ASSUME Otp!IInv, NEW t \in Txns, otpPc[t] # "idle",
         otpPc' = [otpPc EXCEPT ![t] = "idle"],
         otpReq' = [otpReq EXCEPT ![t] = Otp!NoRequest],
         Otp!TypeOK', Otp!RowsOK', Otp!OneLiveCode', Otp!GuessesCounted',
         \A c \in Codes : c # otpReq[t].fresh =>
           /\ code'[c].key = code[c].key
           /\ code[c].consumed => code'[c].consumed
           /\ ~(otpReq[t].held /\ otpReq[t].target = c) => code'[c] = code[c],
         otpReq[t].fresh # Null => code'[otpReq[t].fresh].key = otpReq[t].key
  PROVE  Otp!IInv'
  <1>1. otpPc'[t] = "idle" /\ otpReq'[t] = Otp!NoRequest
    BY DEF Otp!IInv, Otp!TypeOK
  <1>2. \A u \in Txns : u # t => otpPc'[u] = otpPc[u] /\ otpReq'[u] = otpReq[u]
    BY DEF Otp!IInv, Otp!TypeOK
  <1>3. Otp!RequestOK(t)'
    BY <1>1 DEF Otp!RequestOK, Otp!NoRequest
  <1>4. Otp!LocksOK'
    BY <1>1, <1>2 DEF Otp!IInv, Otp!LocksOK, Otp!NoRequest
  <1>5. ASSUME NEW u \in Txns, u # t PROVE Otp!RequestOK(u)'
    <2> DEFINE r == otpReq[u]
    <2>1. Otp!RequestOK(u) /\ Otp!RequestOK(t) /\ otpReq'[u] = r /\ otpPc'[u] = otpPc[u]
      BY <1>2, <1>5 DEF Otp!IInv
    <2>2. r.target # Null => r.target \in Codes /\ otpPc[u] # "idle" /\ r.key \in Dialled
      BY <2>1 DEF Otp!IInv, Otp!TypeOK, Otp!Request, Otp!RequestOK, Otp!NoRequest
    <2>3. r.target # Null => r.target # otpReq[t].fresh
      <3>1. otpReq[t].fresh # Null => code[otpReq[t].fresh].key = Null
        BY <2>1 DEF Otp!RequestOK, Otp!Exists
      <3>2. QED
        BY <2>1, <2>2, <3>1, NullAssumption, DialledAssumption DEF Otp!RequestOK
    <2>4. r.target # Null => code'[r.target].key = r.key
      BY <2>1, <2>2, <2>3 DEF Otp!RequestOK
    <2>5. r.held => r.target # Null /\ code'[r.target] = code[r.target]
      BY <1>5, <2>1, <2>2, <2>3 DEF Otp!IInv, Otp!LocksOK, Otp!RequestOK
    <2>6. otpPc[u] = "commitSend" =>
            /\ r.fresh \in Codes /\ code'[r.fresh] = code[r.fresh]
            /\ r.key \in Dialled
      <3>1. otpPc[u] = "commitSend" =>
              /\ r.fresh \in Codes /\ r.fresh # Null /\ r.key \in Dialled
              /\ code[r.fresh].key = Null /\ r.fresh # otpReq[t].fresh
        BY <1>5, <2>1 DEF Otp!IInv, Otp!TypeOK, Otp!Request, Otp!LocksOK, Otp!RequestOK,
                          Otp!Exists
      <3>2. otpReq[t].held => code[otpReq[t].target].key # Null
        BY <2>1 DEF Otp!RequestOK, Otp!Live, Otp!Exists
      <3>3. QED
        BY <3>1, <3>2
    <2>7. otpPc[u] = "commitSend" => Otp!LiveOf(r.key)' \subseteq Otp!LiveOf(r.key)
      <3>1. otpPc[u] = "commitSend" /\ otpPc[t] = "commitSend" => r.key # otpReq[t].key
        BY <1>5 DEF Otp!IInv, Otp!LocksOK
      <3>2. otpReq[t].fresh # Null => otpPc[t] = "commitSend"
        BY <2>1 DEF Otp!RequestOK
      <3>3. ASSUME otpPc[u] = "commitSend", NEW c \in Otp!LiveOf(r.key)'
            PROVE  c \in Otp!LiveOf(r.key)
        <4>1. c \in Codes /\ code'[c].key = r.key /\ code'[c].key # Null /\ ~code'[c].consumed
          BY <2>1, <3>3 DEF Otp!LiveOf, Otp!Live, Otp!Exists
        <4>2. c # otpReq[t].fresh
          BY <3>1, <3>2, <3>3, <4>1, NullAssumption
        <4>3. QED
          BY <4>1, <4>2 DEF Otp!LiveOf, Otp!Live, Otp!Exists
      <3>4. QED
        BY <3>3
    <2>8. otpPc[u] = "commitSend" => Otp!Conflicts(u)' = {}
      BY <2>1, <2>7 DEF Otp!Conflicts, Otp!RequestOK
    <2>9. QED
      BY <2>1, <2>4, <2>5, <2>6, <2>8 DEF Otp!RequestOK, Otp!Live, Otp!Exists
  <1>6. QED
    BY <1>3, <1>4, <1>5 DEF Otp!IInv

\* What Found answers: a member, or Null when there is none.
LEMMA FoundIs ==
  ASSUME NEW rows
  PROVE  IF rows = {} THEN Otp!Found(rows) = Null ELSE Otp!Found(rows) \in rows
  BY DEF Otp!Found

\* A request begins and finds at most a row of its key.
LEMMA OtpArrives ==
  ASSUME Otp!IInv, NEW t \in Txns, NEW p \in {"supersede", "lock"}, NEW r \in Otp!Request,
         r.key \in Dialled, ~r.held, r.fresh = Null,
         p = "lock" => r.target # Null,  r.target # Null => code[r.target].key = r.key,
         Otp!Arrive(t, p, r)
  PROVE  Otp!IInv'
  <1>1. /\ otpPc' = [otpPc EXCEPT ![t] = p] /\ otpReq' = [otpReq EXCEPT ![t] = r]
        /\ UNCHANGED <<code, wrong, opened, clock>>
    BY DEF Otp!Arrive, Otp!table
  <1>2. Otp!TypeOK'
    BY <1>1 DEF Otp!IInv, Otp!TypeOK
  <1>3. /\ otpPc'[t] = p /\ otpReq'[t] = r
        /\ \A u \in Txns : u # t => otpPc'[u] = otpPc[u] /\ otpReq'[u] = otpReq[u]
    BY <1>1 DEF Otp!IInv, Otp!TypeOK
  <1>4. Otp!RequestOK(t)'
    BY <1>1, <1>3 DEF Otp!RequestOK
  <1>5. QED
    BY <1>1, <1>2, <1>3, <1>4, OtpRequestMoves

LEMMA OtpBeginSend ==
  ASSUME Otp!IInv, NEW t \in Txns, NEW k \in Dialled, Otp!BeginSend(t, k)
  PROVE  Otp!IInv'
  <1> DEFINE r == [Otp!NoRequest EXCEPT !.key = k, !.now = clock]
  <1>1. /\ r \in Otp!Request
        /\ r.key = k /\ r.held = FALSE /\ r.fresh = Null /\ r.target = Null
    BY DEF Otp!NoRequest, Otp!Request, Otp!IInv, Otp!TypeOK
  <1>2. Otp!Arrive(t, "supersede", r)
    BY DEF Otp!BeginSend
  <1> HIDE DEF r
  <1>3. QED
    BY <1>1, <1>2, OtpArrives

LEMMA OtpBeginVerify ==
  ASSUME Otp!IInv, NEW t \in Txns, NEW k \in Dialled, NEW g \in Secrets,
         Otp!BeginVerify(t, k, g)
  PROVE  Otp!IInv'
  <1> DEFINE found == {c \in Otp!LiveOf(k) : code[c].expires > clock}
  <1>1. PICK c : c = Otp!Found(found)
    OBVIOUS
  <1> DEFINE r == [Otp!NoRequest EXCEPT !.key = k, !.guess = g, !.now = clock, !.target = c]
  <1>2. c \in found
    BY <1>1, FoundIs DEF Otp!BeginVerify
  <1>3. c \in Codes /\ code[c].key = k /\ c # Null
    BY <1>2, NullAssumption DEF Otp!LiveOf
  <1>4. /\ r \in Otp!Request
        /\ r.key = k /\ r.held = FALSE /\ r.fresh = Null /\ r.target = c
    BY <1>3 DEF Otp!NoRequest, Otp!Request, Otp!IInv, Otp!TypeOK
  <1>5. Otp!Arrive(t, "lock", r)
    BY <1>1 DEF Otp!BeginVerify
  <1> HIDE DEF r
  <1>6. QED
    BY <1>3, <1>4, <1>5, OtpArrives

LEMMA OtpSupersede ==
  ASSUME Otp!IInv, NEW t \in Txns, Otp!Supersede(t)
  PROVE  Otp!IInv'
  <1>1. PICK c : c = Otp!Found(Otp!LiveOf(otpReq[t].key))
    OBVIOUS
  <1>2. c = Null \/ (c \in Codes /\ code[c].key = otpReq[t].key)
    BY <1>1, FoundIs DEF Otp!LiveOf
  <1>3. /\ otpPc[t] = "supersede" /\ otpPc' = [otpPc EXCEPT ![t] = "take"]
        /\ otpReq' = [otpReq EXCEPT ![t].target = c]
        /\ UNCHANGED <<code, wrong, opened, clock>>
    BY <1>1 DEF Otp!Supersede, Otp!Goto, Otp!table
  <1>4. Otp!RequestOK(t) /\ otpReq[t] \in Otp!Request
    BY DEF Otp!IInv, Otp!TypeOK
  <1>5. /\ otpPc'[t] = "take" /\ otpReq'[t] = [otpReq[t] EXCEPT !.target = c]
        /\ \A u \in Txns : u # t => otpPc'[u] = otpPc[u] /\ otpReq'[u] = otpReq[u]
    BY <1>3 DEF Otp!IInv, Otp!TypeOK
  <1>6. [otpReq[t] EXCEPT !.target = c] \in Otp!Request
    BY <1>2, <1>4 DEF Otp!Request
  <1>7. Otp!TypeOK'
    BY <1>3, <1>6 DEF Otp!IInv, Otp!TypeOK
  <1>8. otpReq'[t].held = FALSE /\ otpReq'[t].fresh = Null
    BY <1>3, <1>4, <1>5 DEF Otp!RequestOK, Otp!Request
  <1>9. Otp!RequestOK(t)'
    BY <1>2, <1>3, <1>4, <1>5, <1>8 DEF Otp!RequestOK, Otp!Request
  <1>10. QED
    BY <1>3, <1>5, <1>7, <1>8, <1>9, OtpRequestMoves

LEMMA OtpTakeSuperseded ==
  ASSUME Otp!IInv, NEW t \in Txns, Otp!TakeSuperseded(t)
  PROVE  Otp!IInv'
  <1>1. PICK c : c = otpReq[t].target
    OBVIOUS
  <1>2. PICK h \in BOOLEAN : h = (c # Null /\ Otp!Live(c))
    OBVIOUS
  <1>3. /\ otpPc[t] = "take" /\ otpPc' = [otpPc EXCEPT ![t] = "insert"]
        /\ otpReq' = [otpReq EXCEPT ![t].held = h]
        /\ c # Null => Otp!Holders(c) = {}
        /\ UNCHANGED <<code, wrong, opened, clock>>
    BY <1>1, <1>2 DEF Otp!TakeSuperseded, Otp!Goto, Otp!table
  <1>4. Otp!RequestOK(t) /\ otpReq[t] \in Otp!Request
    BY DEF Otp!IInv, Otp!TypeOK
  <1>5. /\ otpPc'[t] = "insert" /\ otpReq'[t] = [otpReq[t] EXCEPT !.held = h]
        /\ \A u \in Txns : u # t => otpPc'[u] = otpPc[u] /\ otpReq'[u] = otpReq[u]
    BY <1>3 DEF Otp!IInv, Otp!TypeOK
  <1>6. [otpReq[t] EXCEPT !.held = h] \in Otp!Request
    BY <1>4 DEF Otp!Request
  <1>7. Otp!TypeOK'
    BY <1>3, <1>6 DEF Otp!IInv, Otp!TypeOK
  <1>8. otpReq'[t].held = h /\ otpReq'[t].fresh = Null /\ otpReq'[t].target = c
    BY <1>1, <1>3, <1>4, <1>5 DEF Otp!RequestOK, Otp!Request
  <1>9. Otp!RequestOK(t)'
    BY <1>1, <1>2, <1>3, <1>4, <1>5, <1>8
       DEF Otp!RequestOK, Otp!Request, Otp!Live, Otp!Exists
  <1>10. \A u \in Txns : ~(h /\ otpReq[u].held /\ c = otpReq[u].target)
    BY <1>2, <1>3 DEF Otp!Holders
  <1>11. QED
    BY <1>3, <1>5, <1>7, <1>8, <1>9, <1>10, OtpRequestMoves

LEMMA OtpRefuses ==
  ASSUME Otp!IInv, NEW t \in Txns, Otp!Refuse(t)
  PROVE  Otp!IInv'
  <1>1. /\ otpPc' = [otpPc EXCEPT ![t] = "idle"]
        /\ otpReq' = [otpReq EXCEPT ![t] = Otp!NoRequest]
        /\ UNCHANGED <<code, wrong, opened, clock>>
    BY DEF Otp!Refuse, Otp!Finish, Otp!Goto, Otp!table
  <1>2. Otp!TypeOK'
    BY <1>1 DEF Otp!IInv, Otp!TypeOK, Otp!NoRequest, Otp!Request
  <1>3. /\ otpPc'[t] = "idle" /\ otpReq'[t] = Otp!NoRequest
        /\ \A u \in Txns : u # t => otpPc'[u] = otpPc[u] /\ otpReq'[u] = otpReq[u]
    BY <1>1 DEF Otp!IInv, Otp!TypeOK
  <1>4. Otp!RequestOK(t)'
    BY <1>3 DEF Otp!RequestOK, Otp!NoRequest
  <1>5. ~otpReq'[t].held /\ otpReq'[t].fresh = Null
    BY <1>3 DEF Otp!NoRequest
  <1>6. QED
    BY <1>1, <1>2, <1>3, <1>4, <1>5, OtpRequestMoves

\* The insert is let through when no other has the key pending and no live row but the
\* one the request consumes has it.
LEMMA OtpInsert ==
  ASSUME Otp!IInv, NEW t \in Txns, Otp!Insert(t)
  PROVE  Otp!IInv'
  <1>1. CASE Otp!Refuse(t)
    BY <1>1, OtpRefuses
  <1>2. ASSUME NEW c \in Codes, Otp!Conflicts(t) = {}, ~Otp!Exists(c),
               \A u \in Txns : otpReq[u].fresh # c,
               otpReq' = [otpReq EXCEPT ![t].fresh = c],
               Otp!Goto(t, "commitSend"), UNCHANGED Otp!table
        PROVE  Otp!IInv'
    <2>1. /\ otpPc[t] = "insert" /\ otpPc' = [otpPc EXCEPT ![t] = "commitSend"]
          /\ Otp!Pending(otpReq[t].key) = {}
          /\ UNCHANGED <<code, wrong, opened, clock>>
      BY <1>2 DEF Otp!Insert, Otp!Goto, Otp!table
    <2>2. Otp!RequestOK(t) /\ otpReq[t] \in Otp!Request /\ c # Null
      BY NullAssumption DEF Otp!IInv, Otp!TypeOK
    <2>3. /\ otpPc'[t] = "commitSend" /\ otpReq'[t] = [otpReq[t] EXCEPT !.fresh = c]
          /\ \A u \in Txns : u # t => otpPc'[u] = otpPc[u] /\ otpReq'[u] = otpReq[u]
      BY <1>2, <2>1 DEF Otp!IInv, Otp!TypeOK
    <2>4. [otpReq[t] EXCEPT !.fresh = c] \in Otp!Request
      BY <2>2 DEF Otp!Request
    <2>5. Otp!TypeOK'
      BY <1>2, <2>1, <2>4 DEF Otp!IInv, Otp!TypeOK
    <2>6. /\ otpReq'[t].fresh = c /\ otpReq'[t].held = otpReq[t].held
          /\ otpReq'[t].target = otpReq[t].target /\ otpReq'[t].key = otpReq[t].key
          /\ otpReq'[t].read = otpReq[t].read
      BY <2>2, <2>3 DEF Otp!Request
    <2>7. Otp!Conflicts(t)' = Otp!Conflicts(t)
      BY <2>1, <2>6 DEF Otp!Conflicts, Otp!LiveOf, Otp!Live, Otp!Exists
    <2>8. Otp!RequestOK(t)'
      BY <1>2, <2>1, <2>2, <2>3, <2>6, <2>7 DEF Otp!RequestOK, Otp!Live, Otp!Exists
    <2>9. \A u \in Txns : ~(otpPc[u] = "commitSend" /\ otpReq[u].key = otpReq[t].key)
      BY <2>1 DEF Otp!Pending
    <2>10. \A u \in Txns : u # t =>
             ~(otpReq[t].held /\ otpReq[u].held /\ otpReq[t].target = otpReq[u].target)
      BY DEF Otp!IInv, Otp!LocksOK
    <2>11. QED
      BY <1>2, <2>1, <2>3, <2>5, <2>6, <2>8, <2>9, <2>10, OtpRequestMoves
  <1>3. QED
    BY <1>1, <1>2 DEF Otp!Insert

LEMMA OtpLockCode ==
  ASSUME Otp!IInv, NEW t \in Txns, Otp!LockCode(t)
  PROVE  Otp!IInv'
  <1>1. CASE Otp!Refuse(t)
    BY <1>1, OtpRefuses
  <1>2. CASE ~Otp!Refuse(t)
    <2>1. PICK c, n : c = otpReq[t].target /\ n = code[c].attempts
      OBVIOUS
    <2>2. /\ otpPc[t] = "lock" /\ otpPc' = [otpPc EXCEPT ![t] = "commitVerify"]
          /\ otpReq' = [otpReq EXCEPT ![t].held = TRUE, ![t].read = n]
          /\ Otp!Holders(c) = {} /\ Otp!Live(c)
          /\ UNCHANGED <<code, wrong, opened, clock>>
      BY <1>2, <2>1 DEF Otp!LockCode, Otp!Goto, Otp!table
    <2>3. Otp!RequestOK(t) /\ otpReq[t] \in Otp!Request
      BY DEF Otp!IInv, Otp!TypeOK
    <2>4. c \in Codes /\ c # Null /\ n \in Nat
      BY <2>1, <2>2, <2>3 DEF Otp!RequestOK, Otp!Request, Otp!IInv, Otp!TypeOK, Otp!Row
    <2>5. /\ otpPc'[t] = "commitVerify"
          /\ otpReq'[t] = [otpReq[t] EXCEPT !.held = TRUE, !.read = n]
          /\ \A u \in Txns : u # t => otpPc'[u] = otpPc[u] /\ otpReq'[u] = otpReq[u]
      BY <2>2 DEF Otp!IInv, Otp!TypeOK
    <2>6. /\ otpReq'[t] \in Otp!Request
          /\ otpReq'[t].held = TRUE /\ otpReq'[t].read = n /\ otpReq'[t].target = c
          /\ otpReq'[t].key = otpReq[t].key /\ otpReq'[t].fresh = otpReq[t].fresh
      BY <2>1, <2>3, <2>4, <2>5 DEF Otp!Request
    <2>7. Otp!TypeOK'
      BY <2>2, <2>5, <2>6 DEF Otp!IInv, Otp!TypeOK
    <2>8. Otp!RequestOK(t)'
      BY <2>1, <2>2, <2>3, <2>4, <2>5, <2>6 DEF Otp!RequestOK, Otp!Live, Otp!Exists
    <2>9. \A u \in Txns : ~(otpReq[u].held /\ c = otpReq[u].target)
      BY <2>2 DEF Otp!Holders
    <2>10. otpReq'[t].fresh = Null
      BY <2>2, <2>3, <2>6 DEF Otp!RequestOK
    <2>11. QED
      BY <2>2, <2>5, <2>6, <2>7, <2>8, <2>9, <2>10, OtpRequestMoves
  <1>3. QED
    BY <1>1, <1>2

\* The new code is the only live one of its phone: what was live when the index let it
\* in is what the same transaction consumes.
LEMMA OtpCommitSend ==
  ASSUME Otp!IInv, NEW t \in Txns, NEW secret \in Secrets, Otp!CommitSend(t, secret)
  PROVE  Otp!IInv'
  <1>1. PICK r : r = otpReq[t]
    OBVIOUS
  <1>2. /\ otpPc[t] = "commitSend"
        /\ code' = [c \in Codes |->
             IF c = r.fresh THEN Otp!Issued(r, secret)
             ELSE IF r.held /\ c = r.target THEN Otp!Consumed(code[c]) ELSE code[c]]
        /\ otpPc' = [otpPc EXCEPT ![t] = "idle"]
        /\ otpReq' = [otpReq EXCEPT ![t] = Otp!NoRequest]
        /\ UNCHANGED <<wrong, opened, clock>>
    BY <1>1 DEF Otp!CommitSend, Otp!Finish, Otp!Goto
  <1>3. /\ Otp!RequestOK(t) /\ r \in Otp!Request
        /\ r.key \in Dialled /\ r.fresh \in Codes /\ r.fresh # Null
        /\ ~Otp!Exists(r.fresh) /\ Otp!Conflicts(t) = {}
    BY <1>1, <1>2 DEF Otp!IInv, Otp!TypeOK, Otp!RequestOK, Otp!Request
  <1>4. /\ Otp!Issued(r, secret) \in Otp!Row
        /\ Otp!Issued(r, secret).key = r.key /\ Otp!Issued(r, secret).attempts = 0
    BY <1>3, NumbersAssumption DEF Otp!Issued, Otp!Row, Otp!Request
  <1>5. ASSUME NEW c \in Codes
        PROVE  /\ Otp!Consumed(code[c]) \in Otp!Row
               /\ Otp!Consumed(code[c]).key = code[c].key
               /\ Otp!Consumed(code[c]).attempts = code[c].attempts
               /\ Otp!Consumed(code[c]).consumed = TRUE
    <2>1. code[c] \in Otp!Row
      BY DEF Otp!IInv, Otp!TypeOK
    <2>2. QED
      BY <2>1 DEF Otp!Consumed, Otp!Row
  <1>6. \A c \in Codes :
          /\ c = r.fresh => code'[c] = Otp!Issued(r, secret)
          /\ c # r.fresh /\ r.held /\ c = r.target => code'[c] = Otp!Consumed(code[c])
          /\ c # r.fresh /\ ~(r.held /\ c = r.target) => code'[c] = code[c]
    BY <1>2
  <1>7. code' \in [Codes -> Otp!Row]
    <2>1. \A c \in Codes : code[c] \in Otp!Row
      BY DEF Otp!IInv, Otp!TypeOK
    <2>2. QED
      BY <1>2, <1>4, <1>5, <2>1
  <1>8. Otp!TypeOK'
    <2>1. Otp!NoRequest \in Otp!Request
      BY DEF Otp!NoRequest, Otp!Request
    <2>2. QED
      BY <1>2, <1>7, <2>1 DEF Otp!IInv, Otp!TypeOK
  <1>9. \A c \in Codes : c # r.fresh =>
          /\ code'[c].key = code[c].key /\ code'[c].attempts = code[c].attempts
          /\ code[c].consumed => code'[c].consumed
          /\ ~(r.held /\ r.target = c) => code'[c] = code[c]
    BY <1>5, <1>6
  <1>10. r.held => Otp!Exists(r.target)
    BY <1>1, <1>3 DEF Otp!RequestOK, Otp!Live
  <1>11. Otp!RowsOK'
    <2> SUFFICES ASSUME NEW c \in Codes
                 PROVE  /\ code'[c].key = Null => code'[c] = Otp!NoRow /\ opened'[c] = 0
                        /\ opened'[c] = 0 \/ (opened'[c] = 1 /\ code'[c].consumed)
      BY DEF Otp!RowsOK, Otp!Exists
    <2>1. CASE c = r.fresh
      <3>1. code'[c].key # Null
        BY <1>3, <1>4, <1>6, <2>1, NullAssumption, DialledAssumption
      <3>2. opened[c] = 0
        BY <1>3, <2>1 DEF Otp!IInv, Otp!RowsOK
      <3>3. QED
        BY <1>2, <3>1, <3>2
    <2>2. CASE c # r.fresh
      BY <1>2, <1>9, <1>10, <2>2 DEF Otp!IInv, Otp!RowsOK, Otp!Exists
    <2>3. QED
      BY <2>1, <2>2
  <1>12. Otp!GuessesCounted'
    <2>1. wrong[r.fresh] = 0
      <3>1. code[r.fresh] = Otp!NoRow
        BY <1>3 DEF Otp!IInv, Otp!RowsOK
      <3>2. QED
        BY <1>3, <3>1 DEF Otp!IInv, Otp!GuessesCounted, Otp!NoRow
    <2>2. QED
      BY <1>2, <1>4, <1>6, <1>9, <2>1 DEF Otp!IInv, Otp!GuessesCounted
  <1>13. ASSUME NEW k \in Dialled, NEW c \in Otp!LiveOf(k)', c # r.fresh
         PROVE  c \in Otp!LiveOf(k) /\ k # r.key
    <2>1. /\ c \in Codes /\ code'[c].key = k /\ code'[c].key # Null /\ ~code'[c].consumed
      BY DEF Otp!LiveOf, Otp!Live, Otp!Exists
    <2>2. c \in Otp!LiveOf(k)
      BY <1>9, <1>13, <2>1 DEF Otp!LiveOf, Otp!Live, Otp!Exists
    <2>3. ~(r.held /\ c = r.target)
      BY <1>5, <1>6, <1>13, <2>1
    <2>4. k # r.key
      BY <1>1, <1>3, <2>2, <2>3 DEF Otp!Conflicts
    <2>5. QED
      BY <2>2, <2>4
  <1>14. ASSUME NEW k \in Dialled, NEW c \in Otp!LiveOf(k)', NEW d \in Otp!LiveOf(k)'
         PROVE  c = d
    <2>1. r.fresh \in {c, d} => k = r.key
      BY <1>4, <1>6 DEF Otp!LiveOf
    <2>2. QED
      BY <1>13, <2>1 DEF Otp!IInv, Otp!OneLiveCode
  <1>15. code'[r.fresh].key = r.key
    BY <1>3, <1>4, <1>6
  <1>16. Otp!OneLiveCode'
    BY <1>14 DEF Otp!OneLiveCode
  <1>17. \A c \in Codes : c # otpReq[t].fresh =>
          /\ code'[c].key = code[c].key
          /\ code[c].consumed => code'[c].consumed
          /\ ~(otpReq[t].held /\ otpReq[t].target = c) => code'[c] = code[c]
    BY <1>1, <1>9
  <1>18. code'[otpReq[t].fresh].key = otpReq[t].key /\ otpPc[t] # "idle"
    BY <1>1, <1>2, <1>15
  <1>19. QED
    BY <1>2, <1>8, <1>11, <1>12, <1>16, <1>17, <1>18, OtpCommits

\* What a verification reads is what is there when it commits, as it holds the row.
LEMMA CommitVerifyWrites ==
  ASSUME Otp!IInv, NEW t \in Txns, Otp!CommitVerify(t)
  PROVE  \E c, row :
           /\ c = otpReq[t].target /\ row = code'[c]
           /\ c \in Codes /\ code[c].key # Null /\ code[c].consumed = FALSE /\ opened[c] = 0
           /\ code' = [code EXCEPT ![c] = row] /\ row \in Otp!Row
           /\ row.key = code[c].key
           /\ \/ /\ wrong[c] < MaxAttempts
                 /\ row.attempts = wrong[c] + 1 /\ row.consumed = FALSE
                 /\ wrong' = [wrong EXCEPT ![c] = wrong[c] + 1] /\ opened' = opened
              \/ /\ wrong[c] < MaxAttempts
                 /\ row.attempts = wrong[c] /\ row.consumed = TRUE
                 /\ wrong' = wrong /\ opened' = [opened EXCEPT ![c] = 1]
              \/ /\ row.attempts = wrong[c] /\ row.consumed = TRUE
                 /\ wrong' = wrong /\ opened' = opened
  <1>1. PICK r, c, row : r = otpReq[t] /\ c = r.target /\ row = code'[c]
    OBVIOUS
  <1> SUFFICES
        /\ c = otpReq[t].target /\ row = code'[c]
        /\ c \in Codes /\ code[c].key # Null /\ code[c].consumed = FALSE /\ opened[c] = 0
        /\ code' = [code EXCEPT ![c] = row] /\ row \in Otp!Row
        /\ row.key = code[c].key
        /\ \/ /\ wrong[c] < MaxAttempts
              /\ row.attempts = wrong[c] + 1 /\ row.consumed = FALSE
              /\ wrong' = [wrong EXCEPT ![c] = wrong[c] + 1] /\ opened' = opened
           \/ /\ wrong[c] < MaxAttempts
              /\ row.attempts = wrong[c] /\ row.consumed = TRUE
              /\ wrong' = wrong /\ opened' = [opened EXCEPT ![c] = 1]
           \/ /\ row.attempts = wrong[c] /\ row.consumed = TRUE
              /\ wrong' = wrong /\ opened' = opened
    BY Zenon
  <1>2. /\ otpPc[t] = "commitVerify"
        /\ code' = [code EXCEPT ![c] = Otp!After(r)]
        /\ wrong' = Otp!Counted(wrong, r, "invalid")
        /\ opened' = Otp!Counted(opened, r, "verified")
    BY <1>1 DEF Otp!CommitVerify
  <1>3. /\ c \in Codes /\ r.held /\ Otp!Live(c) /\ r.read = code[c].attempts
        /\ r.target \in Codes
    BY <1>1, <1>2 DEF Otp!IInv, Otp!TypeOK, Otp!RequestOK, Otp!Request
  <1>4. /\ code[c] \in Otp!Row /\ wrong[c] \in Nat /\ opened[c] \in Nat
        /\ code[c].key # Null /\ code[c].consumed = FALSE /\ r.read = wrong[c]
        /\ opened[c] = 0
    BY <1>3 DEF Otp!IInv, Otp!TypeOK, Otp!Live, Otp!Exists, Otp!GuessesCounted, Otp!RowsOK,
                Otp!Row
  <1>5. /\ [code[c] EXCEPT !.attempts = r.read + 1] \in Otp!Row
        /\ [code[c] EXCEPT !.attempts = r.read + 1].key = code[c].key
        /\ [code[c] EXCEPT !.attempts = r.read + 1].attempts = wrong[c] + 1
        /\ [code[c] EXCEPT !.attempts = r.read + 1].consumed = FALSE
    BY <1>4 DEF Otp!Row
  <1>6. /\ Otp!Consumed(code[c]) \in Otp!Row
        /\ Otp!Consumed(code[c]).key = code[c].key
        /\ Otp!Consumed(code[c]).attempts = wrong[c]
        /\ Otp!Consumed(code[c]).consumed = TRUE
    <2>1. code[c].attempts = wrong[c]
      BY <1>3, <1>4
    <2>2. QED
      BY <1>4, <2>1 DEF Otp!Consumed, Otp!Row
  <1>7. row = Otp!After(r) /\ code' = [code EXCEPT ![c] = row]
    BY <1>1, <1>2, <1>3 DEF Otp!IInv, Otp!TypeOK
  <1>8. /\ \A f, o : Otp!Outcome(r) = o =>
             Otp!Counted(f, r, o) = [f EXCEPT ![c] = f[c] + 1]
        /\ \A f, o : Otp!Outcome(r) # o =>
             Otp!Counted(f, r, o) = [f EXCEPT ![c] = f[c] + 0]
    BY <1>1 DEF Otp!Counted
  <1>9. [wrong EXCEPT ![c] = wrong[c] + 0] = wrong
    <2>1. wrong[c] + 0 = wrong[c]
      BY <1>4
    <2>2. QED
      BY <2>1 DEF Otp!IInv, Otp!TypeOK
  <1>10. /\ [opened EXCEPT ![c] = opened[c] + 0] = opened
         /\ [opened EXCEPT ![c] = opened[c] + 1] = [opened EXCEPT ![c] = 1]
    <2>1. opened[c] + 0 = opened[c] /\ opened[c] + 1 = 1
      BY <1>4
    <2>2. QED
      BY <2>1 DEF Otp!IInv, Otp!TypeOK
  <1>11. CASE Otp!Outcome(r) = "invalid"
    <2>1. wrong[c] < MaxAttempts
      BY <1>1, <1>4, <1>11, NumbersAssumption DEF Otp!Outcome
    <2>2. wrong' = [wrong EXCEPT ![c] = wrong[c] + 1] /\ opened' = opened
      BY <1>2, <1>8, <1>10, <1>11
    <2>3. row = [code[c] EXCEPT !.attempts = r.read + 1]
      BY <1>1, <1>7, <1>11 DEF Otp!After
    <2>4. QED
      BY <1>1, <1>3, <1>4, <1>5, <1>7, <2>1, <2>2, <2>3
  <1>12. CASE Otp!Outcome(r) = "verified"
    <2>1. wrong[c] < MaxAttempts
      BY <1>1, <1>4, <1>12, NumbersAssumption DEF Otp!Outcome
    <2>2. wrong' = wrong /\ opened' = [opened EXCEPT ![c] = 1]
      BY <1>2, <1>8, <1>9, <1>10, <1>12
    <2>3. row = Otp!Consumed(code[c])
      BY <1>1, <1>7, <1>12 DEF Otp!After
    <2>4. QED
      BY <1>1, <1>3, <1>4, <1>6, <1>7, <2>1, <2>2, <2>3
  <1>13. CASE Otp!Outcome(r) = "locked_out"
    <2>1. wrong' = wrong /\ opened' = opened
      BY <1>2, <1>8, <1>9, <1>10, <1>13
    <2>2. row = Otp!Consumed(code[c])
      BY <1>1, <1>7, <1>13 DEF Otp!After
    <2>3. QED
      BY <1>1, <1>3, <1>4, <1>6, <1>7, <2>1, <2>2
  <1>14. QED
    BY <1>11, <1>12, <1>13 DEF Otp!Outcome

LEMMA OtpCommitVerify ==
  ASSUME Otp!IInv, NEW t \in Txns, Otp!CommitVerify(t)
  PROVE  Otp!IInv'
  <1>1. PICK c, row :
        /\ c = otpReq[t].target /\ row = code'[c]
        /\ c \in Codes /\ code[c].key # Null /\ code[c].consumed = FALSE /\ opened[c] = 0
        /\ code' = [code EXCEPT ![c] = row] /\ row \in Otp!Row
        /\ row.key = code[c].key
        /\ \/ /\ wrong[c] < MaxAttempts
              /\ row.attempts = wrong[c] + 1 /\ row.consumed = FALSE
              /\ wrong' = [wrong EXCEPT ![c] = wrong[c] + 1] /\ opened' = opened
           \/ /\ wrong[c] < MaxAttempts
              /\ row.attempts = wrong[c] /\ row.consumed = TRUE
              /\ wrong' = wrong /\ opened' = [opened EXCEPT ![c] = 1]
           \/ /\ row.attempts = wrong[c] /\ row.consumed = TRUE
              /\ wrong' = wrong /\ opened' = opened
    BY CommitVerifyWrites, Zenon
  <1>3. /\ otpPc[t] = "commitVerify" /\ otpPc' = [otpPc EXCEPT ![t] = "idle"]
        /\ otpReq' = [otpReq EXCEPT ![t] = Otp!NoRequest] /\ UNCHANGED clock
    BY DEF Otp!CommitVerify, Otp!Finish, Otp!Goto
  <1>4. otpReq[t].held /\ otpReq[t].fresh = Null
    BY <1>3 DEF Otp!IInv, Otp!RequestOK
  <1>5. /\ code'[c] = row
        /\ \A d \in Codes : d # c => /\ code'[d] = code[d] /\ wrong'[d] = wrong[d]
                                     /\ opened'[d] = opened[d]
    BY <1>1 DEF Otp!IInv, Otp!TypeOK
  <1>6. Otp!TypeOK'
    <2>1. Otp!NoRequest \in Otp!Request
      BY DEF Otp!NoRequest, Otp!Request
    <2>2. code' \in [Codes -> Otp!Row]
      BY <1>1 DEF Otp!IInv, Otp!TypeOK
    <2>3. wrong' \in [Codes -> Nat] /\ opened' \in [Codes -> Nat]
      BY <1>1 DEF Otp!IInv, Otp!TypeOK
    <2>4. QED
      BY <1>3, <2>1, <2>2, <2>3 DEF Otp!IInv, Otp!TypeOK
  <1>7. /\ wrong'[c] = row.attempts /\ wrong'[c] <= MaxAttempts
        /\ opened'[c] = 0 \/ (opened'[c] = 1 /\ row.consumed)
    <2>1. wrong[c] \in Nat /\ wrong[c] <= MaxAttempts /\ MaxAttempts \in Nat
      BY <1>1, NumbersAssumption DEF Otp!IInv, Otp!TypeOK, Otp!GuessesCounted
    <2>2. QED
      BY <1>1, <2>1 DEF Otp!IInv, Otp!TypeOK
  <1>8. Otp!RowsOK'
    BY <1>1, <1>5, <1>7 DEF Otp!IInv, Otp!RowsOK, Otp!Exists
  <1>9. Otp!GuessesCounted'
    BY <1>1, <1>5, <1>7 DEF Otp!IInv, Otp!GuessesCounted
  <1>10. \A k \in Dialled : Otp!LiveOf(k)' \subseteq Otp!LiveOf(k)
    BY <1>1, <1>5 DEF Otp!LiveOf, Otp!Live, Otp!Exists
  <1>11. \A d \in Codes : /\ code'[d].key = code[d].key
                          /\ code[d].consumed => code'[d].consumed
                          /\ d # c => code'[d] = code[d]
    BY <1>1, <1>5
  <1>12. Otp!OneLiveCode'
    BY <1>10 DEF Otp!IInv, Otp!OneLiveCode
  <1>13. QED
    BY <1>1, <1>3, <1>4, <1>6, <1>8, <1>9, <1>11, <1>12, OtpCommits

\* One step of the sends and verifications.
LEMMA OtpNext ==
  ASSUME Otp!IInv, NEW t \in Txns, Otp!Sending(t) \/ Otp!Verifying(t) \/ Otp!Rollback(t)
  PROVE  Otp!IInv'
  BY OtpBeginSend, OtpSupersede, OtpTakeSuperseded, OtpInsert, OtpCommitSend,
     OtpBeginVerify, OtpLockCode, OtpCommitVerify, OtpRefuses
     DEF Otp!Sending, Otp!Verifying, Otp!Rollback

\* What a step does to the figures that logins are counted by: nothing, a new code that
\* has opened nothing, or a verification of a live code that had guesses left.
LEMMA OtpCodesMove ==
  ASSUME Otp!IInv, NEW t \in Txns, Otp!Sending(t) \/ Otp!Verifying(t) \/ Otp!Rollback(t)
  PROVE  \/ code' = code /\ opened' = opened
         \/ \E c \in Codes :
              /\ opened' = opened /\ opened[c] = 0
              /\ \A d \in Codes : d # c => code'[d].key = code[d].key
         \/ \E c \in Codes :
              /\ \A d \in Codes : code'[d].key = code[d].key
              /\ ~code[c].consumed /\ wrong[c] < MaxAttempts /\ opened[c] = 0
              /\ opened' = [opened EXCEPT ![c] = 1]
         \/ opened' = opened /\ \A d \in Codes : code'[d].key = code[d].key
  <1>1. CASE \/ \E k \in Dialled : Otp!BeginSend(t, k)
             \/ Otp!Supersede(t) \/ Otp!TakeSuperseded(t) \/ Otp!Insert(t)
             \/ \E k \in Dialled, s \in Secrets : Otp!BeginVerify(t, k, s)
             \/ Otp!LockCode(t) \/ Otp!Rollback(t)
    BY <1>1 DEF Otp!BeginSend, Otp!Supersede, Otp!TakeSuperseded, Otp!Insert, Otp!BeginVerify,
                Otp!LockCode, Otp!Rollback, Otp!Refuse, Otp!Arrive, Otp!table
  <1>2. ASSUME NEW s \in Secrets, Otp!CommitSend(t, s)
        PROVE  \E c \in Codes :
                 /\ opened' = opened /\ opened[c] = 0
                 /\ \A d \in Codes : d # c => code'[d].key = code[d].key
    <2>1. PICK c : c = otpReq[t].fresh
      OBVIOUS
    <2>2. c \in Codes /\ ~Otp!Exists(c) /\ opened' = opened
      BY <1>2, <2>1 DEF Otp!CommitSend, Otp!IInv, Otp!TypeOK, Otp!RequestOK, Otp!Request
    <2>3. opened[c] = 0
      BY <2>2 DEF Otp!IInv, Otp!RowsOK
    <2>4. ASSUME NEW d \in Codes, d # c PROVE code'[d].key = code[d].key
      <3>1. code'[d] \in {code[d], Otp!Consumed(code[d])}
        BY <1>2, <2>1, <2>4 DEF Otp!CommitSend
      <3>2. code[d] \in Otp!Row
        BY DEF Otp!IInv, Otp!TypeOK
      <3>3. QED
        BY <3>1, <3>2 DEF Otp!Consumed, Otp!Row
    <2>5. QED
      BY <2>2, <2>3, <2>4
  <1>3. CASE Otp!CommitVerify(t)
    <2>1. PICK c, row :
            /\ c \in Codes /\ ~code[c].consumed /\ opened[c] = 0
            /\ code' = [code EXCEPT ![c] = row] /\ row.key = code[c].key
            /\ \/ opened' = opened
               \/ wrong[c] < MaxAttempts /\ opened' = [opened EXCEPT ![c] = 1]
      BY <1>3, CommitVerifyWrites, Zenon
    <2>2. \A d \in Codes : code'[d].key = code[d].key
      BY <2>1 DEF Otp!IInv, Otp!TypeOK
    <2>3. QED
      BY <2>1, <2>2
  <1>4. QED
    BY <1>1, <1>2, <1>3 DEF Otp!Sending, Otp!Verifying

--------------------------------------------------------------------------------
(* Logins and the codes behind them *)

LEMMA LoginsInit == Init => LoginsOpened
  <1> SUFFICES ASSUME Init PROVE LoginsOpened
    OBVIOUS
  <1>1. \A c \in Codes : code[c].key = Null /\ opened[c] = 0
    BY DEF Init, Otp!Init, Otp!NoRow
  <1>2. ASSUME NEW p \in Dialled
        PROVE  /\ IsFiniteSet({c \in Codes : code[c].key = p})
               /\ logins[p] + verified[p] <= Cardinality(Opened(p))
    <2>1. p # Null
      BY NullAssumption, DialledAssumption
    <2> DEFINE S == {c \in Codes : code[c].key = p}
    <2>2. S = {} /\ Opened(p) = {}
      BY <1>1, <2>1 DEF Opened
    <2>3. logins[p] = 0 /\ verified[p] = 0
      BY DEF Init
    <2>4. IsFiniteSet({}) /\ Cardinality({}) = 0
      BY FS_EmptySet
    <2> HIDE DEF S
    <2>5. IsFiniteSet(S) /\ Cardinality(Opened(p)) = 0
      BY <2>2, <2>4
    <2>6. logins[p] + verified[p] <= Cardinality(Opened(p))
      BY <2>3, <2>5
    <2>7. QED
      BY <2>5, <2>6 DEF S
  <1>3. QED
    BY <1>2 DEF Init, LoginsOpened

LEMMA LoginsUnchanged ==
  ASSUME LoginsOpened, UNCHANGED <<code, opened, verified, logins>>
  PROVE  LoginsOpened'
  BY DEF LoginsOpened, Opened

\* A verification adds its code to those that opened the door, and one login that may
\* follow.
LEMMA LoginsCoding ==
  ASSUME Otp!IInv, LoginsOpened, Coding
  PROVE  LoginsOpened'
  <1> DEFINE New(p) == {c \in Codes : code[c].key = p /\ opened'[c] # opened[c]}
  <1>1. /\ logins' = logins
        /\ verified' = [p \in Dialled |-> verified[p] + Cardinality(New(p))]
    BY DEF Coding
  <1>2. PICK t \in Txns : Otp!Sending(t) \/ Otp!Verifying(t) \/ Otp!Rollback(t)
    BY DEF Coding
  <1>3. ASSUME NEW p \in Dialled
        PROVE  /\ IsFiniteSet({c \in Codes : code'[c].key = p})
               /\ Cardinality(New(p)) \in Nat
               /\ Cardinality(Opened(p)') = Cardinality(Opened(p)) + Cardinality(New(p))
               /\ Cardinality(Opened(p)) \in Nat
    <2> DEFINE S == {c \in Codes : code[c].key = p}
    <2>1. IsFiniteSet(S)
      BY DEF LoginsOpened
    <2>2. IsFiniteSet(Opened(p)) /\ Cardinality(Opened(p)) \in Nat
      <3>1. Opened(p) \subseteq S
        BY DEF Opened
      <3>2. QED
        BY <2>1, <3>1, FS_Subset, FS_CardinalityType
    <2>3. ASSUME opened' = opened, Opened(p)' = Opened(p)
          PROVE  /\ Cardinality(New(p)) \in Nat
                 /\ Cardinality(Opened(p)') = Cardinality(Opened(p)) + Cardinality(New(p))
      <3>1. New(p) = {}
        BY <2>3
      <3>2. Cardinality(New(p)) = 0
        BY <3>1, FS_EmptySet
      <3>3. QED
        BY <2>2, <2>3, <3>2
    <2>4. CASE opened' = opened /\ \A d \in Codes : code'[d].key = code[d].key
      <3>1. {c \in Codes : code'[c].key = p} = S
        BY <2>4
      <3>2. Opened(p)' = Opened(p)
        BY <2>4 DEF Opened
      <3>3. QED
        BY <2>1, <2>2, <2>3, <2>4, <3>1, <3>2
    <2>5. ASSUME NEW c \in Codes, opened' = opened, opened[c] = 0,
                 \A d \in Codes : d # c => code'[d].key = code[d].key
          PROVE  /\ IsFiniteSet({d \in Codes : code'[d].key = p})
                 /\ Cardinality(New(p)) \in Nat
                 /\ Cardinality(Opened(p)') = Cardinality(Opened(p)) + Cardinality(New(p))
      <3>1. {d \in Codes : code'[d].key = p} \subseteq S \cup {c}
        BY <2>5
      <3>2. IsFiniteSet({d \in Codes : code'[d].key = p})
        BY <2>1, <3>1, FS_AddElement, FS_Subset
      <3>3. Opened(p)' = Opened(p)
        BY <2>5 DEF Opened
      <3>4. QED
        BY <2>3, <2>5, <3>2, <3>3
    <2>6. ASSUME NEW c \in Codes, opened' = [opened EXCEPT ![c] = 1], opened[c] = 0,
                 \A d \in Codes : code'[d].key = code[d].key
          PROVE  /\ IsFiniteSet({d \in Codes : code'[d].key = p})
                 /\ Cardinality(New(p)) \in Nat
                 /\ Cardinality(Opened(p)') = Cardinality(Opened(p)) + Cardinality(New(p))
      <3>1. {d \in Codes : code'[d].key = p} = S
        BY <2>6
      <3>2. opened'[c] = 1 /\ \A d \in Codes : d # c => opened'[d] = opened[d]
        BY <2>6 DEF Otp!IInv, Otp!TypeOK
      <3>3. CASE code[c].key = p
        <4>1. New(p) = {c} /\ Opened(p)' = Opened(p) \cup {c} /\ c \notin Opened(p)
          BY <2>6, <3>2, <3>3 DEF Opened
        <4>2. Cardinality(New(p)) = 1
          BY <4>1, FS_Singleton
        <4>3. Cardinality(Opened(p)') = Cardinality(Opened(p)) + 1
          BY <2>2, <4>1, FS_AddElement
        <4> HIDE DEF New, S
        <4>4. Cardinality(New(p)) \in Nat
          BY <4>2
        <4>5. IsFiniteSet({d \in Codes : code'[d].key = p})
          BY <2>1, <3>1
        <4>6. QED
          BY <4>2, <4>3, <4>4, <4>5
      <3>4. CASE code[c].key # p
        <4>1. New(p) = {} /\ Opened(p)' = Opened(p)
          BY <2>6, <3>2, <3>4 DEF Opened
        <4>2. Cardinality(New(p)) = 0
          BY <4>1, FS_EmptySet
        <4> HIDE DEF New, S
        <4>3. Cardinality(Opened(p)') = Cardinality(Opened(p)) + 0
          BY <2>2, <4>1
        <4>4. IsFiniteSet({d \in Codes : code'[d].key = p})
          BY <2>1, <3>1
        <4>5. QED
          BY <4>2, <4>3, <4>4
      <3>5. QED
        BY <3>3, <3>4
    <2>7. QED
      BY <1>2, <2>2, <2>4, <2>5, <2>6, OtpCodesMove
  <1> HIDE DEF New
  <1>4. ASSUME NEW p \in Dialled
        PROVE  /\ verified'[p] \in Nat
               /\ logins'[p] + verified'[p] <= Cardinality(Opened(p)')
    <2>1. /\ verified'[p] = verified[p] + Cardinality(New(p)) /\ logins'[p] = logins[p]
          /\ verified[p] \in Nat /\ logins[p] \in Nat
          /\ logins[p] + verified[p] <= Cardinality(Opened(p))
      BY <1>1 DEF LoginsOpened
    <2>2. /\ Cardinality(New(p)) \in Nat /\ Cardinality(Opened(p)) \in Nat
          /\ Cardinality(Opened(p)') = Cardinality(Opened(p)) + Cardinality(New(p))
      BY <1>3
    <2>3. PICK a, b, c : /\ a = Cardinality(New(p)) /\ b = Cardinality(Opened(p))
                         /\ c = Cardinality(Opened(p)')
      OBVIOUS
    <2>4. /\ a \in Nat /\ b \in Nat /\ c = b + a
          /\ verified'[p] = verified[p] + a /\ logins'[p] = logins[p]
          /\ verified[p] \in Nat /\ logins[p] \in Nat /\ logins[p] + verified[p] <= b
      BY <2>1, <2>2, <2>3
    <2>5. verified'[p] \in Nat /\ logins'[p] + verified'[p] <= c
      BY <2>4
    <2>6. QED
      BY <2>3, <2>5
  <1>5. verified' \in [Dialled -> Nat] /\ logins' \in [Dialled -> Nat]
    BY <1>1, <1>4 DEF LoginsOpened
  <1>6. QED
    BY <1>3, <1>4, <1>5 DEF LoginsOpened

LEMMA LoginsPhoneLogin ==
  ASSUME LoginsOpened, NEW t \in Txns, NEW p \in Dialled, PhoneLogin(t, p)
  PROVE  LoginsOpened'
  <1>1. /\ verified[p] > 0 /\ verified' = [verified EXCEPT ![p] = @ - 1]
        /\ logins' = [logins EXCEPT ![p] = @ + 1] \/ logins' = logins
        /\ code' = code /\ opened' = opened
    BY DEF PhoneLogin, codes
  <1>2. ASSUME NEW q \in Dialled
        PROVE  /\ verified'[q] \in Nat /\ logins'[q] \in Nat
               /\ logins'[q] + verified'[q] <= logins[q] + verified[q]
               /\ logins[q] + verified[q] \in Nat
    <2>1. verified[q] \in Nat /\ logins[q] \in Nat
      BY DEF LoginsOpened
    <2>2. QED
      BY <1>1, <2>1 DEF LoginsOpened
  <1>3. \A q \in Dialled : /\ IsFiniteSet({c \in Codes : code'[c].key = q})
                           /\ logins'[q] + verified'[q] <= Cardinality(Opened(q)')
    <2>1. TAKE q \in Dialled
    <2>2. /\ IsFiniteSet({c \in Codes : code[c].key = q})
          /\ logins[q] + verified[q] <= Cardinality(Opened(q))
      BY DEF LoginsOpened
    <2>3. Opened(q)' = Opened(q) /\ Opened(q) \subseteq {c \in Codes : code[c].key = q}
      BY <1>1 DEF Opened
    <2>4. Cardinality(Opened(q)) \in Nat
      BY <2>2, <2>3, FS_Subset, FS_CardinalityType
    <2>5. QED
      BY <1>1, <1>2, <2>2, <2>3, <2>4
  <1>4. verified' \in [Dialled -> Nat] /\ logins' \in [Dialled -> Nat]
    BY <1>1, <1>2 DEF LoginsOpened
  <1>5. QED
    BY <1>3, <1>4 DEF LoginsOpened

\* The codes that opened the door are among the consumed ones.
LEMMA LoginsEarned == Otp!IInv /\ LoginsOpened => LoginsAreEarned
  <1> SUFFICES ASSUME Otp!IInv, LoginsOpened,
                      NEW p \in Dialled
               PROVE  logins[p] + verified[p] <=
                        Cardinality({c \in Codes : code[c].key = p /\ code[c].consumed})
    BY DEF LoginsAreEarned
  <1> DEFINE S == {c \in Codes : code[c].key = p}
             E == {c \in Codes : code[c].key = p /\ code[c].consumed}
  <1>1. E \subseteq S /\ Opened(p) \subseteq E
    BY DEF Opened, Otp!IInv, Otp!RowsOK
  <1>2. IsFiniteSet(E) /\ Cardinality(E) \in Nat
    BY <1>1, FS_Subset, FS_CardinalityType DEF LoginsOpened
  <1>3. /\ Cardinality(Opened(p)) <= Cardinality(E) /\ Cardinality(Opened(p)) \in Nat
    BY <1>1, <1>2, FS_Subset, FS_CardinalityType
  <1>4. /\ logins[p] + verified[p] <= Cardinality(Opened(p))
        /\ logins[p] \in Nat /\ verified[p] \in Nat
    BY DEF LoginsOpened
  <1>5. QED
    BY <1>2, <1>3, <1>4

--------------------------------------------------------------------------------
(* Accounts *)

LEMMA AppendRow ==
  ASSUME NEW S, NEW q \in Seq(S), NEW e \in S
  PROVE  /\ Append(q, e) \in Seq(S) /\ Append(q, e) # <<>>
         /\ Len(q) \in Nat /\ Len(Append(q, e)) = Len(q) + 1
         /\ Append(q, e)[Len(q) + 1] = e
         /\ \A n \in 1..Len(q) : Append(q, e)[n] = q[n]
  <1>1. /\ Append(q, e) \in Seq(S) /\ Len(q) \in Nat
        /\ Len(Append(q, e)) = Len(q) + 1
    OBVIOUS
  <1>2. Append(q, e) # <<>>
    BY <1>1
  <1>3. Append(q, e)[Len(q) + 1] = e
    OBVIOUS
  <1>4. \A n \in 1..Len(q) : Append(q, e)[n] = q[n]
    OBVIOUS
  <1>5. QED
    BY <1>1, <1>2, <1>3, <1>4

\* The history h begins with the registration, and the last change it records leads to
\* the status s: StatusOnRecord of one account.
OnRecord(h, s) ==
  /\ h # <<>> /\ h[1] = [from |-> Account!NoStatus, to |-> "active"]
  /\ \E i \in 1..Len(h) :
       /\ h[i].from # h[i].to /\ h[i].to = s
       /\ \A j \in (i + 1)..Len(h) : h[j].from = h[j].to

LEMMA RegistrationRecorded ==
  ASSUME NEW h, h = <<[from |-> Account!NoStatus, to |-> "active"]>>
  PROVE  OnRecord(h, "active")
  <1>1. h # <<>> /\ h[1] = [from |-> Account!NoStatus, to |-> "active"] /\ Len(h) = 1
    OBVIOUS
  <1>2. h[1].from # h[1].to /\ h[1].to = "active"
    BY <1>1 DEF Account!NoStatus
  <1>3. 1 \in 1..Len(h) /\ \A j \in (1 + 1)..Len(h) : h[j].from = h[j].to
    BY <1>1
  <1>4. QED
    BY <1>1, <1>2, <1>3 DEF OnRecord

LEMMA FirstRecord ==
  ASSUME NEW h, h = <<>>
  PROVE  OnRecord(Append(h, [from |-> Account!NoStatus, to |-> "active"]), "active")
  <1>1. Append(h, [from |-> Account!NoStatus, to |-> "active"]) =
          <<[from |-> Account!NoStatus, to |-> "active"]>>
    OBVIOUS
  <1>2. QED
    BY <1>1, RegistrationRecorded

\* A row that records a change names the new status; one that records none leaves the
\* last change what it was.
LEMMA RecordGrows ==
  ASSUME NEW h \in Seq(Account!HistoryRow), NEW s, NEW e \in Account!HistoryRow, NEW s2,
         OnRecord(h, s),
         IF e.from = e.to THEN s2 = s ELSE s2 = e.to
  PROVE  OnRecord(Append(h, e), s2)
  <1> DEFINE k == Append(h, e)
             n == Len(h)
  <1>1. /\ k # <<>> /\ n \in Nat /\ Len(k) = n + 1 /\ k[n + 1] = e
        /\ \A m \in 1..n : k[m] = h[m]
    BY AppendRow
  <1>2. PICK i \in 1..n : /\ h[i].from # h[i].to /\ h[i].to = s
                          /\ \A j \in (i + 1)..n : h[j].from = h[j].to
    BY DEF OnRecord
  <1> HIDE DEF k
  <1>3. k[1] = [from |-> Account!NoStatus, to |-> "active"]
    <2>1. 1 \in 1..n
      BY <1>1, <1>2
    <2>2. QED
      BY <1>1, <2>1 DEF OnRecord
  <1> HIDE DEF n
  <1>4. CASE e.from = e.to
    <2>1. i \in 1..Len(k) /\ k[i].from # k[i].to /\ k[i].to = s2
      BY <1>1, <1>2, <1>4
    <2>2. ASSUME NEW j \in (i + 1)..Len(k) PROVE k[j].from = k[j].to
      <3>1. j = n + 1 \/ (j \in (i + 1)..n /\ j \in 1..n)
        BY <1>1, <1>2
      <3>2. QED
        BY <1>1, <1>2, <1>4, <3>1
    <2>3. QED
      BY <1>1, <1>3, <2>1, <2>2 DEF OnRecord, k
  <1>5. CASE e.from # e.to
    <2>1. n + 1 \in 1..Len(k) /\ k[n + 1].from # k[n + 1].to /\ k[n + 1].to = s2
      BY <1>1, <1>5
    <2>2. \A j \in (n + 1 + 1)..Len(k) : k[j].from = k[j].to
      BY <1>1
    <2>3. QED
      BY <1>1, <1>3, <2>1, <2>2 DEF OnRecord, k
  <1>6. QED
    BY <1>4, <1>5

LEMMA StatusOnRecordIs ==
  Account!StatusOnRecord <=>
    \A u \in Users : IF Account!Exists(u) THEN OnRecord(history[u], user[u].status)
                     ELSE history[u] = <<>>
  BY DEF Account!StatusOnRecord, OnRecord

LEMMA AccountInit == Account!Init => Account!IInv
  <1> SUFFICES ASSUME Account!Init PROVE Account!IInv
    OBVIOUS
  <1> USE DEF Account!NoRow, Account!NoRequest, Account!Exists, Account!NoStatus
  <1>1. \A t \in Txns : userPc[t] = "idle" /\ userReq[t] = Account!NoRequest
    BY DEF Account!Init
  <1>2. Account!NoRow \in Account!Row /\ Account!NoRequest \in Account!Request
    BY DEF Account!Row, Account!Request
  <1>3. (\A t \in Txns : Account!RequestOK(t)) /\ Account!IndexesOK /\ Account!GuardsOK
    BY <1>1 DEF Account!RequestOK, Account!IndexesOK, Account!GuardsOK, Account!ClaimsPhone,
                Account!ClaimsTelegram
  <1>4. CASE /\ user    = [u \in Users |-> Account!NoRow]
             /\ history = [u \in Users |-> <<>>]
             /\ token   = {}
    <2>1. Account!TypeOK
      BY <1>2, <1>4 DEF Account!Init, Account!TypeOK
    <2>2. Account!SignedInExist /\ Account!OneAccountPerCredential
      BY <1>4 DEF Account!SignedInExist, Account!OneAccountPerCredential, Account!Shares
    <2>3. Account!TokenMatchesPhone /\ Account!StatusOnRecord
      BY <1>4 DEF Account!TokenMatchesPhone, Account!StatusOnRecord
    <2>4. QED
      BY <1>3, <2>1, <2>2, <2>3 DEF Account!IInv, Account!ControlOK
  <1>5. ASSUME NEW o \in Users, NEW row \in Account!Registered,
               user = [u \in Users |-> IF u = o THEN row ELSE Account!NoRow],
               history = [u \in Users |->
                 IF u = o THEN <<[from |-> Account!NoStatus, to |-> "active"]>> ELSE <<>>],
               token = {[user |-> o, roles |-> {}, active |-> Null, phone |-> row.phone]}
        PROVE  Account!IInv
    <2>1. /\ row \in Account!Row /\ row.status = "active"
          /\ row.phone # Null \/ row.telegram # Null
      BY DEF Account!Registered, Account!Row, Account!Statuses
    <2>2. /\ user[o] = row /\ history[o] = <<[from |-> Account!NoStatus, to |-> "active"]>>
          /\ \A u \in Users : u # o => user[u] = Account!NoRow /\ history[u] = <<>>
      BY <1>5
    <2>3. Account!TypeOK
      <3>1. user \in [Users -> Account!Row]
        BY <1>2, <1>5, <2>1
      <3>2. history \in [Users -> Seq(Account!HistoryRow)]
        <4>1. [from |-> Account!NoStatus, to |-> "active"] \in Account!HistoryRow
          BY DEF Account!HistoryRow, Account!Statuses
        <4>2. <<[from |-> Account!NoStatus, to |-> "active"]>> \in Seq(Account!HistoryRow)
          BY <4>1
        <4>3. <<>> \in Seq(Account!HistoryRow)
          OBVIOUS
        <4>4. QED
          BY <1>5, <4>2, <4>3
      <3>3. token \subseteq Account!Token
        BY <1>5, <2>1 DEF Account!Token, Account!Row
      <3>4. QED
        BY <1>2, <3>1, <3>2, <3>3 DEF Account!Init, Account!TypeOK
    <2>4. Account!OneAccountPerCredential
      BY <2>1, <2>2 DEF Account!OneAccountPerCredential, Account!Shares
    <2>5. Account!SignedInExist /\ Account!TokenMatchesPhone
      BY <1>5, <2>1, <2>2 DEF Account!SignedInExist, Account!TokenMatchesPhone
    <2>6. Account!StatusOnRecord
      <3>1. OnRecord(history[o], "active") /\ user[o].status = "active"
        BY <2>1, <2>2, RegistrationRecorded
      <3>2. \A u \in Users : u # o => user[u].status = "none" /\ history[u] = <<>>
        BY <2>2
      <3>3. QED
        BY <3>1, <3>2, StatusOnRecordIs
    <2>7. QED
      BY <1>3, <2>3, <2>4, <2>5, <2>6 DEF Account!IInv, Account!ControlOK
  <1>6. QED
    BY <1>4, <1>5 DEF Account!Init

LEMMA AccountUnchanged ==
  ASSUME Account!IInv, UNCHANGED accounts
  PROVE  Account!IInv'
  <1> USE DEF accounts, Account!Exists, Account!ByPhone, Account!ByTelegram
  <1>1. Account!TypeOK' /\ (\A t \in Txns : Account!RequestOK(t)')
    BY DEF Account!IInv, Account!TypeOK, Account!ControlOK, Account!RequestOK
  <1>2. Account!IndexesOK'
    BY DEF Account!IInv, Account!ControlOK, Account!IndexesOK, Account!ClaimsPhone,
           Account!ClaimsTelegram
  <1>3. Account!SignedInExist' /\ Account!GuardsOK' /\ Account!TokenMatchesPhone'
    BY DEF Account!IInv, Account!ControlOK, Account!SignedInExist, Account!GuardsOK,
           Account!TokenMatchesPhone
  <1>4. Account!OneAccountPerCredential' /\ Account!StatusOnRecord'
    BY DEF Account!IInv, Account!OneAccountPerCredential, Account!StatusOnRecord
  <1>5. QED
    BY <1>1, <1>2, <1>3, <1>4 DEF Account!IInv, Account!ControlOK

\* A statement that publishes nothing moves one request; what is left to show is what
\* that request carries and claims.
LEMMA AccountRequestMoves ==
  ASSUME Account!IInv, NEW t \in Txns, UNCHANGED <<user, history, deletion, token>>,
         \A v \in Txns : v # t =>
           /\ userPc'[v] = userPc[v] /\ userReq'[v] = userReq[v]
           /\ \A u \in Users : v \in since'[u] <=> v \in since[u],
         Account!TypeOK', Account!RequestOK(t)',
         LET u == userReq'[t].user IN
           u # Null /\ t \notin since'[u] =>
             /\ Account!MayAuthenticate(user[u].status)
             /\ userPc'[t] \in {"select", "read", "delete", "commitDelete"} =>
                  Account!MayMutate(user[u].status),
         Account!ClaimsPhone(t)' =>
           /\ Account!ByPhone(userReq'[t].phone) = {}
           /\ \A v \in Txns : v # t /\ Account!ClaimsPhone(v) =>
                ~Account!Shares(userReq'[t].phone, userReq[v].phone),
         Account!ClaimsTelegram(t)' =>
           /\ Account!ByTelegram(userReq'[t].telegram) = {}
           /\ \A v \in Txns : v # t /\ Account!ClaimsTelegram(v) =>
                ~Account!Shares(userReq'[t].telegram, userReq[v].telegram),
         userPc'[t] = "commitCreate" =>
           \A v \in Txns : v # t /\ userPc[v] = "commitCreate" =>
             userReq[v].user # userReq'[t].user
  PROVE  Account!IInv'
  <1>1. \A v \in Txns : v # t => Account!RequestOK(v)'
    BY DEF Account!IInv, Account!ControlOK, Account!RequestOK, Account!Exists
  <1>2. Account!IndexesOK'
    <2>1. /\ \A p : Account!ByPhone(p)' = Account!ByPhone(p)
          /\ \A g : Account!ByTelegram(g)' = Account!ByTelegram(g)
      BY DEF Account!ByPhone, Account!ByTelegram
    <2>2. \A v \in Txns : v # t => /\ Account!ClaimsPhone(v)' <=> Account!ClaimsPhone(v)
                                   /\ Account!ClaimsTelegram(v)' <=> Account!ClaimsTelegram(v)
      BY DEF Account!ClaimsPhone, Account!ClaimsTelegram
    <2>3. \A v \in Txns :
            /\ Account!ClaimsPhone(v)' => Account!ByPhone(userReq[v].phone)' = {}
            /\ Account!ClaimsTelegram(v)' => Account!ByTelegram(userReq[v].telegram)' = {}
      BY <2>1, <2>2 DEF Account!IInv, Account!ControlOK, Account!IndexesOK
    <2>4. ASSUME NEW v \in Txns, NEW w \in Txns, v # w,
                 Account!ClaimsPhone(v)', Account!ClaimsPhone(w)'
          PROVE  ~Account!Shares(userReq'[v].phone, userReq'[w].phone)
      BY <2>2, <2>4 DEF Account!IInv, Account!ControlOK, Account!IndexesOK, Account!Shares
    <2>5. ASSUME NEW v \in Txns, NEW w \in Txns, v # w,
                 Account!ClaimsTelegram(v)', Account!ClaimsTelegram(w)'
          PROVE  ~Account!Shares(userReq'[v].telegram, userReq'[w].telegram)
      BY <2>2, <2>5 DEF Account!IInv, Account!ControlOK, Account!IndexesOK, Account!Shares
    <2>6. ASSUME NEW v \in Txns, NEW w \in Txns, v # w,
                 userPc'[v] = "commitCreate", userPc'[w] = "commitCreate"
          PROVE  userReq'[v].user # userReq'[w].user
      BY <2>6 DEF Account!IInv, Account!ControlOK, Account!IndexesOK
    <2>7. QED
      BY <2>3, <2>4, <2>5, <2>6 DEF Account!IndexesOK
  <1>3. Account!SignedInExist' /\ Account!TokenMatchesPhone'
    BY DEF Account!IInv, Account!ControlOK, Account!SignedInExist, Account!TokenMatchesPhone,
           Account!Exists
  <1>4. Account!GuardsOK'
    <2> SUFFICES ASSUME NEW v \in Txns, NEW u, u = userReq'[v].user, u # Null, v \notin since'[u]
                 PROVE  /\ Account!MayAuthenticate(user[u].status)
                        /\ userPc'[v] \in {"select", "read", "delete", "commitDelete"} =>
                             Account!MayMutate(user[u].status)
      BY DEF Account!GuardsOK
    <2>1. CASE v = t
      BY <2>1
    <2>2. CASE v # t
      <3>1. u \in Users
        BY DEF Account!TypeOK, Account!Request
      <3>2. QED
        BY <2>2, <3>1 DEF Account!IInv, Account!ControlOK, Account!GuardsOK
    <2>3. QED
      BY <2>1, <2>2
  <1>5. Account!OneAccountPerCredential' /\ Account!StatusOnRecord'
    BY DEF Account!IInv, Account!OneAccountPerCredential, Account!StatusOnRecord,
           Account!Exists
  <1>6. QED
    BY <1>1, <1>2, <1>3, <1>4, <1>5 DEF Account!IInv, Account!ControlOK

\* A commit publishes one row.  Phones are set once, by the only request with a claim on
\* them, a Telegram id only by the one with a claim on it, and accounts are created by
\* the only request with a claim on their id; no status bars anybody who was let in.
LEMMA AccountCommits ==
  ASSUME Account!IInv, NEW t \in Txns, NEW o \in Users, o = userReq[t].user,
         since' = since, userPc'[t] \in {"idle", "issue"},
         \A v \in Txns : v # t => userPc'[v] = userPc[v] /\ userReq'[v] = userReq[v],
         userReq'[t].user \in {o, Null},
         Account!TypeOK', Account!RequestOK(t)', Account!StatusOnRecord',
         \A u \in Users : u # o => user'[u] = user[u],
         Account!Exists(o)', Account!Exists(o) <=> userPc[t] # "commitCreate",
         user[o].phone # Null => user'[o].phone = user[o].phone,
         user'[o].phone # user[o].phone =>
           Account!ClaimsPhone(t) /\ user'[o].phone = userReq[t].phone,
         user'[o].telegram # user[o].telegram =>
           Account!ClaimsTelegram(t) /\ user'[o].telegram = userReq[t].telegram,
         user'[o].phone # Null \/ user'[o].telegram # Null,
         user'[o].status \in {user[o].status, "active", "deletion_requested"},
         \A k \in token' : k \notin token =>
           k.user = o /\ (k.phone # Null => user'[o].phone = k.phone)
  PROVE  Account!IInv'
  <1>1. \A u \in Users : Account!Exists(u) => Account!Exists(u)'
    BY DEF Account!Exists
  <1>2. ASSUME NEW v \in Txns, v # t PROVE Account!RequestOK(v)'
    <2> DEFINE r == userReq[v]
    <2>1. Account!RequestOK(v) /\ userReq'[v] = r /\ userPc'[v] = userPc[v]
      BY <1>2 DEF Account!IInv, Account!ControlOK
    <2>2. userPc[v] \notin {"idle", "holder", "create"} =>
            r.user \in Users /\ (Account!Exists(r.user)' <=> userPc[v] # "commitCreate")
      <3>1. userPc[v] = "commitCreate" /\ userPc[t] = "commitCreate" => r.user # o
        BY <1>2 DEF Account!IInv, Account!ControlOK, Account!IndexesOK
      <3>2. CASE r.user = o
        BY <2>1, <3>1, <3>2 DEF Account!RequestOK
      <3>3. CASE r.user # o
        BY <2>1, <3>3 DEF Account!RequestOK, Account!Exists
      <3>4. QED
        BY <3>2, <3>3
    <2>3. userPc[v] = "issue" /\ r.telegram = Null =>
            r.phone # Null /\ user'[r.user].phone = r.phone
      BY <2>1 DEF Account!RequestOK
    <2>4. QED
      BY <2>1, <2>2, <2>3 DEF Account!RequestOK
  <1>3. ~Account!ClaimsPhone(t)' /\ ~Account!ClaimsTelegram(t)'
    BY DEF Account!ClaimsPhone, Account!ClaimsTelegram
  <1>4. ASSUME NEW v \in Txns, v # t
        PROVE  /\ Account!ClaimsPhone(v)' => Account!ClaimsPhone(v)
               /\ Account!ClaimsTelegram(v)' => Account!ClaimsTelegram(v)
    <2>1. userPc[v] = "commitFill" => userReq[v].user \in Users
      BY DEF Account!IInv, Account!ControlOK, Account!RequestOK
    <2>2. QED
      BY <1>4, <2>1 DEF Account!ClaimsPhone, Account!ClaimsTelegram
  <1>5. Account!IndexesOK'
    <2>1. ASSUME NEW v \in Txns, v # t, Account!ClaimsPhone(v)
          PROVE  Account!ByPhone(userReq[v].phone)' = {}
      <3>1. Account!ByPhone(userReq[v].phone) = {}
        BY <2>1 DEF Account!IInv, Account!ControlOK, Account!IndexesOK
      <3>2. Account!ClaimsPhone(t) => ~Account!Shares(userReq[t].phone, userReq[v].phone)
        BY <2>1 DEF Account!IInv, Account!ControlOK, Account!IndexesOK
      <3>3. userReq'[v] = userReq[v]
        BY <2>1
      <3>4. QED
        BY <3>1, <3>2, <3>3 DEF Account!ByPhone, Account!Shares
    <2>2. ASSUME NEW v \in Txns, v # t, Account!ClaimsTelegram(v)
          PROVE  Account!ByTelegram(userReq[v].telegram)' = {}
      <3>1. Account!ByTelegram(userReq[v].telegram) = {}
        BY <2>2 DEF Account!IInv, Account!ControlOK, Account!IndexesOK
      <3>2. Account!ClaimsTelegram(t) =>
              ~Account!Shares(userReq[t].telegram, userReq[v].telegram)
        BY <2>2 DEF Account!IInv, Account!ControlOK, Account!IndexesOK
      <3>3. userReq'[v] = userReq[v]
        BY <2>2
      <3>4. QED
        BY <3>1, <3>2, <3>3 DEF Account!ByTelegram, Account!Shares
    <2>3. ASSUME NEW v \in Txns, NEW w \in Txns, v # w
          PROVE  /\ Account!ClaimsPhone(v)' /\ Account!ClaimsPhone(w)' =>
                      ~Account!Shares(userReq'[v].phone, userReq'[w].phone)
                 /\ Account!ClaimsTelegram(v)' /\ Account!ClaimsTelegram(w)' =>
                      ~Account!Shares(userReq'[v].telegram, userReq'[w].telegram)
                 /\ userPc'[v] = "commitCreate" /\ userPc'[w] = "commitCreate" =>
                      userReq'[v].user # userReq'[w].user
      BY <1>3, <1>4, <2>3 DEF Account!IInv, Account!ControlOK, Account!IndexesOK
    <2>4. QED
      BY <1>3, <1>4, <2>1, <2>2, <2>3 DEF Account!IndexesOK
  <1>6. Account!SignedInExist' /\ Account!TokenMatchesPhone'
    <2>1. \A k \in token : k.user \in Users
      BY DEF Account!IInv, Account!TypeOK, Account!Token
    <2>2. ASSUME NEW k \in token'
          PROVE  /\ Account!Exists(k.user)'
                 /\ k.phone # Null => user'[k.user].phone = k.phone
      <3>1. CASE k \in token
        <4>1. /\ k.user \in Users /\ Account!Exists(k.user)
              /\ k.phone # Null => user[k.user].phone = k.phone
          BY <2>1, <3>1 DEF Account!IInv, Account!ControlOK, Account!SignedInExist,
                            Account!TokenMatchesPhone
        <4>2. user[k.user].phone # Null => user'[k.user].phone = user[k.user].phone
          BY <4>1
        <4>3. QED
          BY <1>1, <4>1, <4>2
      <3>2. CASE k \notin token
        BY <3>2 DEF Account!Exists
      <3>3. QED
        BY <3>1, <3>2
    <2>3. QED
      BY <2>2 DEF Account!SignedInExist, Account!TokenMatchesPhone
  <1>7. Account!GuardsOK'
    <2> SUFFICES ASSUME NEW v \in Txns, NEW u, u = userReq'[v].user, u # Null, v \notin since[u]
                 PROVE  /\ Account!MayAuthenticate(user'[u].status)
                        /\ userPc'[v] \in {"select", "read", "delete", "commitDelete"} =>
                             Account!MayMutate(user'[u].status)
      BY DEF Account!GuardsOK
    <2>1. u \in Users /\ u = userReq[v].user
      BY DEF Account!TypeOK, Account!Request
    <2>2. /\ Account!MayAuthenticate(user[u].status)
          /\ userPc[v] \in {"select", "read", "delete", "commitDelete"} =>
               Account!MayMutate(user[u].status)
      BY <2>1 DEF Account!IInv, Account!ControlOK, Account!GuardsOK
    <2>3. user'[u].status \in {user[u].status, "active", "deletion_requested"}
      BY <2>1
    <2>4. userPc'[v] \in {"select", "read", "delete", "commitDelete"} => userPc'[v] = userPc[v]
      OBVIOUS
    <2>5. QED
      BY <2>2, <2>3, <2>4 DEF Account!MayAuthenticate, Account!MayMutate
  <1>8. Account!OneAccountPerCredential'
    <2>1. \A u \in Users : Account!Exists(u)' <=>
            user'[u].phone # Null \/ user'[u].telegram # Null
      BY DEF Account!IInv, Account!OneAccountPerCredential, Account!Exists
    <2>2. ASSUME NEW u \in Users, u # o
          PROVE  /\ ~Account!Shares(user'[u].phone, user'[o].phone)
                 /\ ~Account!Shares(user'[u].telegram, user'[o].telegram)
      <3>1. user'[u] = user[u]
        BY <2>2
      <3>2. /\ ~Account!Shares(user[u].phone, user[o].phone)
            /\ ~Account!Shares(user[u].telegram, user[o].telegram)
        BY <2>2 DEF Account!IInv, Account!OneAccountPerCredential
      <3>3. user'[o].phone # user[o].phone => ~Account!Shares(user[u].phone, user'[o].phone)
        BY DEF Account!IInv, Account!ControlOK, Account!IndexesOK, Account!ByPhone,
               Account!Shares
      <3>4. user'[o].telegram # user[o].telegram =>
              ~Account!Shares(user[u].telegram, user'[o].telegram)
        BY DEF Account!IInv, Account!ControlOK, Account!IndexesOK, Account!ByTelegram,
               Account!Shares
      <3>5. QED
        BY <3>1, <3>2, <3>3, <3>4
    <2>3. \A u, v \in Users : u # v =>
            /\ ~Account!Shares(user'[u].phone, user'[v].phone)
            /\ ~Account!Shares(user'[u].telegram, user'[v].telegram)
      BY <2>2 DEF Account!IInv, Account!OneAccountPerCredential, Account!Shares
    <2>4. QED
      BY <2>1, <2>3 DEF Account!OneAccountPerCredential
  <1>9. QED
    BY <1>2, <1>5, <1>6, <1>7, <1>8 DEF Account!IInv, Account!ControlOK

LEMMA AccountRefuses ==
  ASSUME Account!IInv, NEW t \in Txns, Account!Refuse(t)
  PROVE  Account!IInv'
  <1>1. /\ userPc' = [userPc EXCEPT ![t] = "idle"]
        /\ userReq' = [userReq EXCEPT ![t] = Account!NoRequest]
        /\ UNCHANGED <<user, history, deletion, token, since>>
    BY DEF Account!Refuse, Account!Finish, Account!Goto, Account!tables
  <1>2. Account!TypeOK'
    <2>1. Account!NoRequest \in Account!Request
      BY DEF Account!NoRequest, Account!Request
    <2>2. QED
      BY <1>1, <2>1 DEF Account!IInv, Account!TypeOK
  <1>3. /\ userPc'[t] = "idle" /\ userReq'[t] = Account!NoRequest
        /\ userReq'[t].user = Null
        /\ \A u \in Txns : u # t => userPc'[u] = userPc[u] /\ userReq'[u] = userReq[u]
    BY <1>1 DEF Account!IInv, Account!TypeOK, Account!NoRequest
  <1>4. Account!RequestOK(t)'
    BY <1>3 DEF Account!RequestOK
  <1>5. ~Account!ClaimsPhone(t)' /\ ~Account!ClaimsTelegram(t)'
    BY <1>3 DEF Account!ClaimsPhone, Account!ClaimsTelegram
  <1>6. QED
    BY <1>1, <1>2, <1>3, <1>4, <1>5, AccountRequestMoves

\* A request begins: the change of status that it could not have seen is forgotten, and
\* the guard has let it through by the status of now.
LEMMA AccountArrives ==
  ASSUME Account!IInv, NEW t \in Txns, NEW p, NEW r \in Account!Request,
         p \in {"create", "issue", "holder", "fill", "select", "read"},
         Account!Arrive(t, p, r),
         p \in {"holder", "create"} => r.user = Null,
         p = "create" => r.phone # Null,
         p \in {"holder", "fill"} => r.telegram # Null,
         p \notin {"holder", "create"} =>
           /\ r.user \in Users /\ Account!Exists(r.user)
           /\ Account!MayAuthenticate(user[r.user].status),
         p \in {"select", "read"} => Account!MayMutate(user[r.user].status),
         p = "issue" => r.phone # Null /\ user[r.user].phone = r.phone
  PROVE  Account!IInv'
  <1>1. /\ userPc' = [userPc EXCEPT ![t] = p] /\ userReq' = [userReq EXCEPT ![t] = r]
        /\ since' = [u \in Users |-> since[u] \ {t}]
        /\ UNCHANGED <<user, history, deletion, token>>
    BY DEF Account!Arrive, Account!tables
  <1>2. Account!TypeOK'
    BY <1>1 DEF Account!IInv, Account!TypeOK
  <1>3. /\ userPc'[t] = p /\ userReq'[t] = r
        /\ \A v \in Txns : v # t => /\ userPc'[v] = userPc[v] /\ userReq'[v] = userReq[v]
                                    /\ \A u \in Users : v \in since'[u] <=> v \in since[u]
    BY <1>1 DEF Account!IInv, Account!TypeOK
  <1>4. Account!RequestOK(t)'
    BY <1>1, <1>3 DEF Account!RequestOK, Account!Exists
  <1>5. ~Account!ClaimsPhone(t)' /\ ~Account!ClaimsTelegram(t)' /\ p # "commitCreate"
    BY <1>3 DEF Account!ClaimsPhone, Account!ClaimsTelegram
  <1>6. LET u == userReq'[t].user IN
          u # Null /\ t \notin since'[u] =>
            /\ Account!MayAuthenticate(user[u].status)
            /\ userPc'[t] \in {"select", "read", "delete", "commitDelete"} =>
                 Account!MayMutate(user[u].status)
    BY <1>3
  <1>7. QED
    BY <1>1, <1>2, <1>3, <1>4, <1>5, <1>6, AccountRequestMoves

\* A statement that goes on with an account somebody was let in to, or with none.
LEMMA AccountContinues ==
  ASSUME Account!IInv, NEW t \in Txns, NEW p, NEW r \in Account!Request,
         userPc[t] # "idle",
         p \in {"create", "commitCreate", "commitFill", "link", "commitLink",
                "delete", "commitDelete"},
         Account!Continue(t, p, r), Account!RequestOK(t)',
         \/ /\ r.user = userReq[t].user
            /\ p \in {"delete", "commitDelete"} => userPc[t] \in {"read", "delete"}
         \/ p \in {"commitCreate", "link"} /\ Account!MayAuthenticate(user[r.user].status),
         Account!ClaimsPhone(t)' =>
           /\ Account!ByPhone(r.phone) = {}
           /\ \A v \in Txns : v # t /\ Account!ClaimsPhone(v) =>
                ~Account!Shares(r.phone, userReq[v].phone),
         Account!ClaimsTelegram(t)' =>
           /\ Account!ByTelegram(r.telegram) = {}
           /\ \A v \in Txns : v # t /\ Account!ClaimsTelegram(v) =>
                ~Account!Shares(r.telegram, userReq[v].telegram),
         p = "commitCreate" =>
           \A v \in Txns : v # t /\ userPc[v] = "commitCreate" => userReq[v].user # r.user
  PROVE  Account!IInv'
  <1>1. /\ userPc' = [userPc EXCEPT ![t] = p] /\ userReq' = [userReq EXCEPT ![t] = r]
        /\ UNCHANGED <<user, history, deletion, token, since>>
    BY DEF Account!Continue, Account!Goto, Account!tables
  <1>2. Account!TypeOK'
    BY <1>1 DEF Account!IInv, Account!TypeOK
  <1>3. /\ userPc'[t] = p /\ userReq'[t] = r
        /\ \A v \in Txns : v # t => userPc'[v] = userPc[v] /\ userReq'[v] = userReq[v]
    BY <1>1 DEF Account!IInv, Account!TypeOK
  <1>4. ASSUME NEW u, u = r.user, u # Null, t \notin since[u]
        PROVE  /\ Account!MayAuthenticate(user[u].status)
               /\ p \in {"select", "read", "delete", "commitDelete"} =>
                    Account!MayMutate(user[u].status)
    BY <1>4 DEF Account!IInv, Account!ControlOK, Account!GuardsOK
  <1>5. LET u == userReq'[t].user IN
          u # Null /\ t \notin since'[u] =>
            /\ Account!MayAuthenticate(user[u].status)
            /\ userPc'[t] \in {"select", "read", "delete", "commitDelete"} =>
                 Account!MayMutate(user[u].status)
    BY <1>1, <1>3, <1>4
  <1>6. QED
    BY <1>1, <1>2, <1>3, <1>5, AccountRequestMoves

\* What continuing makes of the request.
LEMMA ContinuesTo ==
  ASSUME Account!IInv, NEW t \in Txns, NEW p, NEW r, Account!Continue(t, p, r)
  PROVE  userPc'[t] = p /\ userReq'[t] = r /\ user' = user
  BY DEF Account!Continue, Account!Goto, Account!tables, Account!IInv, Account!TypeOK

\* Whoever is found by a credential is there.
LEMMA FoundExist ==
  ASSUME Account!IInv, NEW c, c # Null, NEW u \in Account!ByPhone(c) \cup Account!ByTelegram(c)
  PROVE  u \in Users /\ Account!Exists(u)
  BY DEF Account!IInv, Account!OneAccountPerCredential, Account!ByPhone, Account!ByTelegram

LEMMA AccountBeginPhoneLogin ==
  ASSUME Account!IInv, NEW t \in Txns, NEW c \in Phones, Account!BeginPhoneLogin(t, c)
  PROVE  Account!IInv'
  <1>0. c # Null
    BY NullAssumption
  <1>1. CASE Account!Arrive(t, "create", [Account!NoRequest EXCEPT !.phone = c])
    <2> DEFINE r == [Account!NoRequest EXCEPT !.phone = c]
    <2>1. r \in Account!Request /\ r.user = Null /\ r.phone = c
      BY DEF Account!NoRequest, Account!Request
    <2> HIDE DEF r
    <2>2. Account!Arrive(t, "create", r)
      BY <1>1 DEF r
    <2>3. QED
      BY <1>0, <2>1, <2>2, AccountArrives
  <1>2. ASSUME NEW u \in Account!ByPhone(c), Account!MayAuthenticate(user[u].status),
               Account!Arrive(t, "issue", [Account!NoRequest EXCEPT !.user = u, !.phone = c])
        PROVE  Account!IInv'
    <2> DEFINE r == [Account!NoRequest EXCEPT !.user = u, !.phone = c]
    <2>1. u \in Users /\ Account!Exists(u) /\ user[u].phone = c
      BY <1>0, FoundExist DEF Account!ByPhone
    <2>2. r \in Account!Request /\ r.user = u /\ r.phone = c
      BY <2>1 DEF Account!NoRequest, Account!Request
    <2> HIDE DEF r
    <2>3. Account!Arrive(t, "issue", r)
      BY <1>2 DEF r
    <2>4. QED
      BY <1>0, <1>2, <2>1, <2>2, <2>3, AccountArrives
  <1>3. QED
    BY <1>1, <1>2 DEF Account!BeginPhoneLogin

LEMMA AccountBeginTelegramLogin ==
  ASSUME Account!IInv, NEW t \in Txns, NEW g \in Telegrams, NEW c \in Phones \cup {Null},
         Account!BeginTelegramLogin(t, g, c)
  PROVE  Account!IInv'
  <1> DEFINE r == [Account!NoRequest EXCEPT !.telegram = g, !.phone = c]
  <1>0. g # Null
    BY NullAssumption
  <1>1. r \in Account!Request /\ r.user = Null /\ r.telegram = g /\ r.phone = c
    BY DEF Account!NoRequest, Account!Request
  <1>2. CASE Account!Arrive(t, "holder", r)
    <2> HIDE DEF r
    <2>1. QED
      BY <1>0, <1>1, <1>2, AccountArrives
  <1>3. ASSUME NEW u \in Account!ByTelegram(g), Account!MayAuthenticate(user[u].status),
               Account!Arrive(t, "fill", [r EXCEPT !.user = u])
        PROVE  Account!IInv'
    <2> DEFINE q == [r EXCEPT !.user = u]
    <2>1. u \in Users /\ Account!Exists(u)
      BY <1>0, FoundExist
    <2> HIDE DEF r
    <2>2. q \in Account!Request /\ q.user = u /\ q.telegram = g
      BY <1>1, <2>1 DEF Account!Request
    <2> HIDE DEF q
    <2>3. Account!Arrive(t, "fill", q)
      BY <1>3 DEF q
    <2>4. QED
      BY <1>0, <1>3, <2>1, <2>2, <2>3, AccountArrives
  <1>4. QED
    BY <1>2, <1>3 DEF Account!BeginTelegramLogin

LEMMA AccountFindHolder ==
  ASSUME Account!IInv, NEW t \in Txns, Account!FindHolder(t)
  PROVE  Account!IInv'
  <1>1. PICK r : r = userReq[t]
    OBVIOUS
  <1>2. /\ userPc[t] = "holder" /\ Account!RequestOK(t) /\ r \in Account!Request
        /\ r.user = Null /\ r.telegram # Null
    BY <1>1 DEF Account!FindHolder, Account!IInv, Account!TypeOK, Account!ControlOK,
                Account!RequestOK
  <1>3. CASE Account!Refuse(t)
    BY <1>3, AccountRefuses
  <1>4. ASSUME NEW q, q \in {r, [r EXCEPT !.phone = Null]}, Account!Continue(t, "create", q)
        PROVE  Account!IInv'
    <2>1. q \in Account!Request /\ q.user = Null /\ q.telegram # Null
      BY <1>2, <1>4 DEF Account!Request
    <2>2. userPc'[t] = "create" /\ userReq'[t] = q /\ user' = user
      BY <1>4, ContinuesTo
    <2>3. Account!RequestOK(t)' /\ ~Account!ClaimsPhone(t)' /\ ~Account!ClaimsTelegram(t)'
      BY <2>1, <2>2 DEF Account!RequestOK, Account!ClaimsPhone, Account!ClaimsTelegram
    <2>4. QED
      BY <1>1, <1>2, <1>4, <2>1, <2>3, AccountContinues
  <1>5. ASSUME NEW u \in Account!ByPhone(r.phone), Account!MayAuthenticate(user[u].status),
               Account!Continue(t, "link", [r EXCEPT !.user = u, !.status = user[u].status])
        PROVE  Account!IInv'
    <2> DEFINE q == [r EXCEPT !.user = u, !.status = user[u].status]
    <2>1. u \in Users /\ Account!Exists(u)
      <3>1. r.phone # Null
        BY DEF Account!ByPhone
      <3>2. QED
        BY <3>1, FoundExist
    <2>2. user[u] \in Account!Row /\ user[u].status \in Account!Statuses
      BY <2>1 DEF Account!IInv, Account!TypeOK, Account!Row, Account!Exists
    <2>3. /\ q \in Account!Request /\ q.user = u /\ q.status = user[u].status
          /\ q.telegram = r.telegram
      BY <1>2, <2>1, <2>2 DEF Account!Request
    <2> HIDE DEF q
    <2>4. Account!Continue(t, "link", q)
      BY <1>5 DEF q
    <2>5. userPc'[t] = "link" /\ userReq'[t] = q /\ user' = user
      BY <2>4, ContinuesTo
    <2>6. Account!RequestOK(t)' /\ ~Account!ClaimsPhone(t)' /\ ~Account!ClaimsTelegram(t)'
      BY <1>2, <2>1, <2>2, <2>3, <2>5 DEF Account!RequestOK, Account!ClaimsPhone,
                                         Account!ClaimsTelegram, Account!Exists
    <2>7. QED
      BY <1>2, <1>5, <2>3, <2>4, <2>6, AccountContinues
  <1>6. QED
    BY <1>1, <1>3, <1>4, <1>5 DEF Account!FindHolder

\* The insert and the two updates that may set a credential: nobody has it, and nobody
\* else is about to.
LEMMA AccountCreate ==
  ASSUME Account!IInv, NEW t \in Txns, Account!Create(t)
  PROVE  Account!IInv'
  <1>1. PICK r : r = userReq[t]
    OBVIOUS
  <1>2. /\ userPc[t] = "create" /\ Account!RequestOK(t) /\ r \in Account!Request
        /\ Account!Pending(t) = {}
        /\ r.phone # Null \/ r.telegram # Null
    BY <1>1 DEF Account!Create, Account!IInv, Account!TypeOK, Account!ControlOK,
                Account!RequestOK
  <1>3. CASE Account!Refuse(t)
    BY <1>3, AccountRefuses
  <1>4. ASSUME NEW u \in Users, ~Account!Exists(u),
               Account!ByPhone(r.phone) \cup Account!ByTelegram(r.telegram) = {},
               \A v \in Txns : ~(userPc[v] = "commitCreate" /\ userReq[v].user = u),
               Account!Continue(t, "commitCreate", [r EXCEPT !.user = u])
        PROVE  Account!IInv'
    <2> DEFINE q == [r EXCEPT !.user = u]
    <2>1. /\ q \in Account!Request /\ q.user = u /\ q.phone = r.phone
          /\ q.telegram = r.telegram
      BY <1>2 DEF Account!Request
    <2> HIDE DEF q
    <2>2. Account!Continue(t, "commitCreate", q)
      BY <1>4 DEF q
    <2>3. userPc'[t] = "commitCreate" /\ userReq'[t] = q /\ user' = user
      BY <2>2, ContinuesTo
    <2>4. Account!RequestOK(t)'
      BY <1>2, <1>4, <2>1, <2>3 DEF Account!RequestOK, Account!Exists
    <2>5. \A v \in Txns : v # t =>
            /\ Account!ClaimsPhone(v) => ~Account!Shares(r.phone, userReq[v].phone)
            /\ Account!ClaimsTelegram(v) => ~Account!Shares(r.telegram, userReq[v].telegram)
      BY <1>1, <1>2 DEF Account!Pending, Account!Shares, Account!ClaimsPhone,
                        Account!ClaimsTelegram
    <2>6. Account!MayAuthenticate(user[u].status)
      BY <1>4 DEF Account!Exists, Account!MayAuthenticate, Account!NoStatus
    <2>7. /\ Account!ByPhone(q.phone) = {} /\ Account!ByTelegram(q.telegram) = {}
          /\ \A v \in Txns : v # t /\ Account!ClaimsPhone(v) =>
               ~Account!Shares(q.phone, userReq[v].phone)
          /\ \A v \in Txns : v # t /\ Account!ClaimsTelegram(v) =>
               ~Account!Shares(q.telegram, userReq[v].telegram)
          /\ \A v \in Txns : v # t /\ userPc[v] = "commitCreate" => userReq[v].user # q.user
          /\ Account!MayAuthenticate(user[q.user].status)
      BY <1>4, <2>1, <2>5, <2>6
    <2>8. QED
      BY <1>2, <2>1, <2>2, <2>4, <2>7, AccountContinues
  <1>5. QED
    BY <1>1, <1>3, <1>4 DEF Account!Create

LEMMA AccountFill ==
  ASSUME Account!IInv, NEW t \in Txns, Account!Fill(t)
  PROVE  Account!IInv'
  <1>1. PICK r : r = userReq[t]
    OBVIOUS
  <1>2. /\ userPc[t] = "fill" /\ Account!RequestOK(t) /\ r \in Account!Request
        /\ r.user \in Users /\ user[r.user] \in Account!Row
    BY <1>1 DEF Account!Fill, Account!IInv, Account!TypeOK, Account!ControlOK,
                Account!RequestOK
  <1>3. CASE Account!Refuse(t)
    BY <1>3, AccountRefuses
  <1>4. CASE Account!Continue(t, "commitFill", r) /\ ~Account!Refuse(t)
    <2>1. userPc'[t] = "commitFill" /\ userReq'[t] = r /\ user' = user
      BY <1>4, ContinuesTo
    <2>2. Account!RequestOK(t)'
      BY <1>1, <1>2, <2>1 DEF Account!RequestOK, Account!Exists
    <2>3. user[r.user].phone = Null =>
            Account!Filled(user[r.user], r.phone).phone = r.phone
      BY <1>2 DEF Account!Filled, Account!Row
    <2>4. Account!ClaimsPhone(t)' =>
            /\ Account!ByPhone(r.phone) = {}
            /\ r.phone # Null => Account!Pending(t) = {}
      <3>1. Account!ClaimsPhone(t)' => user[r.user].phone = Null
        BY <2>1 DEF Account!ClaimsPhone
      <3>2. CASE r.phone = Null
        BY <3>2 DEF Account!ByPhone
      <3>3. CASE r.phone # Null
        BY <1>1, <1>4, <2>3, <3>1, <3>3 DEF Account!Fill
      <3>4. QED
        BY <3>2, <3>3
    <2>5. Account!ClaimsPhone(t)' =>
            /\ Account!ByPhone(r.phone) = {}
            /\ \A v \in Txns : v # t /\ Account!ClaimsPhone(v) =>
                 ~Account!Shares(r.phone, userReq[v].phone)
      BY <1>1, <2>4 DEF Account!Pending, Account!Shares, Account!ClaimsPhone
    <2>6. ~Account!ClaimsTelegram(t)'
      BY <2>1 DEF Account!ClaimsTelegram
    <2>7. QED
      BY <1>1, <1>2, <1>4, <2>2, <2>5, <2>6, AccountContinues
  <1>5. QED
    BY <1>1, <1>3, <1>4 DEF Account!Fill

LEMMA AccountLink ==
  ASSUME Account!IInv, NEW t \in Txns, Account!Link(t)
  PROVE  Account!IInv'
  <1>1. PICK r : r = userReq[t]
    OBVIOUS
  <1>2. /\ userPc[t] = "link" /\ Account!RequestOK(t) /\ r \in Account!Request
        /\ r.user \in Users /\ r.telegram # Null
    BY <1>1 DEF Account!Link, Account!IInv, Account!TypeOK, Account!ControlOK,
                Account!RequestOK
  <1>3. CASE Account!Refuse(t)
    BY <1>3, AccountRefuses
  <1>4. CASE Account!Continue(t, "commitLink", r) /\ Account!ByTelegram(r.telegram) = {}
    <2>1. userPc'[t] = "commitLink" /\ userReq'[t] = r /\ user' = user
      BY <1>4, ContinuesTo
    <2>2. Account!RequestOK(t)'
      BY <1>1, <1>2, <2>1 DEF Account!RequestOK, Account!Exists
    <2>3. ~Account!ClaimsPhone(t)'
      BY <2>1 DEF Account!ClaimsPhone
    <2>4. \A u \in Account!Pending(t) : userReq[u].telegram # r.telegram
      BY <1>1 DEF Account!Link
    <2>5. \A v \in Txns : v # t /\ Account!ClaimsTelegram(v) =>
            ~Account!Shares(r.telegram, userReq[v].telegram)
      BY <1>1, <2>4 DEF Account!Pending, Account!Shares, Account!ClaimsTelegram
    <2>6. QED
      BY <1>1, <1>2, <1>4, <2>2, <2>3, <2>5, AccountContinues
  <1>5. QED
    BY <1>1, <1>3, <1>4 DEF Account!Link

\* The two handlers behind AccountStatusGuard; who may change something may sign in.
LEMMA AccountBeginManaging ==
  ASSUME Account!IInv, NEW t \in Txns, NEW k \in token,
         \/ \E roles \in SUBSET Roles : Account!BeginSelectRoles(t, k, roles)
         \/ Account!BeginDeletion(t, k)
  PROVE  Account!IInv'
  <1>1. PICK u : u = k.user
    OBVIOUS
  <1>2. u \in Users /\ Account!Exists(u)
    BY <1>1 DEF Account!IInv, Account!TypeOK, Account!Token, Account!ControlOK,
                Account!SignedInExist
  <1>3. Account!MayMutate(user[u].status) => Account!MayAuthenticate(user[u].status)
    BY DEF Account!MayMutate, Account!MayAuthenticate
  <1>4. ASSUME NEW roles \in SUBSET Roles, Account!BeginSelectRoles(t, k, roles)
        PROVE  Account!IInv'
    <2> DEFINE r == [Account!NoRequest EXCEPT !.user = u, !.roles = roles]
    <2>1. r \in Account!Request /\ r.user = u
      BY <1>2 DEF Account!NoRequest, Account!Request
    <2> HIDE DEF r
    <2>2. Account!Arrive(t, "select", r) /\ Account!MayMutate(user[u].status)
      BY <1>1, <1>4 DEF Account!BeginSelectRoles, r
    <2>3. QED
      BY <1>2, <1>3, <2>1, <2>2, AccountArrives
  <1>5. CASE Account!BeginDeletion(t, k)
    <2> DEFINE r == [Account!NoRequest EXCEPT !.user = u]
    <2>1. r \in Account!Request /\ r.user = u
      BY <1>2 DEF Account!NoRequest, Account!Request
    <2> HIDE DEF r
    <2>2. Account!Arrive(t, "read", r) /\ Account!MayMutate(user[u].status)
      BY <1>1, <1>5 DEF Account!BeginDeletion, r
    <2>3. QED
      BY <1>2, <1>3, <2>1, <2>2, AccountArrives
  <1>6. QED
    BY <1>4, <1>5

LEMMA AccountReadStatus ==
  ASSUME Account!IInv, NEW t \in Txns, Account!ReadStatus(t)
  PROVE  Account!IInv'
  <1>1. PICK r, s : r = userReq[t] /\ s = user[r.user].status
    OBVIOUS
  <1> DEFINE q == [r EXCEPT !.status = s]
  <1>2. /\ userPc[t] = "read" /\ Account!RequestOK(t) /\ r \in Account!Request
        /\ r.user \in Users /\ Account!Exists(r.user)
    BY <1>1 DEF Account!ReadStatus, Account!IInv, Account!TypeOK, Account!ControlOK,
                Account!RequestOK
  <1>3. s \in Account!Statuses
    BY <1>1, <1>2 DEF Account!IInv, Account!TypeOK, Account!Row, Account!Exists
  <1>4. q \in Account!Request /\ q.user = r.user /\ q.status = s
    BY <1>2, <1>3 DEF Account!Request
  <1> HIDE DEF q
  <1>5. Account!Continue(t, "delete", q)
    BY <1>1 DEF Account!ReadStatus, q
  <1>6. userPc'[t] = "delete" /\ userReq'[t] = q /\ user' = user
    BY <1>5, ContinuesTo
  <1>7. Account!RequestOK(t)' /\ ~Account!ClaimsPhone(t)' /\ ~Account!ClaimsTelegram(t)'
    BY <1>2, <1>3, <1>4, <1>6 DEF Account!RequestOK, Account!ClaimsPhone,
                                  Account!ClaimsTelegram, Account!Exists
  <1>8. QED
    BY <1>1, <1>2, <1>4, <1>5, <1>7, AccountContinues

LEMMA AccountDelete ==
  ASSUME Account!IInv, NEW t \in Txns, Account!Delete(t)
  PROVE  Account!IInv'
  <1>1. PICK r : r = userReq[t]
    OBVIOUS
  <1>2. userPc[t] = "delete" /\ Account!RequestOK(t) /\ r \in Account!Request
    BY <1>1 DEF Account!Delete, Account!IInv, Account!TypeOK, Account!ControlOK
  <1>3. Account!Continue(t, "commitDelete", r)
    BY <1>1 DEF Account!Delete
  <1>4. userPc'[t] = "commitDelete" /\ userReq'[t] = r /\ user' = user
    BY <1>3, ContinuesTo
  <1>5. Account!RequestOK(t)' /\ ~Account!ClaimsPhone(t)' /\ ~Account!ClaimsTelegram(t)'
    BY <1>1, <1>2, <1>4 DEF Account!RequestOK, Account!ClaimsPhone, Account!ClaimsTelegram,
                            Account!Exists
  <1>6. QED
    BY <1>1, <1>2, <1>3, <1>5, AccountContinues

\* A row is recorded for one account: the history of the others stays theirs.
LEMMA OneRecorded ==
  ASSUME Account!IInv, NEW o \in Users,
         \A u \in Users : u # o => user'[u] = user[u] /\ history'[u] = history[u],
         Account!Exists(o)', OnRecord(history'[o], user'[o].status)
  PROVE  Account!StatusOnRecord'
  <1>1. ASSUME NEW u \in Users
        PROVE  IF Account!Exists(u)' THEN OnRecord(history'[u], user'[u].status)
               ELSE history'[u] = <<>>
    <2>1. CASE u = o
      BY <2>1 DEF Account!Exists
    <2>2. CASE u # o
      <3>1. IF Account!Exists(u) THEN OnRecord(history[u], user[u].status)
            ELSE history[u] = <<>>
        BY StatusOnRecordIs DEF Account!IInv
      <3>2. QED
        BY <2>2, <3>1 DEF Account!Exists
    <2>3. QED
      BY <2>1, <2>2
  <1>2. QED
    BY <1>1 DEF Account!StatusOnRecord, OnRecord

LEMMA AccountCommitCreate ==
  ASSUME Account!IInv, NEW t \in Txns, Account!CommitCreate(t)
  PROVE  Account!IInv'
  <1>1. PICK r, o : r = userReq[t] /\ o = r.user
    OBVIOUS
  <1>2. PICK row : row = [phone |-> r.phone, telegram |-> r.telegram, status |-> "active",
                          roles |-> {}]
    OBVIOUS
  <1>3. PICK e : e = [from |-> Account!NoStatus, to |-> "active"]
    OBVIOUS
  <1>4. /\ userPc[t] = "commitCreate" /\ user' = [user EXCEPT ![o] = row]
        /\ history' = [history EXCEPT ![o] = Append(history[o], e)]
        /\ userPc' = [userPc EXCEPT ![t] = "issue"]
        /\ UNCHANGED <<deletion, token, userReq, since>>
    BY <1>1, <1>2, <1>3 DEF Account!CommitCreate, Account!Record, Account!Goto
  <1>5. /\ Account!RequestOK(t) /\ r \in Account!Request
        /\ o \in Users /\ ~Account!Exists(o)
        /\ r.phone # Null \/ r.telegram # Null
    BY <1>1, <1>4 DEF Account!IInv, Account!TypeOK, Account!ControlOK, Account!RequestOK
  <1>6. /\ row \in Account!Row /\ row.status = "active"
        /\ row.phone = r.phone /\ row.telegram = r.telegram
    BY <1>2, <1>5 DEF Account!Row, Account!Request, Account!Statuses
  <1>7. user[o].phone = Null /\ user[o].telegram = Null /\ history[o] = <<>>
    BY <1>5 DEF Account!IInv, Account!OneAccountPerCredential, Account!StatusOnRecord
  <1>8. /\ user'[o] = row /\ history'[o] = Append(history[o], e)
        /\ \A u \in Users : u # o => user'[u] = user[u] /\ history'[u] = history[u]
        /\ userPc'[t] = "issue" /\ userReq'[t] = r
        /\ \A v \in Txns : v # t => userPc'[v] = userPc[v] /\ userReq'[v] = userReq[v]
    BY <1>1, <1>4, <1>5 DEF Account!IInv, Account!TypeOK
  <1>9. Account!Exists(o)'
    BY <1>6, <1>8 DEF Account!Exists, Account!NoStatus
  <1>10. Account!TypeOK'
    <2>1. e \in Account!HistoryRow
      BY <1>3 DEF Account!HistoryRow, Account!Statuses
    <2>2. Append(history[o], e) \in Seq(Account!HistoryRow)
      BY <1>5, <2>1, AppendRow DEF Account!IInv, Account!TypeOK
    <2>3. QED
      BY <1>4, <1>6, <2>2 DEF Account!IInv, Account!TypeOK
  <1>11. Account!RequestOK(t)'
    BY <1>5, <1>6, <1>8, <1>9, <1>1 DEF Account!RequestOK
  <1>12. Account!StatusOnRecord'
    <2>1. OnRecord(history'[o], user'[o].status)
      BY <1>3, <1>6, <1>7, <1>8, FirstRecord
    <2>2. QED
      BY <1>5, <1>8, <1>9, <2>1, OneRecorded
  <1>13. Account!ClaimsPhone(t) /\ Account!ClaimsTelegram(t)
    BY <1>4 DEF Account!ClaimsPhone, Account!ClaimsTelegram
  <1>14. QED
    BY <1>1, <1>4, <1>5, <1>6, <1>7, <1>8, <1>9, <1>10, <1>11, <1>12, <1>13, AccountCommits

LEMMA AccountCommitFill ==
  ASSUME Account!IInv, NEW t \in Txns, Account!CommitFill(t)
  PROVE  Account!IInv'
  <1>1. PICK r, o : r = userReq[t] /\ o = r.user
    OBVIOUS
  <1>2. PICK row : row = Account!Filled(user[o], r.phone)
    OBVIOUS
  <1>3. /\ userPc[t] = "commitFill" /\ user' = [user EXCEPT ![o] = row]
        /\ userPc' = [userPc EXCEPT ![t] = "issue"]
        /\ UNCHANGED <<history, deletion, token, userReq, since>>
    BY <1>1, <1>2 DEF Account!CommitFill, Account!Goto
  <1>4. /\ Account!RequestOK(t) /\ r \in Account!Request
        /\ o \in Users /\ Account!Exists(o) /\ r.telegram # Null
        /\ user[o] \in Account!Row
    BY <1>1, <1>3 DEF Account!IInv, Account!TypeOK, Account!ControlOK, Account!RequestOK
  <1>5. /\ row \in Account!Row /\ row.status = user[o].status
        /\ row.telegram = user[o].telegram
        /\ user[o].phone # Null => row.phone = user[o].phone
        /\ user[o].phone = Null => row.phone = r.phone
    BY <1>2, <1>4 DEF Account!Filled, Account!Row, Account!Request
  <1>6. /\ user'[o] = row
        /\ \A u \in Users : u # o => user'[u] = user[u] /\ history'[u] = history[u]
        /\ userPc'[t] = "issue" /\ userReq'[t] = r
        /\ \A v \in Txns : v # t => userPc'[v] = userPc[v] /\ userReq'[v] = userReq[v]
    BY <1>1, <1>3, <1>4 DEF Account!IInv, Account!TypeOK
  <1>7. Account!Exists(o)'
    BY <1>4, <1>5, <1>6 DEF Account!Exists
  <1>8. Account!TypeOK'
    BY <1>3, <1>5 DEF Account!IInv, Account!TypeOK
  <1>9. Account!RequestOK(t)'
    BY <1>1, <1>4, <1>6, <1>7 DEF Account!RequestOK
  <1>10. Account!StatusOnRecord'
    <2>1. OnRecord(history[o], user[o].status)
      BY <1>4, StatusOnRecordIs DEF Account!IInv
    <2>2. QED
      BY <1>3, <1>4, <1>5, <1>6, <1>7, <2>1, OneRecorded
  <1>11. user[o].phone = Null => Account!ClaimsPhone(t)
    BY <1>1, <1>3 DEF Account!ClaimsPhone
  <1>12. user[o].phone # Null \/ user[o].telegram # Null
    BY <1>4 DEF Account!IInv, Account!OneAccountPerCredential
  <1>13. QED
    BY <1>1, <1>3, <1>4, <1>5, <1>6, <1>7, <1>8, <1>9, <1>10, <1>11, <1>12, AccountCommits

LEMMA AccountCommitLink ==
  ASSUME Account!IInv, NEW t \in Txns, Account!CommitLink(t)
  PROVE  Account!IInv'
  <1>1. PICK r, o : r = userReq[t] /\ o = r.user
    OBVIOUS
  <1>2. PICK row, e : /\ row = [user[o] EXCEPT !.telegram = r.telegram]
                      /\ e = [from |-> r.status, to |-> r.status]
    OBVIOUS
  <1>3. /\ userPc[t] = "commitLink" /\ user' = [user EXCEPT ![o] = row]
        /\ history' = [history EXCEPT ![o] = Append(history[o], e)]
        /\ userPc' = [userPc EXCEPT ![t] = "issue"]
        /\ UNCHANGED <<deletion, token, userReq, since>>
    BY <1>1, <1>2 DEF Account!CommitLink, Account!Record, Account!Goto
  <1>4. /\ Account!RequestOK(t) /\ r \in Account!Request
        /\ o \in Users /\ Account!Exists(o) /\ r.telegram # Null
        /\ r.status \in Account!Statuses /\ user[o] \in Account!Row
    BY <1>1, <1>3 DEF Account!IInv, Account!TypeOK, Account!ControlOK, Account!RequestOK
  <1>5. /\ row \in Account!Row /\ row.status = user[o].status
        /\ row.telegram = r.telegram /\ row.phone = user[o].phone
    BY <1>2, <1>4 DEF Account!Row, Account!Request
  <1>6. /\ user'[o] = row /\ history'[o] = Append(history[o], e)
        /\ \A u \in Users : u # o => user'[u] = user[u] /\ history'[u] = history[u]
        /\ userPc'[t] = "issue" /\ userReq'[t] = r
        /\ \A v \in Txns : v # t => userPc'[v] = userPc[v] /\ userReq'[v] = userReq[v]
    BY <1>1, <1>3, <1>4 DEF Account!IInv, Account!TypeOK
  <1>7. Account!Exists(o)'
    BY <1>4, <1>5, <1>6 DEF Account!Exists
  <1>8. e \in Account!HistoryRow /\ e.from = e.to
    BY <1>2, <1>4 DEF Account!HistoryRow
  <1>9. history[o] \in Seq(Account!HistoryRow)
    BY <1>4 DEF Account!IInv, Account!TypeOK
  <1>10. Account!TypeOK'
    <2>1. Append(history[o], e) \in Seq(Account!HistoryRow)
      BY <1>8, <1>9, AppendRow
    <2>2. QED
      BY <1>3, <1>5, <2>1 DEF Account!IInv, Account!TypeOK
  <1>11. Account!RequestOK(t)'
    BY <1>1, <1>4, <1>6, <1>7 DEF Account!RequestOK
  <1>12. Account!StatusOnRecord'
    <2>1. OnRecord(history[o], user[o].status)
      BY <1>4, StatusOnRecordIs DEF Account!IInv
    <2>2. OnRecord(history'[o], user'[o].status)
      BY <1>5, <1>6, <1>8, <1>9, <2>1, RecordGrows
    <2>3. QED
      BY <1>4, <1>6, <1>7, <2>2, OneRecorded
  <1>13. Account!ClaimsTelegram(t)
    BY <1>3 DEF Account!ClaimsTelegram
  <1>14. QED
    BY <1>1, <1>3, <1>4, <1>5, <1>6, <1>7, <1>10, <1>11, <1>12, <1>13, AccountCommits

\* The token shows the phone the request logged in with, which is the account's.
LEMMA AccountIssue ==
  ASSUME Account!IInv, NEW t \in Txns, Account!Issue(t)
  PROVE  Account!IInv'
  <1>1. PICK r, o : r = userReq[t] /\ o = r.user
    OBVIOUS
  <1>2. PICK k : k = [user |-> o, roles |-> user[o].roles,
                      active |-> Account!DefaultActiveRole(user[o].roles),
                      phone |-> IF r.telegram = Null THEN r.phone ELSE Null]
    OBVIOUS
  <1>3. /\ userPc[t] = "issue" /\ token' = token \cup {k}
        /\ userPc' = [userPc EXCEPT ![t] = "idle"]
        /\ userReq' = [userReq EXCEPT ![t] = Account!NoRequest]
        /\ UNCHANGED <<user, history, deletion, since>>
    BY <1>1, <1>2 DEF Account!Issue, Account!Finish, Account!Goto
  <1>4. /\ Account!RequestOK(t) /\ r \in Account!Request
        /\ o \in Users /\ Account!Exists(o) /\ user[o] \in Account!Row
    BY <1>1, <1>3 DEF Account!IInv, Account!TypeOK, Account!ControlOK, Account!RequestOK
  <1>5. Account!DefaultActiveRole(user[o].roles) \in Roles \cup {Null}
    BY <1>4 DEF Account!DefaultActiveRole, Account!Row
  <1>6. /\ k \in Account!Token /\ k.user = o
        /\ k.phone # Null => user[o].phone = k.phone
    <2>1. k.user = o /\ k.phone = IF r.telegram = Null THEN r.phone ELSE Null
      BY <1>2
    <2>2. r.phone \in Phones \cup {Null} /\ user[o].roles \in SUBSET Roles
      BY <1>4 DEF Account!Request, Account!Row
    <2>3. k \in Account!Token
      BY <1>2, <1>4, <1>5, <2>2 DEF Account!Token
    <2>4. QED
      BY <1>1, <1>3, <1>4, <2>1, <2>3 DEF Account!RequestOK
  <1>7. Account!TypeOK'
    <2>1. Account!NoRequest \in Account!Request
      BY DEF Account!NoRequest, Account!Request
    <2>2. QED
      BY <1>3, <1>6, <2>1 DEF Account!IInv, Account!TypeOK
  <1>8. /\ userPc'[t] = "idle" /\ userReq'[t] = Account!NoRequest /\ userReq'[t].user = Null
        /\ \A v \in Txns : v # t => userPc'[v] = userPc[v] /\ userReq'[v] = userReq[v]
    BY <1>3 DEF Account!IInv, Account!TypeOK, Account!NoRequest
  <1>9. Account!RequestOK(t)' /\ Account!Exists(o)'
    BY <1>3, <1>4, <1>8 DEF Account!RequestOK, Account!Exists
  <1>10. Account!StatusOnRecord'
    BY <1>3 DEF Account!IInv, Account!StatusOnRecord, Account!Exists
  <1>11. user[o].phone # Null \/ user[o].telegram # Null
    BY <1>4 DEF Account!IInv, Account!OneAccountPerCredential
  <1>12. QED
    BY <1>1, <1>3, <1>4, <1>6, <1>7, <1>8, <1>9, <1>10, <1>11, AccountCommits

LEMMA AccountSelectRoles ==
  ASSUME Account!IInv, NEW t \in Txns, Account!SelectRoles(t)
  PROVE  Account!IInv'
  <1>1. PICK r, o : r = userReq[t] /\ o = r.user
    OBVIOUS
  <1>2. PICK row : row = [user[o] EXCEPT !.roles = @ \cup r.roles]
    OBVIOUS
  <1>3. /\ userPc[t] = "select" /\ user' = [user EXCEPT ![o] = row]
        /\ userPc' = [userPc EXCEPT ![t] = "idle"]
        /\ userReq' = [userReq EXCEPT ![t] = Account!NoRequest]
        /\ UNCHANGED <<history, deletion, token, since>>
    BY <1>1, <1>2 DEF Account!SelectRoles, Account!Finish, Account!Goto
  <1>4. /\ Account!RequestOK(t) /\ r \in Account!Request
        /\ o \in Users /\ Account!Exists(o) /\ user[o] \in Account!Row
    BY <1>1, <1>3 DEF Account!IInv, Account!TypeOK, Account!ControlOK, Account!RequestOK
  <1>5. /\ row \in Account!Row /\ row.status = user[o].status
        /\ row.telegram = user[o].telegram /\ row.phone = user[o].phone
    BY <1>2, <1>4 DEF Account!Row, Account!Request
  <1>6. Account!NoRequest \in Account!Request /\ Account!NoRequest.user = Null
    BY DEF Account!NoRequest, Account!Request
  <1>7. /\ user'[o] = row
        /\ \A u \in Users : u # o => user'[u] = user[u] /\ history'[u] = history[u]
        /\ userPc'[t] = "idle" /\ userReq'[t] = Account!NoRequest
        /\ \A v \in Txns : v # t => userPc'[v] = userPc[v] /\ userReq'[v] = userReq[v]
    BY <1>3, <1>4 DEF Account!IInv, Account!TypeOK
  <1>8. Account!RequestOK(t)' /\ Account!Exists(o)'
    BY <1>4, <1>5, <1>7 DEF Account!RequestOK, Account!Exists
  <1>9. Account!TypeOK'
    BY <1>3, <1>5, <1>6 DEF Account!IInv, Account!TypeOK
  <1>10. Account!StatusOnRecord'
    <2>1. OnRecord(history[o], user[o].status)
      BY <1>4, StatusOnRecordIs DEF Account!IInv
    <2>2. QED
      BY <1>3, <1>4, <1>5, <1>7, <1>8, <2>1, OneRecorded
  <1>11. user[o].phone # Null \/ user[o].telegram # Null
    BY <1>4 DEF Account!IInv, Account!OneAccountPerCredential
  <1>12. QED
    BY <1>1, <1>3, <1>4, <1>5, <1>6, <1>7, <1>8, <1>9, <1>10, <1>11, AccountCommits

LEMMA AccountCommitDelete ==
  ASSUME Account!IInv, NEW t \in Txns, Account!CommitDelete(t)
  PROVE  Account!IInv'
  <1>1. PICK r, o : r = userReq[t] /\ o = r.user
    OBVIOUS
  <1>2. PICK row, e : /\ row = [user[o] EXCEPT !.status = "deletion_requested"]
                      /\ e = [from |-> r.status, to |-> "deletion_requested"]
    OBVIOUS
  <1>3. /\ userPc[t] = "commitDelete"
        /\ \/ /\ r.status # "deletion_requested" /\ user' = [user EXCEPT ![o] = row]
              /\ history' = [history EXCEPT ![o] = Append(history[o], e)]
           \/ user' = user /\ history' = history
        /\ deletion' = deletion \cup {o}
        /\ userPc' = [userPc EXCEPT ![t] = "idle"]
        /\ userReq' = [userReq EXCEPT ![t] = Account!NoRequest]
        /\ UNCHANGED <<token, since>>
    BY <1>1, <1>2 DEF Account!CommitDelete, Account!Record, Account!Finish, Account!Goto
  <1>4. /\ Account!RequestOK(t) /\ r \in Account!Request
        /\ o \in Users /\ Account!Exists(o) /\ user[o] \in Account!Row
        /\ r.status \in Account!Statuses /\ history[o] \in Seq(Account!HistoryRow)
    BY <1>1, <1>3 DEF Account!IInv, Account!TypeOK, Account!ControlOK, Account!RequestOK
  <1>5. /\ row \in Account!Row /\ row.status = "deletion_requested"
        /\ row.telegram = user[o].telegram /\ row.phone = user[o].phone
    BY <1>2, <1>4 DEF Account!Row, Account!Statuses
  <1>6. /\ e \in Account!HistoryRow /\ e.from = r.status /\ e.to = "deletion_requested"
        /\ Append(history[o], e) \in Seq(Account!HistoryRow)
    <2>1. e \in Account!HistoryRow /\ e.from = r.status /\ e.to = "deletion_requested"
      BY <1>2, <1>4 DEF Account!HistoryRow, Account!Statuses
    <2>2. QED
      BY <1>4, <2>1, AppendRow
  <1>7. Account!NoRequest \in Account!Request /\ Account!NoRequest.user = Null
    BY DEF Account!NoRequest, Account!Request
  <1>8. /\ \A u \in Users : u # o => user'[u] = user[u] /\ history'[u] = history[u]
        /\ userPc'[t] = "idle" /\ userReq'[t] = Account!NoRequest
        /\ \A v \in Txns : v # t => userPc'[v] = userPc[v] /\ userReq'[v] = userReq[v]
        /\ \/ /\ user'[o] = row /\ history'[o] = Append(history[o], e)
              /\ r.status # "deletion_requested"
           \/ user'[o] = user[o] /\ history'[o] = history[o]
    BY <1>3, <1>4 DEF Account!IInv, Account!TypeOK
  <1>9. /\ user'[o].phone = user[o].phone /\ user'[o].telegram = user[o].telegram
        /\ user'[o].status \in {user[o].status, "deletion_requested"}
    BY <1>5, <1>8
  <1>10. Account!RequestOK(t)' /\ Account!Exists(o)'
    BY <1>4, <1>8, <1>9 DEF Account!RequestOK, Account!Exists, Account!NoStatus
  <1>11. Account!TypeOK'
    <2>1. user' \in [Users -> Account!Row] /\ history' \in [Users -> Seq(Account!HistoryRow)]
      BY <1>3, <1>5, <1>6 DEF Account!IInv, Account!TypeOK
    <2>2. QED
      BY <1>3, <1>4, <1>7, <2>1 DEF Account!IInv, Account!TypeOK
  <1>12. Account!StatusOnRecord'
    <2>1. OnRecord(history[o], user[o].status)
      BY <1>4, StatusOnRecordIs DEF Account!IInv
    <2>2. r.status # "deletion_requested" =>
            OnRecord(Append(history[o], e), "deletion_requested")
      BY <1>4, <1>6, <2>1, RecordGrows
    <2>3. OnRecord(history'[o], user'[o].status)
      BY <1>5, <1>8, <2>1, <2>2
    <2>4. QED
      BY <1>4, <1>8, <1>10, <2>3, OneRecorded
  <1>13. user[o].phone # Null \/ user[o].telegram # Null
    BY <1>4 DEF Account!IInv, Account!OneAccountPerCredential
  <1>14. QED
    BY <1>1, <1>3, <1>4, <1>7, <1>8, <1>9, <1>10, <1>11, <1>12, <1>13, AccountCommits

\* refresh and switchActiveRole sign again what a token says of its account, with the
\* roles the account has by now.
LEMMA AccountSigns ==
  ASSUME Account!IInv, Account!Signing
  PROVE  Account!IInv'
  <1>1. PICK k \in token :
          Account!Refresh(k) \/ \E role \in Roles : Account!SwitchActiveRole(k, role)
    BY DEF Account!Signing
  <1>2. /\ k \in Account!Token /\ k.user \in Users /\ Account!Exists(k.user)
        /\ k.phone # Null => user[k.user].phone = k.phone
        /\ user[k.user] \in Account!Row
    BY DEF Account!IInv, Account!TypeOK, Account!Token, Account!ControlOK,
           Account!SignedInExist, Account!TokenMatchesPhone
  <1>3. user[k.user].roles \in SUBSET Roles
    BY <1>2 DEF Account!Row
  <1>4. Account!DefaultActiveRole(user[k.user].roles) \in Roles \cup {Null}
    BY <1>3 DEF Account!DefaultActiveRole
  <1>5. PICK a \in Roles \cup {Null} :
          /\ token' = token \cup {[k EXCEPT !.roles = user[k.user].roles, !.active = a]}
          /\ UNCHANGED <<user, history, deletion, since, userPc, userReq>>
    BY <1>1, <1>4 DEF Account!Refresh, Account!SwitchActiveRole
  <1>6. PICK n : n = [k EXCEPT !.roles = user[k.user].roles, !.active = a]
    OBVIOUS
  <1>7. n \in Account!Token /\ n.user = k.user /\ n.phone = k.phone
    BY <1>2, <1>3, <1>6 DEF Account!Token
  <1>8. token' = token \cup {n}
    BY <1>5, <1>6
  <1>9. Account!TypeOK' /\ (\A t \in Txns : Account!RequestOK(t)')
    BY <1>5, <1>7, <1>8 DEF Account!IInv, Account!TypeOK, Account!ControlOK,
                            Account!RequestOK, Account!Exists
  <1>10. Account!IndexesOK' /\ Account!GuardsOK'
    BY <1>5 DEF Account!IInv, Account!ControlOK, Account!IndexesOK, Account!GuardsOK,
                Account!ClaimsPhone, Account!ClaimsTelegram, Account!ByPhone,
                Account!ByTelegram
  <1>11. Account!SignedInExist' /\ Account!TokenMatchesPhone'
    BY <1>2, <1>5, <1>7, <1>8 DEF Account!IInv, Account!ControlOK, Account!SignedInExist,
                                  Account!TokenMatchesPhone, Account!Exists
  <1>12. Account!OneAccountPerCredential' /\ Account!StatusOnRecord'
    BY <1>5 DEF Account!IInv, Account!OneAccountPerCredential, Account!StatusOnRecord,
                Account!Exists
  <1>13. QED
    BY <1>9, <1>10, <1>11, <1>12 DEF Account!IInv, Account!ControlOK

\* The administrator finds every request that carries the account under way.
LEMMA AccountSetStatus ==
  ASSUME Account!IInv, NEW o \in Users, NEW s \in Account!Statuses, Account!SetStatus(o, s)
  PROVE  Account!IInv'
  <1>1. PICK row, e : /\ row = [user[o] EXCEPT !.status = s]
                      /\ e = [from |-> user[o].status, to |-> s]
    OBVIOUS
  <1>2. /\ Account!Exists(o) /\ s # user[o].status
        /\ user' = [user EXCEPT ![o] = row]
        /\ history' = [history EXCEPT ![o] = Append(history[o], e)]
        /\ since' = [since EXCEPT ![o] = {t \in Txns : userPc[t] # "idle"}]
        /\ UNCHANGED <<deletion, token, userPc, userReq>>
    BY <1>1 DEF Account!SetStatus, Account!Record
  <1>3. user[o] \in Account!Row /\ history[o] \in Seq(Account!HistoryRow)
    BY DEF Account!IInv, Account!TypeOK
  <1>4. /\ row \in Account!Row /\ row.status = s /\ row.phone = user[o].phone
        /\ row.telegram = user[o].telegram
    BY <1>1, <1>3 DEF Account!Row
  <1>5. /\ e \in Account!HistoryRow /\ e.from # e.to /\ e.to = s
        /\ Append(history[o], e) \in Seq(Account!HistoryRow)
    <2>1. e \in Account!HistoryRow /\ e.from # e.to /\ e.to = s
      BY <1>1, <1>2, <1>3 DEF Account!HistoryRow, Account!Row
    <2>2. QED
      BY <1>3, <2>1, AppendRow
  <1>6. /\ user'[o] = row /\ history'[o] = Append(history[o], e)
        /\ \A u \in Users : u # o => /\ user'[u] = user[u] /\ history'[u] = history[u]
                                     /\ since'[u] = since[u]
        /\ since'[o] = {t \in Txns : userPc[t] # "idle"}
    BY <1>2 DEF Account!IInv, Account!TypeOK
  <1>7. /\ \A u \in Users : /\ user'[u].phone = user[u].phone
                            /\ user'[u].telegram = user[u].telegram
                            /\ Account!Exists(u)' <=> Account!Exists(u)
        /\ Account!Exists(o)'
    BY <1>2, <1>4, <1>6 DEF Account!Exists, Account!NoStatus, Account!Statuses
  <1>8. Account!TypeOK'
    BY <1>2, <1>4, <1>5 DEF Account!IInv, Account!TypeOK
  <1>9. ASSUME NEW t \in Txns PROVE Account!RequestOK(t)'
    <2>1. Account!RequestOK(t)
      BY DEF Account!IInv, Account!ControlOK
    <2>2. userPc[t] \notin {"idle", "holder", "create"} => userReq[t].user \in Users
      BY <2>1 DEF Account!RequestOK
    <2>3. userPc[t] \notin {"idle", "holder", "create"} =>
            /\ Account!Exists(userReq[t].user)' <=> Account!Exists(userReq[t].user)
            /\ user'[userReq[t].user].phone = user[userReq[t].user].phone
      BY <1>2, <1>7, <2>2 DEF Account!Exists
    <2>4. QED
      BY <1>2, <2>1, <2>2, <2>3 DEF Account!RequestOK, Account!Exists
  <1>10. Account!IndexesOK'
    <2>1. /\ \A c : Account!ByPhone(c)' = Account!ByPhone(c)
          /\ \A g : Account!ByTelegram(g)' = Account!ByTelegram(g)
      BY <1>7 DEF Account!ByPhone, Account!ByTelegram
    <2>2. ASSUME NEW t \in Txns
          PROVE  /\ Account!ClaimsPhone(t)' <=> Account!ClaimsPhone(t)
                 /\ Account!ClaimsTelegram(t)' <=> Account!ClaimsTelegram(t)
      <3>1. userPc[t] = "commitFill" => userReq[t].user \in Users
        BY DEF Account!IInv, Account!ControlOK, Account!RequestOK
      <3>2. QED
        BY <1>2, <1>7, <3>1 DEF Account!ClaimsPhone, Account!ClaimsTelegram
    <2>3. \A t \in Txns :
            /\ Account!ClaimsPhone(t)' => Account!ByPhone(userReq[t].phone)' = {}
            /\ Account!ClaimsTelegram(t)' => Account!ByTelegram(userReq[t].telegram)' = {}
      BY <1>2, <2>1, <2>2 DEF Account!IInv, Account!ControlOK, Account!IndexesOK
    <2>4. QED
      BY <1>2, <2>2, <2>3 DEF Account!IInv, Account!ControlOK, Account!IndexesOK
  <1>11. Account!SignedInExist' /\ Account!TokenMatchesPhone'
    <2>1. \A k \in token : k.user \in Users
      BY DEF Account!IInv, Account!TypeOK, Account!Token
    <2>2. \A k \in token : /\ Account!Exists(k.user)' <=> Account!Exists(k.user)
                           /\ user'[k.user].phone = user[k.user].phone
      BY <1>7, <2>1 DEF Account!Exists
    <2>3. QED
      BY <1>2, <2>2 DEF Account!IInv, Account!ControlOK, Account!SignedInExist,
                        Account!TokenMatchesPhone, Account!Exists
  <1>12. Account!GuardsOK'
    <2> SUFFICES ASSUME NEW t \in Txns, NEW u, u = userReq[t].user, u # Null, t \notin since'[u]
                 PROVE  /\ Account!MayAuthenticate(user'[u].status)
                        /\ userPc[t] \in {"select", "read", "delete", "commitDelete"} =>
                             Account!MayMutate(user'[u].status)
      BY <1>2 DEF Account!GuardsOK
    <2>1. u \in Users
      BY DEF Account!IInv, Account!TypeOK, Account!Request
    <2>2. userPc[t] # "idle"
      BY DEF Account!IInv, Account!ControlOK, Account!RequestOK, Account!NoRequest
    <2>3. u # o
      BY <1>6, <2>2
    <2>4. QED
      BY <1>6, <2>1, <2>3 DEF Account!IInv, Account!ControlOK, Account!GuardsOK
  <1>13. Account!OneAccountPerCredential'
    BY <1>7 DEF Account!IInv, Account!OneAccountPerCredential
  <1>14. Account!StatusOnRecord'
    <2>1. OnRecord(history[o], user[o].status)
      BY <1>2, StatusOnRecordIs DEF Account!IInv
    <2>2. OnRecord(history'[o], user'[o].status)
      BY <1>3, <1>4, <1>5, <1>6, <2>1, RecordGrows
    <2>3. QED
      BY <1>6, <1>7, <2>2, OneRecorded
  <1>15. QED
    BY <1>8, <1>9, <1>10, <1>11, <1>12, <1>13, <1>14 DEF Account!IInv, Account!ControlOK

LEMMA AccountNext ==
  ASSUME Account!IInv,
         \/ \E t \in Txns : Account!LoggingIn(t) \/ Account!Managing(t) \/ Account!Rollback(t)
         \/ Account!Signing
         \/ \E u \in Users, s \in Account!Statuses : Account!SetStatus(u, s)
  PROVE  Account!IInv'
  <1>1. ASSUME NEW t \in Txns, Account!LoggingIn(t) PROVE Account!IInv'
    BY <1>1, AccountBeginTelegramLogin, AccountFindHolder, AccountCreate,
       AccountCommitCreate, AccountFill, AccountCommitFill, AccountLink, AccountCommitLink,
       AccountIssue DEF Account!LoggingIn
  <1>2. ASSUME NEW t \in Txns, Account!Managing(t) PROVE Account!IInv'
    BY <1>2, AccountBeginManaging, AccountSelectRoles, AccountReadStatus, AccountDelete,
       AccountCommitDelete DEF Account!Managing
  <1>3. ASSUME NEW t \in Txns, Account!Rollback(t) PROVE Account!IInv'
    BY <1>3, AccountRefuses DEF Account!Rollback
  <1>4. QED
    BY <1>1, <1>2, <1>3, AccountSigns, AccountSetStatus

--------------------------------------------------------------------------------
(* The services beside each other *)

LEMMA Initially == Init => IInv
  BY OtpInit, LoginsInit, AccountInit, RateInit DEF Init, IInv

LEMMA Step == IInv /\ [Next]_vars => IInv'
  <1> SUFFICES ASSUME IInv, [Next]_vars PROVE IInv'
    OBVIOUS
  <1>0. Otp!IInv /\ LoginsOpened /\ Account!IInv /\ Rate!IInv /\ clock \in Nat
    BY DEF IInv, Otp!IInv, Otp!TypeOK
  <1>1. ASSUME UNCHANGED <<codes, accounts, counters, verified, logins>>, clock' \in Nat
        PROVE  IInv'
    <2>1. Otp!IInv' /\ Account!IInv' /\ Rate!IInv'
      BY <1>0, <1>1, OtpUnchanged, AccountUnchanged, RateUnchanged
    <2>2. LoginsOpened'
      BY <1>0, <1>1, LoginsUnchanged DEF codes
    <2>3. QED
      BY <2>1, <2>2 DEF IInv
  <1>2. CASE Tick
    <2>1. clock' \in Nat /\ UNCHANGED codes
      BY <1>0, <1>2 DEF Tick, Otp!Tick, Otp!table, codes
    <2>2. QED
      BY <1>1, <1>2, <2>1 DEF Tick
  <1>3. CASE Coding
    <2>1. UNCHANGED <<accounts, counters>>
      BY <1>3 DEF Coding
    <2>2. Otp!IInv' /\ LoginsOpened'
      BY <1>0, <1>3, OtpNext, LoginsCoding DEF Coding
    <2>3. QED
      BY <1>0, <2>1, <2>2, AccountUnchanged, RateUnchanged DEF IInv
  <1>4. ASSUME NEW t \in Txns, NEW p \in Dialled, PhoneLogin(t, p) PROVE IInv'
    <2>1. UNCHANGED <<codes, counters, clock>>
      BY <1>4 DEF PhoneLogin
    <2>2. Account!IInv'
      <3>1. p \in Phones
        BY DialledAssumption
      <3>2. QED
        BY <1>0, <1>4, <3>1, AccountBeginPhoneLogin, AccountUnchanged DEF PhoneLogin
    <2>3. Otp!IInv' /\ Rate!IInv'
      BY <1>0, <2>1, OtpUnchanged, RateUnchanged
    <2>4. LoginsOpened'
      BY <1>0, <1>4, LoginsPhoneLogin
    <2>5. QED
      BY <2>2, <2>3, <2>4 DEF IInv
  <1>5. CASE Accounting
    <2>1. UNCHANGED <<codes, counters, verified, logins, clock>>
      BY <1>5 DEF Accounting
    <2>2. Account!IInv'
      BY <1>0, <1>5, AccountNext DEF Accounting
    <2>3. Otp!IInv' /\ Rate!IInv' /\ LoginsOpened'
      BY <1>0, <2>1, OtpUnchanged, RateUnchanged, LoginsUnchanged DEF codes
    <2>4. QED
      BY <2>2, <2>3 DEF IInv
  <1>6. CASE Counting
    <2>1. UNCHANGED <<codes, accounts, verified, logins>>
      BY <1>6 DEF Counting
    <2>2. Rate!IInv' /\ clock' \in Nat
      <3>1. clock' = clock
        BY <1>6 DEF Counting, Rate!Next, Rate!Start, Rate!Consume, Rate!Arrive
      <3>2. QED
        BY <1>0, <1>6, <3>1, RateNext DEF Counting
    <2>3. Otp!IInv' /\ Account!IInv' /\ LoginsOpened'
      BY <1>0, <2>1, <2>2, OtpUnchanged, AccountUnchanged, LoginsUnchanged DEF codes
    <2>4. QED
      BY <2>2, <2>3 DEF IInv
  <1>7. CASE UNCHANGED vars
    BY <1>0, <1>1, <1>7 DEF vars
  <1>8. QED
    BY <1>2, <1>3, <1>4, <1>5, <1>6, <1>7 DEF Next

\* Each service keeps its inductive invariant beside the others.
THEOREM Invariance == Spec => []IInv
  BY Initially, Step, PTL DEF Spec

\* However many requests of a subject arrive at once, and however late their statements
\* start, no window lets more of them through than the limit (RateLimitService).
THEOREM LimitAlwaysHolds == Spec => []LimitHolds
  <1>1. IInv => LimitHolds
    BY DEF IInv, LimitHolds
  <1>2. QED
    BY <1>1, Invariance, PTL

\* A phone has at most one code that can be used, every wrong guess at it is counted,
\* and every login by phone has a consumed code of that phone behind it that no other
\* login has (OtpService, AuthService.verifyOtp).
THEOREM CodesAlwaysHold == Spec => []CodesHold
  <1>1. IInv => CodesHold
    BY LoginsEarned DEF IInv, CodesHold
  <1>2. QED
    BY <1>1, Invariance, PTL

\* A phone and a Telegram account lead to one account each, and a token that shows a
\* phone shows that of its account, whatever registrations race (AuthService).
THEOREM AccountsAlwaysHold == Spec => []AccountsHold
  <1>1. IInv => AccountsHold
    BY DEF IInv, Account!IInv, AccountsHold
  <1>2. QED
    BY <1>1, Invariance, PTL

\* The last change on record names the status the account has (BR-08).
THEOREM StatusAlwaysOnRecord == Spec => []StatusOnRecord
  <1>1. IInv => StatusOnRecord
    BY DEF IInv, Account!IInv, StatusOnRecord
  <1>2. QED
    BY <1>1, Invariance, PTL

\* A step that opens the door with a code finds it live, with guesses left and unused
\* (OtpService.verify).
THEOREM OnlyLiveCodesEverOpen == Spec => OnlyLiveCodesOpen
  <1> DEFINE P == \A c \in Codes : opened'[c] # opened[c] =>
                    ~code[c].consumed /\ wrong[c] < MaxAttempts /\ opened[c] = 0
  <1>1. ASSUME IInv, [Next]_vars PROVE [P]_(Otp!vars)
    <2>0. Otp!IInv
      BY <1>1 DEF IInv
    <2>1. ASSUME NEW t \in Txns,
                 Otp!Sending(t) \/ Otp!Verifying(t) \/ Otp!Rollback(t)
          PROVE  P
      <3>1. opened \in [Codes -> Nat]
        BY <2>0 DEF Otp!IInv, Otp!TypeOK
      <3>2. QED
        BY <2>0, <2>1, <3>1, OtpCodesMove
    <2>2. CASE Coding
      BY <2>1, <2>2 DEF Coding
    <2>3. CASE opened' = opened
      BY <2>3
    <2>4. Coding \/ opened' = opened
      BY <1>1 DEF Next, vars, codes, Tick, PhoneLogin, Accounting, Counting, Otp!Tick,
                  Otp!table
    <2>5. QED
      BY <2>2, <2>3, <2>4
  <1>2. QED
    BY <1>1, Invariance, PTL DEF Spec, OnlyLiveCodesOpen, Otp!OnlyLiveCodesOpen

\* BR-10: a request that writes for a blocked account, or changes something for a
\* restricted one, was under way when the administrator acted (AccountStatusGuard).
THEOREM BlockAlwaysStops == Spec => BlockStopsNewRequests
  <1> DEFINE P == \A t \in Txns :
                    (/\ userPc'[t] # userPc[t] /\ userReq[t].user # Null
                     /\ Account!Barred(t) /\ Account!tables' # Account!tables) =>
                    t \in since[userReq[t].user]
  <1>1. ASSUME IInv PROVE P
    BY <1>1 DEF IInv, Account!IInv, Account!ControlOK, Account!GuardsOK, Account!Barred,
                Account!MayAuthenticate, Account!MayMutate
  <1>2. QED
    BY <1>1, Invariance, PTL DEF Spec, BlockStopsNewRequests, Account!BlockStopsNewRequests

--------------------------------------------------------------------------------
(* Sessions *)

LEMMA NoRequestType == NoRequest \in Request
  BY DEF NoRequest, Request, Reasons

LEMMA InitInv == SessionsInit => SessionsInv
  <1> SUFFICES ASSUME SessionsInit PROVE SessionsInv
    OBVIOUS
  <1> USE UnsetAssumption DEF SessionsInit
  <1>1. TypeOK
    BY NoRequestType DEF TypeOK, Row, NoRow, Reasons
  <1>2. RowsOK
    BY DEF RowsOK, Exists, NoRow
  <1>3. LocksOK
    BY DEF LocksOK, Holders
  <1>4. \A t \in Calls : RequestOK(t)
    BY DEF RequestOK, NoRequest
  <1>5. OneLivePerFamily /\ FamilyIsChain
    BY DEF OneLivePerFamily, FamilyIsChain, Live, Exists, NoRow
  <1>6. QED
    BY <1>1, <1>2, <1>3, <1>4, <1>5 DEF SessionsInv

\* A request that writes no row owes the rest only its own part, a child nobody
\* else has chosen, and locks nobody else holds.
LEMMA StepFrame ==
  ASSUME SessionsInv, NEW t \in Calls, UNCHANGED session, TypeOK', RequestOK(t)',
         \A u \in Calls : u # t => pc'[u] = pc[u] /\ req'[u] = req[u],
         req'[t].child # Unset => \A u \in Calls : u # t => req[u].child # req'[t].child,
         \A s \in Sessions : t \in Holders(s)' => Holders(s) \subseteq {t}
  PROVE  SessionsInv'
  <1>1. RowsOK' /\ OneLivePerFamily' /\ FamilyIsChain'
    BY DEF SessionsInv, RowsOK, OneLivePerFamily, FamilyIsChain, Live, Exists
  <1>2. LocksOK'
    <2>1. \A s \in Sessions : \A u \in Holders(s)' : u # t => u \in Holders(s)
      BY DEF Holders
    <2>2. \A s \in Sessions : Holders(s)' \subseteq Calls
      BY DEF Holders
    <2>3. QED
      BY <2>1, <2>2 DEF SessionsInv, LocksOK
  <1>3. ASSUME NEW u \in Calls, u # t PROVE RequestOK(u)'
    <2>1. RequestOK(u) /\ pc'[u] = pc[u] /\ req'[u] = req[u]
      BY <1>3 DEF SessionsInv
    <2>2. QED
      BY <1>3, <2>1, UnsetAssumption DEF RequestOK, Live, Exists
  <1>4. QED
    BY <1>1, <1>2, <1>3 DEF SessionsInv

\* The end of a request that writes nothing.
LEMMA FinishInv ==
  ASSUME SessionsInv, NEW t \in Calls, Finish(t), UNCHANGED session
  PROVE  SessionsInv'
  <1>1. /\ pc'[t] = "idle" /\ req'[t] = NoRequest
        /\ \A u \in Calls : u # t => pc'[u] = pc[u] /\ req'[u] = req[u]
    BY DEF SessionsInv, TypeOK, Finish
  <1>2. TypeOK'
    BY NoRequestType DEF SessionsInv, TypeOK, Finish
  <1>3. RequestOK(t)'
    BY <1>1 DEF RequestOK, NoRequest
  <1>4. \A s \in Sessions : t \notin Holders(s)'
    BY <1>1 DEF Holders
  <1>5. req'[t].child = Unset
    BY <1>1 DEF NoRequest
  <1>6. QED
    BY <1>1, <1>2, <1>3, <1>4, <1>5, StepFrame

LEMMA ArriveInv ==
  ASSUME SessionsInv, NEW t \in Calls, NEW p \in {"lock", "sweep"}, NEW r \in Request,
         Arrive(t, p, r), r.child = Unset, r.held = {},
         p = "lock" => r.token \in Sessions /\ Exists(r.token),
         p = "sweep" => /\ r.token = Unset /\ r.reason # "rotated"
                        /\ \A s \in r.seen : Exists(s) /\ s \in r.targets
  PROVE  SessionsInv'
  <1>1. /\ pc'[t] = p /\ req'[t] = r
        /\ \A u \in Calls : u # t => pc'[u] = pc[u] /\ req'[u] = req[u]
    BY DEF SessionsInv, TypeOK, Arrive
  <1>2. TypeOK'
    BY CallsAssumption DEF SessionsInv, TypeOK, Arrive
  <1>3. RequestOK(t)'
    BY <1>1 DEF RequestOK, Arrive, Exists, Live
  <1>4. \A s \in Sessions : t \notin Holders(s)'
    BY <1>1, UnsetAssumption DEF Holders
  <1>5. QED
    BY <1>1, <1>2, <1>3, <1>4, StepFrame DEF Arrive

LEMMA BeginInv ==
  ASSUME SessionsInv, NEW t \in Calls,
         \/ \E s \in Sessions : BeginRotate(t, s)
         \/ \E s \in Sessions, reason \in {"logout", "revoked_by_user"} :
              BeginRevokeOne(t, s, reason)
         \/ \E u \in Owners : BeginRevokeAll(t, u)
  PROVE  SessionsInv'
  <1>1. ASSUME NEW s \in Sessions, BeginRotate(t, s) PROVE SessionsInv'
    <2> DEFINE r == [NoRequest EXCEPT !.token = s]
    <2>1. r \in Request /\ r.child = Unset /\ r.held = {} /\ r.token = s
      BY DEF NoRequest, Request, Reasons
    <2>2. QED
      BY <1>1, <2>1, ArriveInv DEF BeginRotate
  <1>2. ASSUME NEW seen \in SUBSET Sessions, NEW reason \in Reasons, reason # "rotated",
               \A s \in seen : Exists(s), Arrive(t, "sweep", Sweep(NoRequest, reason, seen))
        PROVE  SessionsInv'
    <2> DEFINE r == Sweep(NoRequest, reason, seen)
    <2>1. r \in Request /\ r.child = Unset /\ r.held = {} /\ r.token = Unset
          /\ r.reason = reason /\ r.seen = seen /\ r.targets = seen
      BY DEF Sweep, NoRequest, Request, Reasons
    <2> HIDE DEF r
    <2>2. Arrive(t, "sweep", r)
      BY <1>2 DEF r
    <2>3. QED
      BY <1>2, <2>1, <2>2, ArriveInv
  <1>3. ASSUME NEW s \in Sessions, NEW reason \in {"logout", "revoked_by_user"},
               BeginRevokeOne(t, s, reason)
        PROVE  SessionsInv'
    <2>1. {r \in {s} : Live(r)} \subseteq Sessions
          /\ \A r \in {q \in {s} : Live(q)} : Exists(r)
      BY DEF Live
    <2>2. QED
      BY <1>2, <1>3, <2>1 DEF BeginRevokeOne, Reasons
  <1>4. ASSUME NEW u \in Owners, BeginRevokeAll(t, u) PROVE SessionsInv'
    <2>1. LiveOfUser(u) \subseteq Sessions /\ \A s \in LiveOfUser(u) : Exists(s)
      BY DEF LiveOfUser, Live
    <2>2. QED
      BY <1>2, <1>4, <2>1 DEF BeginRevokeAll, Reasons
  <1>5. QED
    BY <1>1, <1>3, <1>4

LEMMA LockTokenInv ==
  ASSUME SessionsInv, NEW t \in Calls, LockToken(t)
  PROVE  SessionsInv'
  <1> DEFINE s == req[t].token
  <1>1. /\ s \in Sessions /\ Exists(s) /\ req[t].held = {} /\ req[t].child = Unset
        /\ req[t] \in Request /\ Holders(s) = {} /\ UNCHANGED session
    BY DEF SessionsInv, TypeOK, LockToken, RequestOK
  <1>2. CASE Finish(t)
    BY <1>1, <1>2, FinishInv
  <1>3. CASE /\ session[s].state # "live"
             /\ pc' = [pc EXCEPT ![t] = "sweep"]
             /\ req' = [req EXCEPT ![t] =
                          Sweep(@, "refresh_token_reuse", LiveOfFamily(session[s].family))]
             /\ UNCHANGED called
    <2> DEFINE seen == LiveOfFamily(session[s].family)
    <2>1. seen \subseteq Sessions /\ \A q \in seen : Exists(q)
      BY DEF LiveOfFamily, Live
    <2>2. /\ pc'[t] = "sweep"
          /\ req'[t] = Sweep(req[t], "refresh_token_reuse", seen)
          /\ \A u \in Calls : u # t => pc'[u] = pc[u] /\ req'[u] = req[u]
      BY <1>3 DEF SessionsInv, TypeOK
    <2> HIDE DEF seen
    <2>3. /\ req'[t] \in Request
          /\ req'[t].child = Unset /\ req'[t].held = {} /\ req'[t].token = s
          /\ req'[t].reason = "refresh_token_reuse"
          /\ req'[t].seen = seen /\ req'[t].targets = seen
      BY <1>1, <2>1, <2>2 DEF Sweep, Request, Reasons
    <2>4. TypeOK'
      BY <1>1, <1>3, <2>2, <2>3 DEF SessionsInv, TypeOK
    <2>5. RequestOK(t)'
      BY <1>1, <2>1, <2>2, <2>3 DEF RequestOK, Exists, Live
    <2>6. \A q \in Sessions : t \in Holders(q)' => q = s
      BY <2>2, <2>3 DEF Holders
    <2>7. QED
      BY <1>1, <2>2, <2>3, <2>4, <2>5, <2>6, StepFrame
  <1>4. ASSUME session[s].state = "live", NEW c \in Sessions, Fresh(c),
               req' = [req EXCEPT ![t].child = c],
               pc' = [pc EXCEPT ![t] = "commitRotate"],
               UNCHANGED called
        PROVE  SessionsInv'
    <2>1. /\ pc'[t] = "commitRotate"
          /\ req'[t] = [req[t] EXCEPT !.child = c]
          /\ \A u \in Calls : u # t => pc'[u] = pc[u] /\ req'[u] = req[u]
      BY <1>4 DEF SessionsInv, TypeOK
    <2>2. /\ req'[t] \in Request
          /\ req'[t].child = c /\ req'[t].held = {} /\ req'[t].token = s
      BY <1>1, <2>1 DEF Request
    <2>3. TypeOK'
      BY <1>1, <1>4, <2>1, <2>2 DEF SessionsInv, TypeOK
    <2>4. RequestOK(t)'
      BY <1>1, <1>4, <2>1, <2>2, UnsetAssumption DEF RequestOK, Exists, Live, Fresh
    <2>5. \A q \in Sessions : t \in Holders(q)' => q = s
      BY <2>1, <2>2 DEF Holders
    <2>6. QED
      BY <1>1, <1>4, <2>1, <2>2, <2>3, <2>4, <2>5, StepFrame DEF Fresh
  <1>5. QED
    BY <1>2, <1>3, <1>4 DEF LockToken

LEMMA TakeRowInv ==
  ASSUME SessionsInv, NEW t \in Calls, NEW s \in Sessions, TakeRow(t, s)
  PROVE  SessionsInv'
  <1> DEFINE held == IF Live(s) THEN req[t].held \cup {s} ELSE req[t].held
  <1>1. /\ pc[t] = "sweep" /\ UNCHANGED <<session, pc, called>>
        /\ req[t] \in Request /\ RequestOK(t) /\ req[t].child = Unset
    BY DEF SessionsInv, TypeOK, TakeRow, RequestOK
  <1>2. /\ req'[t] = [req[t] EXCEPT !.targets = @ \ {s}, !.held = held]
        /\ \A u \in Calls : u # t => req'[u] = req[u]
    BY DEF SessionsInv, TypeOK, TakeRow
  <1>3. held \subseteq Sessions /\ \A q \in held : Live(q)
    BY <1>1 DEF RequestOK, Request
  <1>4. held \subseteq req[t].held \cup {s} /\ (Live(s) => s \in held) /\ req[t].held \subseteq held
    OBVIOUS
  <1> HIDE DEF held
  <1>5. /\ req'[t] \in Request
        /\ req'[t].child = Unset /\ req'[t].held = held /\ req'[t].token = req[t].token
        /\ req'[t].reason = req[t].reason
        /\ req'[t].seen = req[t].seen /\ req'[t].targets = req[t].targets \ {s}
    BY <1>1, <1>2, <1>3 DEF Request
  <1>6. TypeOK'
    BY <1>1, <1>2, <1>5 DEF SessionsInv, TypeOK, TakeRow
  <1>7. RequestOK(t)'
    BY <1>1, <1>3, <1>4, <1>5 DEF RequestOK, Exists, Live
  <1>8. ASSUME NEW q \in Sessions, t \in Holders(q)' PROVE Holders(q) \subseteq {t}
    <2>1. t \in Holders(q) \/ q = s
      BY <1>1, <1>4, <1>5, <1>8 DEF Holders
    <2>2. QED
      BY <2>1 DEF SessionsInv, LocksOK, TakeRow
  <1>9. QED
    BY <1>1, <1>2, <1>5, <1>6, <1>7, <1>8, StepFrame

LEMMA EndSweepInv ==
  ASSUME SessionsInv, NEW t \in Calls, EndSweep(t)
  PROVE  SessionsInv'
  <1>1. /\ pc'[t] = "commitSweep" /\ UNCHANGED <<session, req, called>>
        /\ \A u \in Calls : u # t => pc'[u] = pc[u]
    BY DEF SessionsInv, TypeOK, EndSweep
  <1>2. TypeOK'
    BY <1>1 DEF SessionsInv, TypeOK, EndSweep
  <1>3. RequestOK(t) /\ pc[t] = "sweep" /\ req[t].targets = {}
    BY DEF SessionsInv, EndSweep
  <1>4. RequestOK(t)' /\ req[t].child = Unset
    BY <1>1, <1>3 DEF RequestOK, Exists, Live
  <1>5. \A s \in Sessions : t \in Holders(s)' => t \in Holders(s)
    BY <1>1, <1>3 DEF Holders
  <1>6. \A s \in Sessions : t \in Holders(s)' => Holders(s) \subseteq {t}
    BY <1>5 DEF SessionsInv, LocksOK
  <1>7. QED
    BY <1>1, <1>2, <1>4, <1>6, StepFrame

--------------------------------------------------------------------------------
(* The actions that write rows *)

LEMMA IssueInv ==
  ASSUME SessionsInv, NEW u \in Owners, NEW s \in Sessions, Issue(u, s)
  PROVE  SessionsInv'
  <1>1. /\ session'[s] = [NoRow EXCEPT !.user = u, !.family = s]
        /\ \A r \in Sessions : r # s => session'[r] = session[r]
        /\ UNCHANGED <<pc, req>>
        /\ ~Exists(s) /\ \A t \in Calls : req[t].child # s
    BY DEF SessionsInv, TypeOK, Issue, Fresh
  <1>2. /\ session'[s] \in Row
        /\ session'[s].user = u /\ session'[s].family = s
        /\ session'[s].state = "live" /\ session'[s].next = Unset
    BY <1>1 DEF NoRow, Row, Reasons
  <1>3. /\ \A r \in Sessions : r # s => (Exists(r)' <=> Exists(r)) /\ (Live(r)' <=> Live(r))
        /\ Exists(s)' /\ Live(s)' /\ ~Live(s)
    BY <1>1, <1>2, UnsetAssumption DEF Exists, Live
  <1>4. TypeOK'
    BY <1>1, <1>2, CallsAssumption DEF SessionsInv, TypeOK, Issue
  <1>5. RowsOK'
    BY <1>1, <1>2, <1>3 DEF SessionsInv, RowsOK
  <1>6. LocksOK'
    BY <1>1 DEF SessionsInv, LocksOK, Holders
  <1>7. ASSUME NEW t \in Calls PROVE RequestOK(t)'
    <2>1. RequestOK(t) /\ req[t] \in Request
      BY DEF SessionsInv, TypeOK
    <2>2. req[t].held \subseteq Sessions /\ req[t].seen \subseteq Sessions
      BY <2>1 DEF Request
    <2>3. QED
      BY <1>1, <1>3, <2>1, <2>2 DEF RequestOK
  <1>8. \A r \in Sessions : r # s => session[r].family # s \/ ~Exists(r)
    BY <1>1 DEF SessionsInv, RowsOK
  <1>9. OneLivePerFamily'
    <2>1. \A r \in Sessions : r # s /\ Live(r)' => session'[r].family # s
      BY <1>1, <1>3, <1>8 DEF Live
    <2>2. QED
      BY <1>1, <1>2, <1>3, <2>1 DEF SessionsInv, OneLivePerFamily
  <1>10. FamilyIsChain'
    <2>1. \A r \in Sessions : session[r].next # Unset =>
            /\ session[r].next \in Sessions \ {s}
            /\ Exists(r) /\ Exists(session[r].next)
      BY <1>1 DEF SessionsInv, TypeOK, Row, RowsOK, NoRow, FamilyIsChain
    <2>2. \A r \in Sessions : session'[r].next # Unset => r # s /\ session'[r] = session[r]
      BY <1>1, <1>2
    <2>3. ASSUME NEW r \in Sessions, r # s, Exists(r)
          PROVE  /\ session'[r] = session[r]
                 /\ session[r].next # Unset => session'[session[r].next] = session[session[r].next]
      BY <1>1, <2>1, <2>3
    <2>4. ASSUME NEW r \in Sessions, Exists(r)'
          PROVE  /\ session'[r].next # Unset <=> session'[r].state = "rotated"
                 /\ session'[r].next # Unset =>
                      /\ session'[session'[r].next].user # Unset
                      /\ session'[session'[r].next].user = session'[r].user
                      /\ session'[session'[r].next].family = session'[r].family
                      /\ \A q \in Sessions : session'[q].next = session'[r].next => q = r
      <3>1. CASE r = s
        BY <1>2, <3>1
      <3>2. CASE r # s
        <4>1. Exists(r)
          BY <1>3, <2>4, <3>2
        <4>2. QED
          BY <2>2, <2>3, <3>2, <4>1 DEF SessionsInv, FamilyIsChain, Exists
      <3>3. QED
        BY <3>1, <3>2
    <2>5. QED
      BY <2>4 DEF FamilyIsChain, Exists
  <1>11. QED
    BY <1>4, <1>5, <1>6, <1>7, <1>9, <1>10 DEF SessionsInv

LEMMA ExpireInv ==
  ASSUME SessionsInv, NEW s \in Sessions, Expire(s)
  PROVE  SessionsInv'
  <1>1. /\ session'[s] = [session[s] EXCEPT !.expired = TRUE]
        /\ \A r \in Sessions : r # s => session'[r] = session[r]
        /\ UNCHANGED <<pc, req, called>> /\ Exists(s)
    BY DEF SessionsInv, TypeOK, Expire
  <1>2. session'[s] \in Row /\ session[s] \in Row
    BY <1>1 DEF SessionsInv, TypeOK, Row
  <1>3. \A r \in Sessions :
          /\ session'[r].user = session[r].user /\ session'[r].family = session[r].family
          /\ session'[r].state = session[r].state /\ session'[r].next = session[r].next
    BY <1>1, <1>2 DEF Row
  <1>4. \A r \in Sessions : (Exists(r)' <=> Exists(r)) /\ (Live(r)' <=> Live(r))
    BY <1>3 DEF Exists, Live
  <1>5. TypeOK'
    BY <1>1, <1>2 DEF SessionsInv, TypeOK, Expire
  <1>6. RowsOK'
    BY <1>1, <1>3, <1>4 DEF SessionsInv, RowsOK
  <1>7. LocksOK'
    BY <1>1 DEF SessionsInv, LocksOK, Holders
  <1>8. ASSUME NEW t \in Calls PROVE RequestOK(t)'
    <2>1. RequestOK(t) /\ req[t] \in Request
      BY DEF SessionsInv, TypeOK
    <2>2. req[t].held \subseteq Sessions /\ req[t].seen \subseteq Sessions
      BY <2>1 DEF Request
    <2>3. QED
      BY <1>1, <1>4, <2>1, <2>2 DEF RequestOK
  <1>9. OneLivePerFamily' /\ FamilyIsChain'
    <2>1. \A r \in Sessions : session[r].next # Unset => session[r].next \in Sessions
      BY DEF SessionsInv, TypeOK, Row
    <2>2. QED
      BY <1>3, <1>4, <2>1 DEF SessionsInv, OneLivePerFamily, FamilyIsChain
  <1>10. QED
    BY <1>5, <1>6, <1>7, <1>8, <1>9 DEF SessionsInv

\* What the end of a writing request leaves: its locks, and the requests of others
\* as they were.
LEMMA WriterFrame ==
  ASSUME SessionsInv, NEW t \in Calls, Finish(t)
  PROVE  /\ pc'[t] = "idle" /\ req'[t] = NoRequest
         /\ \A u \in Calls : u # t => pc'[u] = pc[u] /\ req'[u] = req[u]
         /\ pc' \in [Calls -> {"idle", "lock", "commitRotate", "sweep", "commitSweep"}]
         /\ req' \in [Calls -> Request]
         /\ called' \in Nat
         /\ RequestOK(t)'
         /\ LocksOK'
  <1>1. /\ pc'[t] = "idle" /\ req'[t] = NoRequest
        /\ \A u \in Calls : u # t => pc'[u] = pc[u] /\ req'[u] = req[u]
    BY DEF SessionsInv, TypeOK, Finish
  <1>2. RequestOK(t)'
    BY <1>1 DEF RequestOK, NoRequest
  <1>3. \A s \in Sessions : Holders(s)' \subseteq Holders(s)
    BY <1>1 DEF Holders
  <1>4. LocksOK'
    BY <1>3 DEF SessionsInv, LocksOK
  <1>5. QED
    BY <1>1, <1>2, <1>4, NoRequestType DEF SessionsInv, TypeOK, Finish

LEMMA CommitRotateInv ==
  ASSUME SessionsInv, NEW t \in Calls, CommitRotate(t)
  PROVE  SessionsInv'
  <1> DEFINE s == req[t].token
             c == req[t].child
  <1>1. /\ s \in Sessions /\ c \in Sessions /\ Live(s) /\ Exists(s) /\ ~Exists(c) /\ c # s
        /\ \A u \in Calls : req[u].child = c => u = t
        /\ t \in Holders(s) /\ Finish(t)
    BY DEF SessionsInv, CommitRotate, RequestOK, Live, Holders
  <1>2. session[s] \in Row /\ session[c] = NoRow
    BY <1>1 DEF SessionsInv, TypeOK, RowsOK
  <1>3. /\ session'[c] = Child(s, c)
        /\ session'[s] = [session[s] EXCEPT !.state = "rotated", !.next = c]
        /\ \A r \in Sessions : r # s /\ r # c => session'[r] = session[r]
    BY <1>1 DEF SessionsInv, TypeOK, CommitRotate
  <1> HIDE DEF s, c
  <1>4. /\ session'[c] \in Row /\ session'[s] \in Row
        /\ session'[c].user = session[s].user /\ session'[c].family = session[s].family
        /\ session'[c].state = "live" /\ session'[c].next = Unset
        /\ session'[s].user = session[s].user /\ session'[s].family = session[s].family
        /\ session'[s].state = "rotated" /\ session'[s].next = c
    BY <1>1, <1>2, <1>3 DEF Child, NoRow, Row, Reasons
  <1>5. /\ \A r \in Sessions : Exists(r)' <=> Exists(r) \/ r = c
        /\ \A r \in Sessions : Live(r)' <=> (Live(r) /\ r # s) \/ r = c
    BY <1>1, <1>3, <1>4 DEF Exists, Live
  <1>6. TypeOK'
    <2>1. session' \in [Sessions -> Row]
      <3>1. \A r \in Sessions : session'[r] \in Row
        BY <1>3, <1>4 DEF SessionsInv, TypeOK
      <3>2. session' = [session EXCEPT ![c] = session'[c], ![s] = session'[s]]
        BY <1>1, <1>3 DEF SessionsInv, TypeOK, CommitRotate, s, c
      <3>3. QED
        BY <3>1, <3>2, <1>1 DEF SessionsInv, TypeOK
    <2>2. QED
      BY <1>1, <2>1, WriterFrame DEF TypeOK
  <1>7. RowsOK'
    BY <1>1, <1>2, <1>3, <1>4, <1>5 DEF SessionsInv, RowsOK
  <1>8. ASSUME NEW u \in Calls, u # t PROVE RequestOK(u)'
    <2>1. RequestOK(u) /\ req[u] \in Request /\ pc'[u] = pc[u] /\ req'[u] = req[u]
      BY <1>1, <1>8, WriterFrame DEF SessionsInv, TypeOK
    <2>2. req[u].held \subseteq Sessions /\ req[u].seen \subseteq Sessions
      BY <2>1 DEF Request
    \* The row is locked: nobody else is about to rotate or to revoke it.
    <2>3. u \notin Holders(s)
      BY <1>1, <1>8 DEF SessionsInv, LocksOK
    <2>4. /\ pc[u] = "commitRotate" => req[u].token # s
          /\ pc[u] \in {"sweep", "commitSweep"} => s \notin req[u].held
      BY <2>3 DEF Holders
    <2>5. req[u].child # c /\ req'[t].child = Unset
      BY <1>1, <1>8, WriterFrame DEF NoRequest
    <2>6. QED
      BY <1>1, <1>5, <2>1, <2>2, <2>4, <2>5, WriterFrame, UnsetAssumption DEF RequestOK
  <1>9. OneLivePerFamily'
    <2>1. \A r \in Sessions : Live(r) /\ session[r].family = session[s].family => r = s
      BY <1>1 DEF SessionsInv, OneLivePerFamily
    <2>2. QED
      BY <1>1, <1>3, <1>4, <1>5, <2>1 DEF SessionsInv, OneLivePerFamily, Live
  <1>10. FamilyIsChain'
    <2>1. \A r \in Sessions : session[r].next # Unset =>
            session[r].next \in Sessions /\ Exists(r) /\ Exists(session[r].next)
      BY DEF SessionsInv, TypeOK, Row, RowsOK, NoRow, FamilyIsChain
    <2>2. \A r \in Sessions : session[r].next # c
      BY <1>1, <2>1, UnsetAssumption
    <2>3. session[s].next = Unset
      BY <1>1, <1>2 DEF SessionsInv, FamilyIsChain, Live
    <2>4. c # Unset
      BY <1>1, UnsetAssumption
    <2>5. ASSUME NEW r \in Sessions, Exists(r)'
          PROVE  /\ session'[r].next # Unset <=> session'[r].state = "rotated"
                 /\ session'[r].next # Unset =>
                      /\ session'[session'[r].next].user # Unset
                      /\ session'[session'[r].next].user = session'[r].user
                      /\ session'[session'[r].next].family = session'[r].family
                      /\ \A q \in Sessions : session'[q].next = session'[r].next => q = r
      <3>1. CASE r = c
        BY <1>4, <3>1
      <3>2. CASE r = s
        <4>1. session[s].user # Unset
          BY <1>1 DEF Exists
        <4>2. \A q \in Sessions : q # s => session'[q].next # c
          BY <1>1, <1>3, <1>4, <2>2, <2>4
        <4>3. QED
          BY <1>1, <1>4, <2>4, <3>2, <4>1, <4>2
      <3>3. CASE r # c /\ r # s
        <4>1. /\ session'[r] = session[r] /\ Exists(r)
              /\ session[r].next # c
          BY <1>3, <1>5, <2>2, <2>5, <3>3
        <4>2. \A q \in Sessions : session[q].next = session[r].next /\ session[r].next # Unset => q = r
          BY <4>1 DEF SessionsInv, FamilyIsChain
        <4>3. /\ session[r].next # Unset <=> session[r].state = "rotated"
              /\ session[r].next # Unset =>
                   /\ session[session[r].next].user # Unset
                   /\ session[session[r].next].user = session[r].user
                   /\ session[session[r].next].family = session[r].family
          BY <4>1 DEF SessionsInv, FamilyIsChain, Exists
        <4>4. session[r].next # Unset => session[r].next \in Sessions /\ session[r].next # c
          BY <2>1, <2>2
        <4>5. \A q \in Sessions : q # c =>
                session'[q].user = session[q].user /\ session'[q].family = session[q].family
          BY <1>3, <1>4
        <4>6. \A q \in Sessions :
                session'[q].next = session[r].next /\ session[r].next # Unset => q = r
          BY <1>3, <1>4, <4>1, <4>2, <4>4
        <4>7. QED
          BY <4>1, <4>3, <4>4, <4>5, <4>6
      <3>4. QED
        BY <3>1, <3>2, <3>3
    <2>6. QED
      BY <2>5 DEF FamilyIsChain, Exists
  <1>11. QED
    BY <1>1, <1>6, <1>7, <1>8, <1>9, <1>10, WriterFrame DEF SessionsInv

LEMMA RevokedRow ==
  ASSUME NEW r \in Row, NEW reason \in Reasons
  PROVE  LET q == [r EXCEPT !.state = reason] IN
         /\ q \in Row
         /\ q.user = r.user /\ q.family = r.family /\ q.next = r.next
         /\ q.state = reason
  BY DEF Row

LEMMA CommitSweepInv ==
  ASSUME SessionsInv, NEW t \in Calls, CommitSweep(t)
  PROVE  SessionsInv'
  <1> DEFINE held == req[t].held
  <1>1. /\ held \subseteq Sessions /\ req[t].reason \in Reasons \ {"rotated"}
        /\ \A s \in held : Live(s) /\ t \in Holders(s)
        /\ Finish(t)
    BY DEF SessionsInv, TypeOK, CommitSweep, RequestOK, Request, Holders
  <1>2. /\ \A s \in held : session'[s] = [session[s] EXCEPT !.state = req[t].reason]
        /\ \A s \in Sessions \ held : session'[s] = session[s]
        /\ DOMAIN session' = Sessions
    BY <1>1 DEF CommitSweep, Revoked
  <1>3. \A s \in Sessions :
          /\ session'[s] \in Row
          /\ session'[s].user = session[s].user /\ session'[s].family = session[s].family
          /\ session'[s].next = session[s].next
          /\ session'[s].state = IF s \in held THEN req[t].reason ELSE session[s].state
    <2>1. \A s \in Sessions : session[s] \in Row
      BY DEF SessionsInv, TypeOK
    <2>2. ASSUME NEW s \in Sessions, s \in held
          PROVE  /\ session'[s] \in Row
                 /\ session'[s].user = session[s].user
                 /\ session'[s].family = session[s].family
                 /\ session'[s].next = session[s].next
                 /\ session'[s].state = req[t].reason
      <3>1. session'[s] = [session[s] EXCEPT !.state = req[t].reason]
        BY <1>2, <2>2
      <3>2. session[s] \in Row /\ req[t].reason \in Reasons
        BY <1>1, <2>1
      <3>3. QED
        BY <3>1, <3>2, RevokedRow
    <2>3. ASSUME NEW s \in Sessions, s \notin held PROVE session'[s] = session[s]
      BY <1>2, <2>3
    <2> HIDE DEF held
    <2>4. QED
      BY <2>1, <2>2, <2>3
  <1> HIDE DEF held
  <1>4. /\ \A s \in Sessions : Exists(s)' <=> Exists(s)
        /\ \A s \in Sessions : Live(s)' <=> Live(s) /\ s \notin held
    BY <1>1, <1>3 DEF Exists, Live, Reasons
  <1>5. TypeOK'
    <2>1. session' \in [Sessions -> Row]
      BY <1>3 DEF CommitSweep, Revoked
    <2>2. QED
      BY <1>1, <2>1, WriterFrame DEF TypeOK
  <1>6. RowsOK'
    BY <1>1, <1>2, <1>3, <1>4 DEF SessionsInv, RowsOK, Live
  <1>7. ASSUME NEW u \in Calls, u # t PROVE RequestOK(u)'
    <2>1. RequestOK(u) /\ req[u] \in Request /\ pc'[u] = pc[u] /\ req'[u] = req[u]
      BY <1>1, <1>7, WriterFrame DEF SessionsInv, TypeOK
    <2>2. req[u].held \subseteq Sessions /\ req[u].seen \subseteq Sessions
      BY <2>1 DEF Request
    <2>3. \A s \in held : u \notin Holders(s)
      BY <1>1, <1>7 DEF SessionsInv, LocksOK
    <2>4. /\ pc[u] = "commitRotate" => req[u].token \notin held
          /\ pc[u] \in {"sweep", "commitSweep"} => \A s \in req[u].held : s \notin held
      BY <2>3 DEF Holders
    <2>5. req'[t].child = Unset
      BY <1>1, WriterFrame DEF NoRequest
    <2>6. QED
      BY <1>1, <1>4, <1>7, <2>1, <2>2, <2>4, <2>5, WriterFrame, UnsetAssumption DEF RequestOK
  <1>8. OneLivePerFamily'
    BY <1>3, <1>4 DEF SessionsInv, OneLivePerFamily
  <1>9. FamilyIsChain'
    <2>1. \A s \in held : session[s].next = Unset
      BY <1>1 DEF SessionsInv, FamilyIsChain, Live
    <2>2. \A s \in Sessions : session[s].next # Unset => session[s].next \in Sessions
      BY DEF SessionsInv, TypeOK, Row
    <2>3. \A s \in Sessions : Exists(s) =>
            /\ session[s].next # Unset <=> session'[s].state = "rotated"
            /\ session[s].next # Unset => session'[session[s].next].user # Unset
      BY <1>1, <1>3, <2>1, <2>2 DEF SessionsInv, FamilyIsChain, Exists
    <2>4. QED
      BY <1>3, <1>4, <2>2, <2>3 DEF SessionsInv, FamilyIsChain, Exists
  <1>10. QED
    BY <1>1, <1>5, <1>6, <1>7, <1>8, <1>9, WriterFrame DEF SessionsInv

--------------------------------------------------------------------------------

\* The inductive invariant: one writer per row, and under its lock the row stays as
\* it was found.
THEOREM LocksHold == SessionsSpec => []SessionsInv
  <1>1. SessionsInit => SessionsInv
    BY InitInv
  <1>2. SessionsInv /\ [SessionsNext]_sessionVars => SessionsInv'
    <2> SUFFICES ASSUME SessionsInv, [SessionsNext]_sessionVars PROVE SessionsInv'
      OBVIOUS
    <2>1. CASE UNCHANGED sessionVars
      BY <2>1 DEF sessionVars, SessionsInv, TypeOK, RowsOK, LocksOK, RequestOK, OneLivePerFamily,
                  FamilyIsChain, Live, Exists, Holders
    <2>2. ASSUME NEW u \in Owners, NEW s \in Sessions, Issue(u, s) PROVE SessionsInv'
      BY <2>2, IssueInv
    <2>3. ASSUME NEW s \in Sessions, Expire(s) PROVE SessionsInv'
      BY <2>3, ExpireInv
    <2>4. ASSUME NEW t \in Calls, Rollback(t) PROVE SessionsInv'
      BY <2>4, FinishInv DEF Rollback
    <2>5. QED
      BY <2>1, <2>2, <2>3, <2>4, BeginInv, LockTokenInv, TakeRowInv, EndSweepInv,
         CommitRotateInv, CommitSweepInv DEF SessionsNext
  <1>3. QED
    BY <1>1, <1>2, PTL DEF SessionsSpec

\* Columns and request fields stay within their ranges.
THEOREM TypeCorrect == SessionsSpec => []TypeOK
  <1>1. SessionsInv => TypeOK
    BY DEF SessionsInv
  <1>2. QED
    BY <1>1, LocksHold, PTL

\* A family never holds two live refresh tokens, however its clients race.
THEOREM OneLive == SessionsSpec => []OneLivePerFamily
  <1>1. SessionsInv => OneLivePerFamily
    BY DEF SessionsInv
  <1>2. QED
    BY <1>1, LocksHold, PTL

\* A family is one unbranched chain of exchanges.
THEOREM Chain == SessionsSpec => []FamilyIsChain
  <1>1. SessionsInv => FamilyIsChain
    BY DEF SessionsInv
  <1>2. QED
    BY <1>1, LocksHold, PTL

\* How a step may change a session that has ended, and what a sweep leaves live.
LEMMA StepKeepsEnds ==
  ASSUME SessionsInv, [SessionsNext]_sessionVars, NEW s \in Sessions, Exists(s), ~Live(s)
  PROVE  session'[s].state = session[s].state /\ session'[s].next = session[s].next
  <1>1. ASSUME NEW u \in Owners, NEW r \in Sessions, Issue(u, r) PROVE session'[s] = session[s]
    BY <1>1 DEF SessionsInv, TypeOK, Issue, Fresh
  <1>2. ASSUME NEW r \in Sessions, Expire(r)
        PROVE  session'[s].state = session[s].state /\ session'[s].next = session[s].next
    BY <1>2 DEF SessionsInv, TypeOK, Expire, Row
  <1>3. ASSUME NEW t \in Calls, CommitRotate(t) PROVE session'[s] = session[s]
    <2>1. Live(req[t].token) /\ ~Exists(req[t].child)
      BY <1>3 DEF SessionsInv, CommitRotate, RequestOK
    <2>2. s # req[t].token /\ s # req[t].child
      BY <2>1
    <2>3. QED
      BY <1>3, <2>2 DEF SessionsInv, TypeOK, CommitRotate
  <1>4. ASSUME NEW t \in Calls, CommitSweep(t) PROVE session'[s] = session[s]
    <2>1. s \notin req[t].held
      BY <1>4 DEF SessionsInv, CommitSweep, RequestOK
    <2>2. QED
      BY <1>4, <2>1 DEF CommitSweep, Revoked
  <1>5. CASE UNCHANGED session
    BY <1>5
  <1>6. QED
    BY <1>1, <1>2, <1>3, <1>4, <1>5
       DEF SessionsNext, sessionVars, BeginRotate, BeginRevokeOne, BeginRevokeAll, Arrive, TakeRow,
           LockToken, EndSweep, Rollback

\* Revocation is final: nothing revives a session or rewrites how it ended.
THEOREM RevokedStays == SessionsSpec => RevokedForEver
  <1>1. SessionsInv /\ [SessionsNext]_sessionVars =>
          [\A s \in Sessions :
             (Exists(s) /\ ~Live(s)) =>
               /\ session'[s].state = session[s].state
               /\ session'[s].next = session[s].next]_sessionVars
    BY StepKeepsEnds
  <1>2. QED
    BY <1>1, LocksHold, PTL DEF SessionsSpec, RevokedForEver

\* A sweep misses nothing it could see.
THEOREM SweepComplete == SessionsSpec => SweepRevokesWhatItSaw
  <1>1. ASSUME SessionsInv, NEW t \in Calls, CommitSweep(t), NEW s \in req[t].seen
        PROVE  session'[s].state # "live"
    <2>1. /\ RequestOK(t) /\ req[t].targets = {} /\ s \in Sessions
          /\ req[t].reason \in Reasons
      BY <1>1 DEF SessionsInv, TypeOK, CommitSweep, RequestOK, Request
    <2>2. Exists(s) /\ (Live(s) => s \in req[t].held)
      BY <1>1, <2>1 DEF CommitSweep, RequestOK
    <2>3. CASE s \in req[t].held
      <3>1. session'[s] = [session[s] EXCEPT !.state = req[t].reason] /\ session[s] \in Row
        BY <1>1, <2>1, <2>3 DEF SessionsInv, TypeOK, CommitSweep, Revoked
      <3>2. QED
        BY <2>1, <3>1 DEF Row, Reasons
    <2>4. CASE s \notin req[t].held
      BY <1>1, <2>1, <2>2, <2>4 DEF CommitSweep, Revoked, Live
    <2>5. QED
      BY <2>3, <2>4
  <1>2. SessionsInv /\ [SessionsNext]_sessionVars =>
          [\A t \in Calls : CommitSweep(t) =>
             \A s \in req[t].seen : session'[s].state # "live"]_sessionVars
    BY <1>1
  <1>3. QED
    BY <1>2, LocksHold, PTL DEF SessionsSpec, SweepRevokesWhatItSaw

================================================================================
