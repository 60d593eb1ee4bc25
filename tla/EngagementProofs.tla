---------------------------- MODULE EngagementProofs ----------------------------
(***************************************************************************)
(* Proofs about Engagement for every number of candidates, invitations,    *)
(* threads and requests: the invariants of Invitations and of Chat, each   *)
(* beside whatever the others do, and then the thread of consent that runs *)
(* from an application or an accepted invitation to every message; last,   *)
(* the protocol of keys its requests are sent under, module Idempotency.   *)
(***************************************************************************)
EXTENDS Engagement, Idempotency, Sequences, TLAPS

\* What a history is after one more row.
LEMMA AppendRow ==
  ASSUME NEW S, NEW q \in Seq(S), NEW e \in S
  PROVE  /\ Append(q, e) \in Seq(S) /\ Append(q, e) # <<>>
         /\ Len(q) \in Nat /\ Len(Append(q, e)) = Len(q) + 1
         /\ Append(q, e)[Len(q) + 1] = e
         /\ \A n \in 1..Len(q) : Append(q, e)[n] = q[n]
  <1>1. /\ Append(q, e) \in Seq(S) /\ Len(q) \in Nat
        /\ Len(Append(q, e)) = Len(q) + 1
    OBVIOUS
  <1>2. Append(q, e) # <<>>
    BY <1>1
  <1>3. Append(q, e)[Len(q) + 1] = e
    OBVIOUS
  <1>4. \A n \in 1..Len(q) : Append(q, e)[n] = q[n]
    OBVIOUS
  <1>5. QED
    BY <1>1, <1>2, <1>3, <1>4

--------------------------------------------------------------------------------
(* Invitations: the chain of answers of one invitation *)

\* AnswersAreChain of one invitation, with history h and row r.
ChainOf(h, r) ==
  /\ r.status # Invite!NoStatus <=> h # <<>>
  /\ h # <<>> => /\ h[1] = [from |-> Invite!NoStatus, to |-> "sent", role |-> "employer"]
                 /\ h[Len(h)].to = r.status
                 /\ r.responded <=> Len(h) > 1
  /\ \A n \in 2..Len(h) : h[n].from = h[n-1].to /\ Invite!CanRespond(h[n].from, h[n].to)

LEMMA ChainsAre ==
  Invite!AnswersAreChain <=> \A i \in Invites : ChainOf(invitationHistory[i], invitation[i])
  BY DEF Invite!AnswersAreChain, ChainOf, Invite!Exists

LEMMA ChainBegins ==
  ASSUME NEW h, h = <<>>, NEW r, r.status = "sent", r.responded = FALSE, NEW e,
         e = [from |-> Invite!NoStatus, to |-> "sent", role |-> "employer"]
  PROVE  ChainOf(Append(h, e), r)
  <1> DEFINE k == Append(h, e)
  <1>1. k # <<>> /\ k[1] = e /\ Len(k) = 1
    OBVIOUS
  <1>2. e.to = "sent"
    OBVIOUS
  <1> HIDE DEF k
  <1>3. 2..Len(k) = {} /\ ~(Len(k) > 1)
    BY <1>1
  <1>4. r.status # Invite!NoStatus
    BY DEF Invite!NoStatus
  <1>5. ChainOf(k, r)
    BY <1>1, <1>2, <1>3, <1>4 DEF ChainOf
  <1>6. QED
    BY <1>5 DEF k

LEMMA ChainGoesOn ==
  ASSUME NEW h \in Seq(Invite!HistoryRow), NEW r, ChainOf(h, r), r.status # Invite!NoStatus,
         NEW e \in Invite!HistoryRow, e.from = r.status, Invite!CanRespond(e.from, e.to),
         NEW s, s.status = e.to, s.responded = TRUE
  PROVE  ChainOf(Append(h, e), s)
  <1> DEFINE k == Append(h, e)
             n == Len(h)
  <1>1. /\ k # <<>> /\ n \in Nat /\ Len(k) = n + 1 /\ k[n + 1] = e
        /\ \A m \in 1..n : k[m] = h[m]
    BY AppendRow
  <1>2. /\ h # <<>> /\ h[n].to = r.status
        /\ h[1] = [from |-> Invite!NoStatus, to |-> "sent", role |-> "employer"]
        /\ \A m \in 2..n : h[m].from = h[m-1].to /\ Invite!CanRespond(h[m].from, h[m].to)
    BY DEF ChainOf
  <1>3. n >= 1
    BY <1>2
  <1> HIDE DEF k, n
  <1>4. k[1] = h[1] /\ k[Len(k)] = e /\ Len(k) > 1
    BY <1>1, <1>3
  <1>5. s.status # Invite!NoStatus
    BY DEF Invite!CanRespond, Invite!CandidateResponses, Invite!NoStatus
  <1>6. ASSUME NEW m \in 2..Len(k)
        PROVE  k[m].from = k[m-1].to /\ Invite!CanRespond(k[m].from, k[m].to)
    <2>1. CASE m = n + 1
      <3>1. k[m-1] = h[n]
        BY <1>1, <1>3, <2>1
      <3>2. QED
        BY <1>1, <1>2, <2>1, <3>1
    <2>2. CASE m # n + 1
      <3>1. m \in 2..n /\ k[m] = h[m] /\ k[m-1] = h[m-1]
        BY <1>1, <2>2
      <3>2. QED
        BY <1>2, <3>1
    <2>3. QED
      BY <2>1, <2>2
  <1>7. ChainOf(k, s)
    BY <1>1, <1>2, <1>4, <1>5, <1>6 DEF ChainOf
  <1>8. QED
    BY <1>7 DEF k


--------------------------------------------------------------------------------
(* Invitations: the steps *)

LEMMA InviteInit == Invite!Init /\ searchable = Candidates /\ arrived = 0 => Invite!IInv
  <1> SUFFICES ASSUME Invite!Init, searchable = Candidates, arrived = 0 PROVE Invite!IInv
    OBVIOUS
  <1> USE DEF Invite!Init
  <1>1. Invite!TypeOK
    <2>1. Invite!NoRequest \in Invite!Request /\ Invite!NoRow \in Invite!Row
      BY DEF Invite!NoRequest, Invite!Request, Invite!NoRow, Invite!Row
    <2>2. OpenVacancies \subseteq Vacancies
      BY DEF OpenVacancies
    <2>3. QED
      BY <2>1, <2>2 DEF Invite!TypeOK
  <1>2. (\A t \in Txns : Invite!RequestOK(t)) /\ Invite!LocksOK
    BY DEF Invite!RequestOK, Invite!LocksOK
  <1>3. \A i \in Invites : invitation[i].status = Invite!NoStatus
    BY DEF Invite!NoRow
  <1>4. Invite!OneOpenPerSlot
    BY <1>3 DEF Invite!OneOpenPerSlot, Invite!Exists
  <1>5. \A i \in Invites : ChainOf(invitationHistory[i], invitation[i])
    <2> SUFFICES ASSUME NEW i \in Invites PROVE ChainOf(invitationHistory[i], invitation[i])
      OBVIOUS
    <2>1. invitationHistory[i] = <<>>
      OBVIOUS
    <2>2. 2..Len(invitationHistory[i]) = {}
      BY <2>1
    <2>3. QED
      BY <1>3, <2>1, <2>2 DEF ChainOf
  <1>6. QED
    BY <1>1, <1>2, <1>4, <1>5, ChainsAre DEF Invite!IInv

\* What the board, the chat and the profiles do leaves the invitations as they are.
LEMMA InviteUnchanged ==
  ASSUME Invite!IInv, UNCHANGED inviteVars, searchable' \subseteq Candidates, arrived' \in Nat
  PROVE  Invite!IInv'
  <1>1. Invite!TypeOK'
    BY DEF Invite!IInv, Invite!TypeOK, inviteVars, OpenVacancies
  <1>2. (\A t \in Txns : Invite!RequestOK(t))' /\ Invite!LocksOK'
    BY DEF Invite!IInv, inviteVars, Invite!RequestOK, Invite!LocksOK, Invite!Exists,
           Invite!OpenRows
  <1>3. Invite!OneOpenPerSlot' /\ Invite!AnswersAreChain'
    BY DEF Invite!IInv, inviteVars, Invite!OneOpenPerSlot, Invite!AnswersAreChain,
           Invite!Exists
  <1>4. QED
    BY <1>1, <1>2, <1>3 DEF Invite!IInv

\* A step of one request that writes no row owes its own part alone.
LEMMA InviteFrame ==
  ASSUME Invite!IInv, NEW t \in Txns, UNCHANGED Invite!tables,
         \A u \in Txns : u # t => invitePc'[u] = invitePc[u] /\ inviteReq'[u] = inviteReq[u],
         Invite!TypeOK', Invite!RequestOK(t)', Invite!LocksOK'
  PROVE  Invite!IInv'
  <1>1. Invite!OneOpenPerSlot' /\ Invite!AnswersAreChain'
    BY DEF Invite!IInv, Invite!tables, Invite!OneOpenPerSlot, Invite!AnswersAreChain,
           Invite!Exists
  <1>2. ASSUME NEW u \in Txns, u # t PROVE Invite!RequestOK(u)'
    BY <1>2 DEF Invite!IInv, Invite!tables, Invite!RequestOK, Invite!Exists,
                Invite!OpenRows
  <1>3. QED
    BY <1>1, <1>2 DEF Invite!IInv

\* A request that is not about to commit holds nothing.
LEMMA InviteHoldsNothing ==
  ASSUME Invite!LocksOK, NEW t \in Txns,
         invitePc'[t] \notin {"commitInvite", "commitRespond"},
         \A u \in Txns : u # t => invitePc'[u] = invitePc[u] /\ inviteReq'[u] = inviteReq[u]
  PROVE  Invite!LocksOK'
  BY DEF Invite!LocksOK

LEMMA InviteArrive ==
  ASSUME Invite!IInv, NEW t \in Txns, NEW p \in {"check", "lock"},
         NEW r \in Invite!Request, Invite!Arrive(t, p, r), UNCHANGED searchable,
         p = "check" => r.slot \in Invite!Slots,
         p = "lock" => /\ r.invitation \in Invites /\ Invite!Exists(r.invitation)
                       /\ r.to \in Invite!CandidateResponses
  PROVE  Invite!IInv'
  <1>1. Invite!TypeOK /\ Invite!LocksOK
    BY DEF Invite!IInv
  <1>2. /\ invitePc'[t] = p /\ inviteReq'[t] = r /\ UNCHANGED Invite!tables
        /\ \A u \in Txns : u # t =>
             invitePc'[u] = invitePc[u] /\ inviteReq'[u] = inviteReq[u]
    BY <1>1 DEF Invite!TypeOK, Invite!Arrive
  <1>3. Invite!TypeOK'
    BY <1>1, BoundAssumption
       DEF Invite!TypeOK, Invite!Arrive, Invite!tables, OpenVacancies
  <1>4. Invite!RequestOK(t)'
    BY <1>2 DEF Invite!RequestOK, Invite!Exists, Invite!tables
  <1>5. Invite!LocksOK'
    BY <1>1, <1>2, InviteHoldsNothing
  <1>6. QED
    BY <1>2, <1>3, <1>4, <1>5, InviteFrame

LEMMA InviteRefuse ==
  ASSUME Invite!IInv, NEW t \in Txns, Invite!Refuse(t), UNCHANGED searchable
  PROVE  Invite!IInv'
  <1>1. Invite!TypeOK /\ Invite!LocksOK
    BY DEF Invite!IInv
  <1>2. /\ invitePc'[t] = "idle" /\ inviteReq'[t] = Invite!NoRequest
        /\ UNCHANGED Invite!tables
        /\ \A u \in Txns : u # t =>
             invitePc'[u] = invitePc[u] /\ inviteReq'[u] = inviteReq[u]
    BY <1>1 DEF Invite!TypeOK, Invite!Refuse, Invite!Finish, Invite!Goto
  <1>3. Invite!TypeOK'
    <2>1. Invite!NoRequest \in Invite!Request
      BY DEF Invite!NoRequest, Invite!Request
    <2>2. QED
      BY <1>1, <2>1 DEF Invite!TypeOK, Invite!Refuse, Invite!Finish, Invite!Goto,
                        Invite!tables, OpenVacancies
  <1>4. Invite!RequestOK(t)'
    BY <1>2 DEF Invite!RequestOK
  <1>5. Invite!LocksOK'
    BY <1>1, <1>2, InviteHoldsNothing
  <1>6. QED
    BY <1>2, <1>3, <1>4, <1>5, InviteFrame

LEMMA InviteBeginInvite ==
  ASSUME Invite!IInv, NEW t \in Txns, NEW s \in Invite!Slots, Invite!BeginInvite(t, s),
         UNCHANGED searchable
  PROVE  Invite!IInv'
  <1> DEFINE r == [Invite!NoRequest EXCEPT !.slot = s]
  <1>1. r \in Invite!Request /\ r.slot = s
    BY DEF Invite!NoRequest, Invite!Request
  <1>2. Invite!Arrive(t, "check", r)
    BY DEF Invite!BeginInvite
  <1> HIDE DEF r
  <1>3. QED
    BY <1>1, <1>2, InviteArrive

LEMMA InviteBeginRespond ==
  ASSUME Invite!IInv, NEW t \in Txns, NEW i \in Invites, NEW to \in Invite!CandidateResponses,
         Invite!BeginRespond(t, i, to), UNCHANGED searchable
  PROVE  Invite!IInv'
  <1> DEFINE r == [Invite!NoRequest EXCEPT !.invitation = i, !.to = to]
  <1>1. r \in Invite!Request /\ r.invitation = i /\ r.to = to
    BY DEF Invite!NoRequest, Invite!Request, Invite!CandidateResponses,
           Invite!InvitationStatuses
  <1>2. Invite!Arrive(t, "lock", r) /\ Invite!Exists(i)
    BY DEF Invite!BeginRespond
  <1> HIDE DEF r
  <1>3. QED
    BY <1>1, <1>2, InviteArrive

LEMMA InviteCheckOpen ==
  ASSUME Invite!IInv, NEW t \in Txns, Invite!CheckOpen(t), UNCHANGED searchable
  PROVE  Invite!IInv'
  <1>1. Invite!TypeOK /\ Invite!LocksOK /\ Invite!RequestOK(t) /\ invitePc[t] = "check"
    BY DEF Invite!IInv, Invite!CheckOpen
  <1>2. CASE Invite!Refuse(t)
    BY <1>2, InviteRefuse
  <1>3. CASE ~Invite!Refuse(t)
    <2>1. Invite!Goto(t, "insert") /\ UNCHANGED <<Invite!tables, inviteReq>>
      BY <1>3 DEF Invite!CheckOpen
    <2>2. /\ invitePc'[t] = "insert" /\ UNCHANGED Invite!tables
          /\ inviteReq' = inviteReq
          /\ \A u \in Txns : u # t => invitePc'[u] = invitePc[u]
      BY <1>1, <2>1 DEF Invite!TypeOK, Invite!Goto
    <2>3. Invite!TypeOK'
      BY <1>1, <2>1 DEF Invite!TypeOK, Invite!Goto, Invite!tables, OpenVacancies
    <2>4. Invite!RequestOK(t)'
      BY <1>1, <2>2 DEF Invite!RequestOK
    <2>5. Invite!LocksOK'
      BY <1>1, <2>2, InviteHoldsNothing
    <2>6. QED
      BY <2>2, <2>3, <2>4, <2>5, InviteFrame
  <1>4. QED
    BY <1>2, <1>3

\* The insert that is let through is the only one of its slot and of its id.
LEMMA InviteInsert ==
  ASSUME Invite!IInv, NEW t \in Txns, Invite!Insert(t), UNCHANGED searchable
  PROVE  Invite!IInv'
  <1>1. /\ Invite!TypeOK /\ Invite!LocksOK /\ Invite!RequestOK(t) /\ invitePc[t] = "insert"
        /\ Invite!Granted(t)
    BY DEF Invite!IInv, Invite!Insert
  <1>2. CASE Invite!Refuse(t)
    BY <1>2, InviteRefuse
  <1>3. CASE ~Invite!Refuse(t)
    <2>1. PICK i \in Invites :
            /\ ~Invite!Exists(i)
            /\ \A u \in Txns : ~(invitePc[u] = "commitInvite" /\ inviteReq[u].invitation = i)
            /\ inviteReq' = [inviteReq EXCEPT ![t].invitation = i, ![t].to = "sent"]
      BY <1>3 DEF Invite!Insert
    <2>2. /\ Invite!Goto(t, "commitInvite") /\ UNCHANGED Invite!tables
          /\ Invite!OpenRows(inviteReq[t].slot) = {}
      BY <1>3 DEF Invite!Insert
    <2>3. /\ invitePc'[t] = "commitInvite"
          /\ inviteReq'[t].slot = inviteReq[t].slot
          /\ inviteReq'[t].invitation = i
          /\ \A u \in Txns : u # t =>
               invitePc'[u] = invitePc[u] /\ inviteReq'[u] = inviteReq[u]
      BY <1>1, <2>1, <2>2 DEF Invite!TypeOK, Invite!Request, Invite!Goto
    <2>4. inviteReq' \in [Txns -> Invite!Request]
      BY <1>1, <2>1 DEF Invite!TypeOK, Invite!Request, Invite!InvitationStatuses
    <2>5. Invite!TypeOK'
      BY <1>1, <2>2, <2>4 DEF Invite!TypeOK, Invite!Goto, Invite!tables, OpenVacancies
    <2>6. Invite!RequestOK(t)'
      BY <1>1, <2>1, <2>2, <2>3
         DEF Invite!RequestOK, Invite!Exists, Invite!OpenRows, Invite!tables
    <2>7. \A u \in Txns : invitePc[u] = "commitInvite" =>
            inviteReq[u].slot # inviteReq[t].slot /\ inviteReq[u].invitation # i
      BY <1>1, <2>1 DEF Invite!Granted, Invite!WaitsFor, Invite!PendingInserts
    <2>8. Invite!LocksOK'
      BY <1>1, <2>3, <2>7 DEF Invite!LocksOK
    <2>9. QED
      BY <2>2, <2>3, <2>5, <2>6, <2>8, InviteFrame
  <1>4. QED
    BY <1>2, <1>3

LEMMA InviteLockInvitation ==
  ASSUME Invite!IInv, NEW t \in Txns, Invite!LockInvitation(t), UNCHANGED searchable
  PROVE  Invite!IInv'
  <1> DEFINE i == inviteReq[t].invitation
  <1>1. /\ Invite!TypeOK /\ Invite!LocksOK /\ Invite!RequestOK(t) /\ invitePc[t] = "lock"
        /\ Invite!Granted(t)
    BY DEF Invite!IInv, Invite!LockInvitation
  <1>2. CASE Invite!Refuse(t)
    BY <1>2, InviteRefuse
  <1>3. CASE ~Invite!Refuse(t)
    <2>1. /\ Invite!CanRespond(invitation[i].status, inviteReq[t].to)
          /\ inviteReq' = [inviteReq EXCEPT ![t].from = invitation[i].status]
          /\ Invite!Goto(t, "commitRespond")
          /\ UNCHANGED Invite!tables
      BY <1>3 DEF Invite!LockInvitation
    <2>2. i \in Invites /\ Invite!Exists(i) /\ inviteReq[t].to \in Invite!CandidateResponses
      BY <1>1 DEF Invite!RequestOK
    <2>3. /\ invitePc'[t] = "commitRespond"
          /\ inviteReq'[t].invitation = i /\ inviteReq'[t].to = inviteReq[t].to
          /\ inviteReq'[t].from = invitation[i].status
          /\ \A u \in Txns : u # t =>
               invitePc'[u] = invitePc[u] /\ inviteReq'[u] = inviteReq[u]
      BY <1>1, <2>1 DEF Invite!TypeOK, Invite!Request, Invite!Goto
    <2>4. inviteReq' \in [Txns -> Invite!Request]
      BY <1>1, <2>1, <2>2 DEF Invite!TypeOK, Invite!Request, Invite!Row
    <2>5. Invite!TypeOK'
      BY <1>1, <2>1, <2>4 DEF Invite!TypeOK, Invite!Goto, Invite!tables, OpenVacancies
    <2>6. Invite!RequestOK(t)'
      BY <2>1, <2>2, <2>3 DEF Invite!RequestOK, Invite!Exists, Invite!tables
    <2>7. \A u \in Txns : invitePc[u] = "commitRespond" => inviteReq[u].invitation # i
      BY <1>1 DEF Invite!Granted, Invite!WaitsFor, Invite!UpdateHolders
    <2>8. Invite!LocksOK'
      BY <1>1, <2>3, <2>7 DEF Invite!LocksOK
    <2>9. QED
      BY <2>1, <2>3, <2>5, <2>6, <2>8, InviteFrame
  <1>4. QED
    BY <1>2, <1>3

\* The end of a request that writes row r on invitation i: nobody else is about to write
\* it, and if r is open then its slot was free or i already held it.
LEMMA InviteCommitRow ==
  ASSUME Invite!IInv, NEW t \in Txns, NEW i \in Invites, NEW r \in Invite!Row,
         NEW e \in Invite!HistoryRow, Invite!Finish(t), UNCHANGED searchable,
         invitation' = [invitation EXCEPT ![i] = r],
         invitationHistory' = [invitationHistory EXCEPT ![i] = Append(@, e)],
         r.status # Invite!NoStatus,
         ChainOf(Append(invitationHistory[i], e), r),
         Invite!OccupiesOpenSlot(r.status) => Invite!OpenRows(r.slot) \subseteq {i},
         \A u \in Txns : u # t =>
           /\ invitePc[u] \in {"commitInvite", "commitRespond"} => inviteReq[u].invitation # i
           /\ invitePc[u] = "commitInvite" /\ Invite!OccupiesOpenSlot(r.status) =>
                inviteReq[u].slot # r.slot
  PROVE  Invite!IInv'
  <1>1. /\ Invite!TypeOK /\ Invite!LocksOK /\ Invite!OneOpenPerSlot
        /\ \A u \in Txns : Invite!RequestOK(u)
        /\ \A j \in Invites : ChainOf(invitationHistory[j], invitation[j])
    BY ChainsAre DEF Invite!IInv
  <1>2. /\ invitation'[i] = r
        /\ \A j \in Invites : j # i => invitation'[j] = invitation[j]
        /\ invitationHistory'[i] = Append(invitationHistory[i], e)
        /\ \A j \in Invites : j # i => invitationHistory'[j] = invitationHistory[j]
    BY <1>1 DEF Invite!TypeOK
  <1>3. /\ invitePc'[t] = "idle" /\ inviteReq'[t] = Invite!NoRequest
        /\ \A u \in Txns : u # t =>
             invitePc'[u] = invitePc[u] /\ inviteReq'[u] = inviteReq[u]
    BY <1>1 DEF Invite!TypeOK, Invite!Finish, Invite!Goto
  <1>4. Invite!TypeOK'
    <2>1. Invite!NoRequest \in Invite!Request
      BY DEF Invite!NoRequest, Invite!Request
    <2>2. Append(invitationHistory[i], e) \in Seq(Invite!HistoryRow)
      BY <1>1, AppendRow DEF Invite!TypeOK
    <2>3. QED
      BY <1>1, <2>1, <2>2 DEF Invite!TypeOK, Invite!Finish, Invite!Goto, OpenVacancies
  <1>5. ASSUME NEW u \in Txns PROVE Invite!RequestOK(u)'
    <2>1. CASE u = t
      BY <1>3, <2>1 DEF Invite!RequestOK
    <2>2. CASE u # t
      <3>1. /\ Invite!RequestOK(u)
            /\ invitePc'[u] = invitePc[u] /\ inviteReq'[u] = inviteReq[u]
        BY <1>1, <1>3, <2>2
      <3>2. \A j \in Invites :
              /\ Invite!Exists(j) => Invite!Exists(j)'
              /\ j # i => (Invite!Exists(j)' <=> Invite!Exists(j))
        BY <1>2 DEF Invite!Exists
      <3>3. invitePc[u] = "commitInvite" => Invite!OpenRows(inviteReq[u].slot)' = {}
        BY <1>2, <2>2, <3>1 DEF Invite!RequestOK, Invite!OpenRows
      <3>4. invitePc[u] \in {"commitInvite", "commitRespond"} => inviteReq[u].invitation # i
        BY <2>2
      <3>5. QED
        BY <1>2, <3>1, <3>2, <3>3, <3>4 DEF Invite!RequestOK
    <2>3. QED
      BY <2>1, <2>2
  <1>6. Invite!LocksOK'
    BY <1>1, <1>3, InviteHoldsNothing
  <1>7. Invite!OneOpenPerSlot'
    <2> SUFFICES ASSUME NEW j \in Invites, NEW k \in Invites,
                        invitation'[j].slot = invitation'[k].slot, Invite!Exists(j)',
                        Invite!OccupiesOpenSlot(invitation'[j].status),
                        Invite!OccupiesOpenSlot(invitation'[k].status)
                 PROVE  j = k
      BY DEF Invite!OneOpenPerSlot
    <2>1. CASE j = i /\ k # i
      BY <1>2, <2>1 DEF Invite!OpenRows
    <2>2. CASE j # i /\ k = i
      BY <1>2, <2>2 DEF Invite!OpenRows
    <2>3. CASE j # i /\ k # i
      BY <1>1, <1>2, <2>3 DEF Invite!OneOpenPerSlot, Invite!Exists
    <2>4. QED
      BY <2>1, <2>2, <2>3
  <1>8. Invite!AnswersAreChain'
    <2>1. \A j \in Invites : ChainOf(invitationHistory'[j], invitation'[j])
      BY <1>1, <1>2
    <2>2. QED
      BY <2>1 DEF Invite!AnswersAreChain, ChainOf, Invite!Exists
  <1>9. QED
    BY <1>4, <1>5, <1>6, <1>7, <1>8 DEF Invite!IInv

LEMMA InviteCommitInvite ==
  ASSUME Invite!IInv, NEW t \in Txns, Invite!CommitInvite(t), UNCHANGED searchable
  PROVE  Invite!IInv'
  <1> DEFINE i == inviteReq[t].invitation
             s == inviteReq[t].slot
             r == [slot |-> s, status |-> "sent", responded |-> FALSE]
             e == [from |-> Invite!NoStatus, to |-> "sent", role |-> "employer"]
  <1>1. /\ Invite!TypeOK /\ Invite!LocksOK /\ Invite!RequestOK(t)
        /\ \A u \in Txns : Invite!RequestOK(u)
        /\ \A j \in Invites : ChainOf(invitationHistory[j], invitation[j])
        /\ invitePc[t] = "commitInvite" /\ Invite!Finish(t)
    BY ChainsAre DEF Invite!IInv, Invite!CommitInvite
  <1>2. /\ i \in Invites /\ ~Invite!Exists(i) /\ s \in Invite!Slots
        /\ Invite!OpenRows(s) = {}
    BY <1>1 DEF Invite!RequestOK
  <1>3. /\ invitation' = [invitation EXCEPT ![i] = r]
        /\ invitationHistory' = [invitationHistory EXCEPT ![i] = Append(@, e)]
    BY DEF Invite!CommitInvite, Invite!Record
  <1>4. /\ r \in Invite!Row /\ r.slot = s /\ r.status = "sent" /\ r.responded = FALSE
        /\ r.status # Invite!NoStatus
    BY <1>2 DEF Invite!Row, Invite!InvitationStatuses, Invite!NoStatus
  <1>5. e \in Invite!HistoryRow
    BY DEF Invite!HistoryRow, Invite!InvitationStatuses
  <1>6. ChainOf(Append(invitationHistory[i], e), r)
    <2>1. invitationHistory[i] = <<>>
      BY <1>1, <1>2 DEF ChainOf, Invite!Exists
    <2>2. QED
      BY <1>4, <2>1, ChainBegins
  <1>7. ASSUME NEW u \in Txns, u # t
        PROVE  /\ invitePc[u] \in {"commitInvite", "commitRespond"} =>
                    inviteReq[u].invitation # i
               /\ invitePc[u] = "commitInvite" => inviteReq[u].slot # r.slot
    <2>1. invitePc[u] = "commitInvite" =>
            inviteReq[u].slot # s /\ inviteReq[u].invitation # i
      BY <1>1, <1>7 DEF Invite!LocksOK
    <2>2. invitePc[u] = "commitRespond" => inviteReq[u].invitation # i
      BY <1>1, <1>2 DEF Invite!RequestOK
    <2>3. QED
      BY <1>4, <2>1, <2>2
  <1> HIDE DEF r, e
  <1>8. Invite!OpenRows(r.slot) \subseteq {i}
    BY <1>2, <1>4
  <1>9. QED
    BY <1>1, <1>2, <1>3, <1>4, <1>5, <1>6, <1>7, <1>8, InviteCommitRow

LEMMA InviteCommitRespond ==
  ASSUME Invite!IInv, NEW t \in Txns, Invite!CommitRespond(t), UNCHANGED searchable
  PROVE  Invite!IInv'
  <1> DEFINE i  == inviteReq[t].invitation
             to == inviteReq[t].to
             r  == Invite!Answered(invitation[i], to)
             e  == [from |-> inviteReq[t].from, to |-> to, role |-> "candidate"]
  <1>1. /\ Invite!TypeOK /\ Invite!LocksOK /\ Invite!RequestOK(t) /\ Invite!OneOpenPerSlot
        /\ \A u \in Txns : Invite!RequestOK(u)
        /\ \A j \in Invites : ChainOf(invitationHistory[j], invitation[j])
        /\ invitePc[t] = "commitRespond" /\ Invite!Finish(t)
    BY ChainsAre DEF Invite!IInv, Invite!CommitRespond
  <1>2. /\ i \in Invites /\ Invite!Exists(i) /\ to \in Invite!CandidateResponses
        /\ inviteReq[t].from = invitation[i].status
        /\ Invite!CanRespond(inviteReq[t].from, to)
    BY <1>1 DEF Invite!RequestOK
  <1>3. /\ invitation' = [invitation EXCEPT ![i] = r]
        /\ invitationHistory' = [invitationHistory EXCEPT ![i] = Append(@, e)]
    BY DEF Invite!CommitRespond, Invite!Record
  <1>4. invitation[i] \in Invite!Row /\ invitation[i].status \in Invite!InvitationStatuses
    BY <1>1, <1>2 DEF Invite!TypeOK, Invite!Row, Invite!Exists
  <1>5. /\ r \in Invite!Row /\ r.slot = invitation[i].slot /\ r.status = to
        /\ r.responded = TRUE /\ r.status # Invite!NoStatus
    BY <1>2, <1>4 DEF Invite!Row, Invite!InvitationStatuses, Invite!NoStatus,
                      Invite!Answered, Invite!CandidateResponses
  <1>6. e \in Invite!HistoryRow /\ e.from = invitation[i].status /\ e.to = to
    BY <1>2, <1>4 DEF Invite!HistoryRow, Invite!InvitationStatuses, Invite!CandidateResponses
  <1>7. invitationHistory[i] \in Seq(Invite!HistoryRow)
    BY <1>1, <1>2 DEF Invite!TypeOK
  <1>8. i \in Invite!OpenRows(r.slot)
    BY <1>2, <1>4, <1>5
       DEF Invite!OpenRows, Invite!CanRespond, Invite!IsTerminal, Invite!OccupiesOpenSlot,
           Invite!InvitationStatuses
  <1>9. \A u \in Txns : u # t =>
          /\ invitePc[u] \in {"commitInvite", "commitRespond"} => inviteReq[u].invitation # i
          /\ invitePc[u] = "commitInvite" => inviteReq[u].slot # r.slot
    BY <1>1, <1>2, <1>8 DEF Invite!LocksOK, Invite!RequestOK
  <1>10. Invite!OpenRows(r.slot) \subseteq {i}
    BY <1>1, <1>2, <1>8 DEF Invite!OneOpenPerSlot, Invite!OpenRows, Invite!Exists
  <1> HIDE DEF r, e
  <1>11. ChainOf(Append(invitationHistory[i], e), r)
    BY <1>1, <1>2, <1>5, <1>6, <1>7, ChainGoesOn DEF Invite!Exists
  <1>12. QED
    BY <1>1, <1>2, <1>3, <1>5, <1>6, <1>9, <1>10, <1>11, InviteCommitRow

LEMMA InviteNext ==
  ASSUME Invite!IInv, Invite!Next, UNCHANGED searchable
  PROVE  Invite!IInv'
  <1>1. ASSUME NEW t \in Txns, Invite!Rollback(t) PROVE Invite!IInv'
    BY <1>1, InviteRefuse DEF Invite!Rollback
  <1>2. QED
    BY <1>1, InviteBeginInvite, InviteBeginRespond, InviteCheckOpen, InviteInsert,
       InviteCommitInvite, InviteLockInvitation, InviteCommitRespond DEF Invite!Next


--------------------------------------------------------------------------------
(* Chat *)

LEMMA TalkInit == Talk!Init /\ arrived = 0 => Talk!IInv
  <1> SUFFICES ASSUME Talk!Init, arrived = 0 PROVE Talk!IInv
    OBVIOUS
  <1> USE DEF Talk!Init
  <1>1. Talk!TypeOK
    <2>1. Talk!NoRequest \in Talk!Request /\ Talk!NoRow \in Talk!Row
      BY DEF Talk!NoRequest, Talk!Request, Talk!NoRow, Talk!Row, Talk!Sides
    <2>2. Linked \subseteq Talk!Pairs
      BY DEF Linked, Talk!Pairs
    <2>3. QED
      BY <2>1, <2>2 DEF Talk!TypeOK
  <1>2. \A t \in Txns : Talk!RequestOK(t)
    <2>1. Talk!NoRequest.gateAt = 0 /\ Talk!NoRequest.at = 0
      BY DEF Talk!NoRequest
    <2>2. QED
      BY <2>1 DEF Talk!RequestOK, Talk!SendPcs
  <1>3. Talk!MessagesOK /\ Talk!OneThreadPerPair /\ Talk!ActivityIsReal
    BY DEF Talk!MessagesOK, Talk!OneThreadPerPair, Talk!ActivityIsReal, Talk!Exists,
           Talk!NoRow
  <1>4. QED
    BY <1>1, <1>2, <1>3 DEF Talk!IInv

\* What the board and the invitations do leaves the chat as it is.
LEMMA TalkUnchanged ==
  ASSUME Talk!IInv, UNCHANGED chatVars, arrived' \in Nat
  PROVE  Talk!IInv'
  <1>1. Talk!TypeOK'
    BY DEF Talk!IInv, Talk!TypeOK, chatVars, Linked, Talk!Pairs
  <1>2. (\A t \in Txns : Talk!RequestOK(t))'
    BY DEF Talk!IInv, chatVars, Talk!RequestOK, Talk!Exists, Talk!SendPcs
  <1>3. Talk!MessagesOK' /\ Talk!OneThreadPerPair' /\ Talk!ActivityIsReal'
    BY DEF Talk!IInv, chatVars, Talk!MessagesOK, Talk!OneThreadPerPair,
           Talk!ActivityIsReal, Talk!Exists
  <1>4. QED
    BY <1>1, <1>2, <1>3 DEF Talk!IInv

\* What holds of the columns and of a request, whatever its statement.
LEMMA TalkTypes ==
  ASSUME Talk!TypeOK
  PROVE  /\ clock \in Nat
         /\ \A u \in Txns : /\ chatReq[u] \in Talk!Request
                            /\ chatReq[u].gateAt \in Nat /\ chatReq[u].at \in Nat
                            /\ \A m \in chatReq[u].seen : m.at \in Nat
         /\ \A c \in Threads : \A m \in messages[c] : m.at \in Nat
         /\ \A c \in Threads, s \in Talk!Sides : block[c][s] \in Nat
  <1>1. \A u \in Txns : /\ chatReq[u] \in Talk!Request
                        /\ chatReq[u].gateAt \in Nat /\ chatReq[u].at \in Nat
                        /\ chatReq[u].seen \subseteq Talk!Message
    BY DEF Talk!TypeOK, Talk!Request
  <1>2. \A m \in Talk!Message : m.at \in Nat
    BY DEF Talk!Message
  <1>3. QED
    BY <1>1, <1>2 DEF Talk!TypeOK

\* A request that takes no step keeps what it carries: threads stay, blocks that are set
\* meanwhile are younger than its gate, and the clock does not go back.
LEMMA TalkOthers ==
  ASSUME Talk!TypeOK, NEW u \in Txns, Talk!RequestOK(u),
         chatPc'[u] = chatPc[u], chatReq'[u] = chatReq[u],
         \A c \in Threads : Talk!Exists(c) => thread'[c].pair = thread[c].pair,
         clock' \in Nat, clock <= clock',
         \A c \in Threads, s \in Talk!Sides :
           block'[c][s] = block[c][s] \/ block'[c][s] = 0 \/ block'[c][s] = clock + 1
  PROVE  Talk!RequestOK(u)'
  <1> DEFINE r == chatReq[u]
  <1>1. /\ clock \in Nat /\ r \in Talk!Request /\ r.gateAt \in Nat /\ r.at \in Nat
        /\ \A m \in r.seen : m.at \in Nat
        /\ \A c \in Threads, s \in Talk!Sides : block[c][s] \in Nat
    BY TalkTypes
  <1>2. /\ r.gateAt <= clock' /\ r.at <= clock'
        /\ chatPc[u] = "mark" => \A m \in r.seen : m.at <= clock'
    BY <1>1 DEF Talk!RequestOK
  <1>3. chatPc[u] \in Talk!SendPcs \cup {"mark", "commitMark"} =>
          r.thread \in Threads /\ r.thread # Null /\ Talk!Exists(r.thread)
    BY <1>1 DEF Talk!RequestOK, Talk!Request
  <1>4. \A c \in Threads : Talk!Exists(c) => Talk!Exists(c)'
    BY DEF Talk!Exists
  <1>5. chatPc[u] \in Talk!SendPcs =>
          \A s \in Talk!Sides : block'[r.thread][s] # 0 => block'[r.thread][s] > r.gateAt
    <2> SUFFICES ASSUME chatPc[u] \in Talk!SendPcs, NEW s \in Talk!Sides,
                        block'[r.thread][s] # 0
                 PROVE  block'[r.thread][s] > r.gateAt
      OBVIOUS
    <2>1. r.gateAt <= clock /\ (block[r.thread][s] # 0 => block[r.thread][s] > r.gateAt)
      BY DEF Talk!RequestOK
    <2>2. block'[r.thread][s] = block[r.thread][s] \/ block'[r.thread][s] = clock + 1
      BY <1>3
    <2>3. CASE block'[r.thread][s] = block[r.thread][s]
      BY <2>1, <2>3
    <2>4. CASE block'[r.thread][s] = clock + 1
      BY <1>1, <2>1, <2>4
    <2>5. QED
      BY <2>2, <2>3, <2>4
  <1>6. QED
    BY <1>2, <1>3, <1>4, <1>5 DEF Talk!RequestOK, Talk!SendPcs

\* A step of one request that writes no table owes its own part alone.
LEMMA TalkFrame ==
  ASSUME Talk!IInv, NEW t \in Txns, UNCHANGED Talk!tables, clock' \in Nat, clock <= clock',
         \A u \in Txns : u # t => chatPc'[u] = chatPc[u] /\ chatReq'[u] = chatReq[u],
         Talk!TypeOK', Talk!RequestOK(t)'
  PROVE  Talk!IInv'
  <1>1. Talk!TypeOK /\ \A u \in Txns : Talk!RequestOK(u)
    BY DEF Talk!IInv
  <1>2. UNCHANGED <<thread, messages, block>>
    BY DEF Talk!tables
  <1>3. ASSUME NEW u \in Txns PROVE Talk!RequestOK(u)'
    <2>1. CASE u = t
      BY <2>1
    <2>2. CASE u # t
      BY <1>1, <1>2, <2>2, TalkOthers
    <2>3. QED
      BY <2>1, <2>2
  <1>4. Talk!MessagesOK'
    <2>1. clock \in Nat /\ \A c \in Threads : \A m \in messages[c] : m.at \in Nat
      BY <1>1, TalkTypes
    <2>2. QED
      BY <1>2, <2>1 DEF Talk!IInv, Talk!MessagesOK, Talk!Exists
  <1>5. Talk!OneThreadPerPair' /\ Talk!ActivityIsReal'
    BY <1>2 DEF Talk!IInv, Talk!OneThreadPerPair, Talk!ActivityIsReal, Talk!Exists
  <1>6. QED
    BY <1>3, <1>4, <1>5 DEF Talk!IInv

LEMMA TalkArrive ==
  ASSUME Talk!IInv, NEW t \in Txns, NEW p \in {"find", "askInteraction", "mark"},
         NEW r \in Talk!Request, Talk!Arrive(t, p, r),
         p = "find" => r.pair \in Talk!Pairs,
         p \in {"askInteraction", "mark"} => r.thread \in Threads /\ Talk!Exists(r.thread),
         r.gateAt <= clock, r.at <= clock,
         p = "askInteraction" => ~Talk!Blocked(r.thread, r.side),
         p = "mark" => \A m \in r.seen : m.at <= clock
  PROVE  Talk!IInv'
  <1>1. Talk!TypeOK /\ clock \in Nat
    BY DEF Talk!IInv, Talk!TypeOK
  <1>2. /\ chatPc'[t] = p /\ chatReq'[t] = r /\ UNCHANGED Talk!tables /\ clock' = clock
        /\ \A u \in Txns : u # t =>
             chatPc'[u] = chatPc[u] /\ chatReq'[u] = chatReq[u]
    BY <1>1 DEF Talk!TypeOK, Talk!Arrive
  <1>3. Talk!TypeOK'
    BY <1>1, BoundAssumption
       DEF Talk!TypeOK, Talk!Arrive, Talk!tables, Linked, Talk!Pairs
  <1>4. Talk!RequestOK(t)'
    BY <1>2, NullAssumption DEF Talk!RequestOK, Talk!Exists, Talk!tables, Talk!SendPcs,
                                Talk!Blocked
  <1>5. QED
    BY <1>1, <1>2, <1>3, <1>4, TalkFrame

LEMMA TalkNoRequest ==
  Talk!NoRequest \in Talk!Request /\ Talk!NoRequest.gateAt = 0 /\ Talk!NoRequest.at = 0
  BY DEF Talk!NoRequest, Talk!Request, Talk!Sides

\* A request that ends without a write.
LEMMA TalkFinish ==
  ASSUME Talk!IInv, NEW t \in Txns, Talk!Finish(t), UNCHANGED <<Talk!tables, clock>>
  PROVE  Talk!IInv'
  <1>1. Talk!TypeOK /\ clock \in Nat
    BY DEF Talk!IInv, Talk!TypeOK
  <1>2. /\ chatPc'[t] = "idle" /\ chatReq'[t] = Talk!NoRequest
        /\ \A u \in Txns : u # t =>
             chatPc'[u] = chatPc[u] /\ chatReq'[u] = chatReq[u]
    BY <1>1 DEF Talk!TypeOK, Talk!Finish, Talk!Goto
  <1>3. Talk!TypeOK'
    BY <1>1, TalkNoRequest
       DEF Talk!TypeOK, Talk!Finish, Talk!Goto, Talk!tables, Linked, Talk!Pairs
  <1>4. Talk!RequestOK(t)'
    BY <1>1, <1>2, TalkNoRequest DEF Talk!RequestOK, Talk!SendPcs
  <1>5. QED
    BY <1>1, <1>2, <1>3, <1>4, TalkFrame

\* The next statement of a request that has read nothing new.
LEMMA TalkGoto ==
  ASSUME Talk!IInv, NEW t \in Txns, NEW p \in {"create", "insertMessage", "commitMessage"},
         Talk!Goto(t, p), UNCHANGED <<Talk!tables, clock, chatReq>>,
         p = "create" => chatPc[t] = "find",
         p \in {"insertMessage", "commitMessage"} => chatPc[t] \in Talk!SendPcs
  PROVE  Talk!IInv'
  <1>1. Talk!TypeOK /\ clock \in Nat /\ Talk!RequestOK(t)
    BY DEF Talk!IInv, Talk!TypeOK
  <1>2. /\ chatPc'[t] = p
        /\ \A u \in Txns : u # t => chatPc'[u] = chatPc[u]
    BY <1>1 DEF Talk!TypeOK, Talk!Goto
  <1>3. Talk!TypeOK'
    BY <1>1 DEF Talk!TypeOK, Talk!Goto, Talk!tables, Linked, Talk!Pairs
  <1>4. Talk!RequestOK(t)'
    BY <1>1, <1>2 DEF Talk!RequestOK, Talk!SendPcs, Talk!Exists, Talk!tables
  <1>5. QED
    BY <1>1, <1>2, <1>3, <1>4, TalkFrame

\* A transaction or a lone statement begins: every time there is, is before its own.
LEMMA TalkStamp ==
  ASSUME Talk!IInv, NEW t \in Txns, NEW p \in {"touch", "commitMark"},
         Talk!Goto(t, p), Talk!Stamp(t), UNCHANGED Talk!tables,
         p = "touch" => chatPc[t] \in Talk!SendPcs,
         p = "commitMark" => chatPc[t] = "mark"
  PROVE  Talk!IInv'
  <1>1. Talk!TypeOK /\ clock \in Nat /\ clock' = clock + 1 /\ Talk!RequestOK(t)
    BY DEF Talk!IInv, Talk!TypeOK, Talk!Stamp
  <1>2. /\ chatPc'[t] = p
        /\ chatReq' = [chatReq EXCEPT ![t].at = clock + 1]
        /\ \A u \in Txns : u # t =>
             chatPc'[u] = chatPc[u] /\ chatReq'[u] = chatReq[u]
    BY <1>1 DEF Talk!TypeOK, Talk!Goto, Talk!Stamp
  <1>3. /\ chatReq'[t].pair = chatReq[t].pair /\ chatReq'[t].thread = chatReq[t].thread
        /\ chatReq'[t].gateAt = chatReq[t].gateAt /\ chatReq'[t].seen = chatReq[t].seen
        /\ chatReq'[t].at = clock + 1
    BY <1>1, <1>2 DEF Talk!TypeOK, Talk!Request
  <1>4. chatReq' \in [Txns -> Talk!Request]
    <2>1. chatReq \in [Txns -> Talk!Request] /\ clock + 1 \in Nat
      BY <1>1 DEF Talk!TypeOK
    <2>2. [chatReq[t] EXCEPT !.at = clock + 1] \in Talk!Request
      BY <2>1 DEF Talk!Request
    <2>3. chatReq' = [chatReq EXCEPT ![t] = [chatReq[t] EXCEPT !.at = clock + 1]]
      BY <1>2, <2>1
    <2>4. QED
      BY <2>1, <2>2, <2>3
  <1>5. Talk!TypeOK'
    BY <1>1, <1>4 DEF Talk!TypeOK, Talk!Goto, Talk!tables, Linked, Talk!Pairs
  <1>6. Talk!RequestOK(t)'
    <2>1. chatReq[t].gateAt \in Nat /\ \A m \in chatReq[t].seen : m.at \in Nat
      BY <1>1, TalkTypes
    <2>2. chatReq[t].gateAt <= clock + 1
      BY <1>1, <2>1 DEF Talk!RequestOK
    <2>3. p = "commitMark" => \A m \in chatReq[t].seen : m.at <= clock + 1
      BY <1>1, <2>1 DEF Talk!RequestOK
    <2>4. QED
      BY <1>1, <1>2, <1>3, <2>2, <2>3
         DEF Talk!RequestOK, Talk!SendPcs, Talk!Exists, Talk!tables
  <1>7. QED
    BY <1>1, <1>2, <1>5, <1>6, TalkFrame

\* The gate: a thread that is there and has no block of either side.
LEMMA TalkBeginSend ==
  ASSUME Talk!IInv, NEW t \in Txns, NEW c \in Threads, NEW side \in Talk!Sides,
         Talk!BeginSend(t, c, side)
  PROVE  Talk!IInv'
  <1> DEFINE r == [Talk!NoRequest EXCEPT !.thread = c, !.side = side, !.gateAt = clock]
  <1>1. clock \in Nat
    BY DEF Talk!IInv, Talk!TypeOK
  <1>2. /\ r \in Talk!Request /\ r.thread = c /\ r.side = side
        /\ r.gateAt = clock /\ r.at = 0
    BY <1>1, TalkNoRequest DEF Talk!NoRequest, Talk!Request
  <1>3. Talk!Arrive(t, "askInteraction", r) /\ Talk!Exists(c) /\ ~Talk!Blocked(c, side)
    BY DEF Talk!BeginSend
  <1> HIDE DEF r
  <1>4. r.gateAt <= clock /\ r.at <= clock
    BY <1>1, <1>2
  <1>5. QED
    BY <1>2, <1>3, <1>4, TalkArrive

LEMMA TalkBeginMarkRead ==
  ASSUME Talk!IInv, NEW t \in Txns, NEW c \in Threads, NEW side \in Talk!Sides,
         Talk!BeginMarkRead(t, c, side)
  PROVE  Talk!IInv'
  <1> DEFINE shown == {m \in messages[c] : m.from = Talk!Other(side)}
             r == [Talk!NoRequest EXCEPT !.thread = c, !.side = side, !.seen = shown]
  <1>1. clock \in Nat /\ Talk!TypeOK /\ Talk!MessagesOK
    BY DEF Talk!IInv, Talk!TypeOK
  <1>2. shown \subseteq Talk!Message /\ \A m \in shown : m.at <= clock
    BY <1>1 DEF Talk!TypeOK, Talk!MessagesOK
  <1>3. Talk!Arrive(t, "mark", r) /\ Talk!Exists(c)
    BY DEF Talk!BeginMarkRead
  <1> HIDE DEF shown
  <1>4. /\ r \in Talk!Request /\ r.thread = c /\ r.seen = shown
        /\ r.gateAt = 0 /\ r.at = 0
    BY <1>2, TalkNoRequest DEF Talk!NoRequest, Talk!Request
  <1> HIDE DEF r
  <1>5. r.gateAt <= clock /\ r.at <= clock
    BY <1>1, <1>4
  <1>6. QED
    BY <1>2, <1>3, <1>4, <1>5, TalkArrive

LEMMA TalkBeginOpen ==
  ASSUME Talk!IInv, NEW t \in Txns, NEW pair \in Talk!Pairs, Talk!BeginOpen(t, pair)
  PROVE  Talk!IInv'
  <1> DEFINE r == [Talk!NoRequest EXCEPT !.pair = pair]
  <1>1. clock \in Nat
    BY DEF Talk!IInv, Talk!TypeOK
  <1>2. r \in Talk!Request /\ r.pair = pair /\ r.gateAt = 0 /\ r.at = 0
    BY TalkNoRequest DEF Talk!NoRequest, Talk!Request
  <1>3. Talk!Arrive(t, "find", r)
    BY DEF Talk!BeginOpen
  <1> HIDE DEF r
  <1>4. r.gateAt <= clock /\ r.at <= clock
    BY <1>1, <1>2
  <1>5. QED
    BY <1>2, <1>3, <1>4, TalkArrive

\* What others carry through a step that ends request t and writes the tables.
LEMMA TalkCommitFrame ==
  ASSUME Talk!IInv, NEW t \in Txns, Talk!Finish(t), UNCHANGED <<block, clock>>,
         \A c \in Threads : Talk!Exists(c) => thread'[c].pair = thread[c].pair
  PROVE  \A u \in Txns : Talk!RequestOK(u)'
  <1>1. Talk!TypeOK /\ clock \in Nat /\ \A u \in Txns : Talk!RequestOK(u)
    BY DEF Talk!IInv, Talk!TypeOK
  <1>2. /\ chatPc'[t] = "idle" /\ chatReq'[t] = Talk!NoRequest
        /\ \A u \in Txns : u # t =>
             chatPc'[u] = chatPc[u] /\ chatReq'[u] = chatReq[u]
    BY <1>1 DEF Talk!TypeOK, Talk!Finish, Talk!Goto
  <1>3. Talk!RequestOK(t)'
    BY <1>1, <1>2, TalkNoRequest DEF Talk!RequestOK, Talk!SendPcs
  <1>4. ASSUME NEW u \in Txns, u # t PROVE Talk!RequestOK(u)'
    BY <1>1, <1>2, <1>4, TalkOthers
  <1>5. QED
    BY <1>3, <1>4

\* The unique index gives a pair its thread once.
LEMMA TalkCreateThread ==
  ASSUME Talk!IInv, NEW t \in Txns, Talk!CreateThread(t)
  PROVE  Talk!IInv'
  <1>1. CASE UNCHANGED thread
    BY <1>1, TalkFinish DEF Talk!CreateThread, Talk!tables
  <1>2. CASE thread' # thread
    <2>1. PICK c \in Threads : /\ Talk!Of(chatReq[t].pair) = {} /\ ~Talk!Exists(c)
                               /\ thread' = [thread EXCEPT ![c].pair = chatReq[t].pair]
      BY <1>2 DEF Talk!CreateThread
    <2>2. /\ Talk!Finish(t) /\ UNCHANGED <<messages, block, clock>>
          /\ Talk!TypeOK /\ Talk!RequestOK(t) /\ chatPc[t] = "create"
      BY DEF Talk!CreateThread, Talk!IInv
    <2>3. chatReq[t].pair \in Talk!Pairs
      BY <2>2 DEF Talk!RequestOK
    <2>4. /\ thread' \in [Threads -> Talk!Row]
          /\ thread'[c].pair = chatReq[t].pair /\ thread'[c].lastAt = thread[c].lastAt
          /\ \A d \in Threads : d # c => thread'[d] = thread[d]
      BY <2>1, <2>2, <2>3 DEF Talk!TypeOK, Talk!Row
    <2>5. Talk!TypeOK'
      BY <2>2, <2>4, TalkNoRequest
         DEF Talk!TypeOK, Talk!Finish, Talk!Goto, Linked, Talk!Pairs
    <2>6. \A d \in Threads : Talk!Exists(d) => thread'[d].pair = thread[d].pair
      BY <2>1, <2>4
    <2>7. \A u \in Txns : Talk!RequestOK(u)'
      BY <2>2, <2>6, TalkCommitFrame
    <2>8. Talk!MessagesOK'
      BY <2>2, <2>6 DEF Talk!IInv, Talk!MessagesOK, Talk!Exists
    <2>9. Talk!OneThreadPerPair'
      BY <2>1, <2>4 DEF Talk!IInv, Talk!OneThreadPerPair, Talk!Exists, Talk!Of
    <2>10. Talk!ActivityIsReal'
      BY <2>2, <2>4 DEF Talk!IInv, Talk!ActivityIsReal
    <2>11. QED
      BY <2>5, <2>7, <2>8, <2>9, <2>10 DEF Talk!IInv
  <1>3. QED
    BY <1>1, <1>2

\* The message and the time of the last activity are one commit.
LEMMA TalkCommitMessage ==
  ASSUME Talk!IInv, NEW t \in Txns, Talk!CommitMessage(t)
  PROVE  Talk!IInv'
  <1> DEFINE c == chatReq[t].thread
             m == [from |-> chatReq[t].side, at |-> chatReq[t].at]
  <1>1. /\ Talk!TypeOK /\ Talk!RequestOK(t) /\ chatPc[t] = "commitMessage"
        /\ Talk!Finish(t) /\ UNCHANGED <<block, clock>>
        /\ messages' = [messages EXCEPT ![c] = @ \cup {m}]
        /\ thread' = [thread EXCEPT ![c].lastAt = chatReq[t].at]
    BY DEF Talk!IInv, Talk!CommitMessage
  <1>2. /\ c \in Threads /\ Talk!Exists(c)
        /\ chatReq[t].at \in Nat /\ chatReq[t].at <= clock
    BY <1>1, TalkTypes DEF Talk!RequestOK, Talk!SendPcs, Talk!Request
  <1>3. m \in Talk!Message /\ m.at = chatReq[t].at
    BY <1>1, <1>2, TalkTypes DEF Talk!Message, Talk!Request
  <1> HIDE DEF m
  <1>4. /\ messages' \in [Threads -> SUBSET Talk!Message]
        /\ messages'[c] = messages[c] \cup {m}
        /\ \A d \in Threads : d # c => messages'[d] = messages[d]
    BY <1>1, <1>2, <1>3 DEF Talk!TypeOK
  <1>5. /\ thread' \in [Threads -> Talk!Row]
        /\ thread'[c].lastAt = chatReq[t].at
        /\ \A d \in Threads : d # c => thread'[d] = thread[d]
        /\ \A d \in Threads : thread'[d].pair = thread[d].pair
    BY <1>1, <1>2 DEF Talk!TypeOK, Talk!Row
  <1>6. Talk!TypeOK'
    BY <1>1, <1>4, <1>5, TalkNoRequest
       DEF Talk!TypeOK, Talk!Finish, Talk!Goto, Linked, Talk!Pairs
  <1>7. \A u \in Txns : Talk!RequestOK(u)'
    BY <1>1, <1>5, TalkCommitFrame
  <1>8. Talk!MessagesOK'
    <2> SUFFICES ASSUME NEW d \in Threads, messages'[d] # {}
                 PROVE  Talk!Exists(d)' /\ \A k \in messages'[d] : k.at <= clock
      BY <1>1 DEF Talk!MessagesOK
    <2>1. CASE d = c
      BY <1>2, <1>3, <1>4, <1>5, <2>1 DEF Talk!IInv, Talk!MessagesOK, Talk!Exists
    <2>2. CASE d # c
      BY <1>4, <1>5, <2>2 DEF Talk!IInv, Talk!MessagesOK, Talk!Exists
    <2>3. QED
      BY <2>1, <2>2
  <1>9. Talk!OneThreadPerPair'
    BY <1>5 DEF Talk!IInv, Talk!OneThreadPerPair, Talk!Exists
  <1>10. Talk!ActivityIsReal'
    <2> SUFFICES ASSUME NEW d \in Threads
                 PROVE  IF messages'[d] = {} THEN thread'[d].lastAt = 0
                        ELSE \E k \in messages'[d] : k.at = thread'[d].lastAt
      BY DEF Talk!ActivityIsReal
    <2>1. CASE d = c
      <3>1. m \in messages'[d] /\ m.at = thread'[d].lastAt
        BY <1>3, <1>4, <1>5, <2>1
      <3>2. QED
        BY <3>1
    <2>2. CASE d # c
      BY <1>4, <1>5, <2>2 DEF Talk!IInv, Talk!ActivityIsReal
    <2>3. QED
      BY <2>1, <2>2
  <1>11. QED
    BY <1>6, <1>7, <1>8, <1>9, <1>10 DEF Talk!IInv

LEMMA TalkCommitMark ==
  ASSUME Talk!IInv, NEW t \in Txns, Talk!CommitMark(t)
  PROVE  Talk!IInv'
  <1> DEFINE c == chatReq[t].thread
             s == chatReq[t].side
  <1>1. /\ Talk!TypeOK /\ Talk!RequestOK(t) /\ chatPc[t] = "commitMark"
        /\ Talk!Finish(t) /\ UNCHANGED <<messages, block, clock>>
        /\ thread' = [thread EXCEPT ![c].readAt[s] = chatReq[t].at]
    BY DEF Talk!IInv, Talk!CommitMark
  <1>2. c \in Threads /\ s \in Talk!Sides /\ chatReq[t].at \in Nat
    BY <1>1, TalkTypes DEF Talk!RequestOK, Talk!SendPcs, Talk!Request
  <1>3. /\ thread' \in [Threads -> Talk!Row]
        /\ \A d \in Threads : /\ thread'[d].pair = thread[d].pair
                              /\ thread'[d].lastAt = thread[d].lastAt
    BY <1>1, <1>2 DEF Talk!TypeOK, Talk!Row
  <1>4. Talk!TypeOK'
    BY <1>1, <1>3, TalkNoRequest
       DEF Talk!TypeOK, Talk!Finish, Talk!Goto, Linked, Talk!Pairs
  <1>5. \A u \in Txns : Talk!RequestOK(u)'
    BY <1>1, <1>3, TalkCommitFrame
  <1>6. Talk!MessagesOK' /\ Talk!OneThreadPerPair' /\ Talk!ActivityIsReal'
    BY <1>1, <1>3 DEF Talk!IInv, Talk!MessagesOK, Talk!OneThreadPerPair,
                      Talk!ActivityIsReal, Talk!Exists
  <1>7. QED
    BY <1>4, <1>5, <1>6 DEF Talk!IInv

\* A block that is set now is younger than every gate that has been passed.
LEMMA TalkBlocks ==
  ASSUME Talk!IInv, NEW c \in Threads, NEW side \in Talk!Sides,
         Talk!Block(c, side) \/ Talk!Unblock(c, side)
  PROVE  Talk!IInv'
  <1>1. /\ Talk!TypeOK /\ clock \in Nat /\ arrived' \in Nat
        /\ UNCHANGED <<thread, messages, chatPc, chatReq>>
        /\ clock' = clock + 1 \/ clock' = clock
    BY DEF Talk!IInv, Talk!TypeOK, Talk!Block, Talk!Unblock
  <1>2. clock' \in Nat /\ clock <= clock'
    BY <1>1
  <1>3. PICK n \in Nat : /\ block' = [block EXCEPT ![c][side] = n]
                         /\ n = block[c][side] \/ n = 0 \/ n = clock + 1
    <2>1. CASE Talk!Block(c, side)
      <3> DEFINE n == IF block[c][side] = 0 THEN clock + 1 ELSE block[c][side]
      <3>1. n \in Nat /\ (n = block[c][side] \/ n = clock + 1)
        BY <1>1 DEF Talk!TypeOK
      <3>2. block' = [block EXCEPT ![c][side] = n]
        BY <2>1 DEF Talk!Block
      <3>3. QED
        BY <3>1, <3>2
    <2>2. CASE Talk!Unblock(c, side)
      BY <2>2 DEF Talk!Unblock
    <2>3. QED
      BY <2>1, <2>2
  <1>4. /\ block' \in [Threads -> [Talk!Sides -> Nat]]
        /\ \A d \in Threads, s \in Talk!Sides :
             block'[d][s] = block[d][s] \/ block'[d][s] = 0 \/ block'[d][s] = clock + 1
    BY <1>1, <1>3 DEF Talk!TypeOK
  <1>5. Talk!TypeOK'
    BY <1>1, <1>2, <1>4 DEF Talk!TypeOK, Linked, Talk!Pairs
  <1>6. ASSUME NEW u \in Txns PROVE Talk!RequestOK(u)'
    <2>1. Talk!RequestOK(u)
      BY DEF Talk!IInv
    <2>2. QED
      BY <1>1, <1>2, <1>4, <2>1, TalkOthers
  <1>7. Talk!MessagesOK'
    <2>1. \A d \in Threads : \A m \in messages[d] : m.at \in Nat
      BY <1>1, TalkTypes
    <2>2. QED
      BY <1>1, <1>2, <2>1 DEF Talk!IInv, Talk!MessagesOK, Talk!Exists
  <1>8. Talk!OneThreadPerPair' /\ Talk!ActivityIsReal'
    BY <1>1 DEF Talk!IInv, Talk!OneThreadPerPair, Talk!ActivityIsReal, Talk!Exists
  <1>9. QED
    BY <1>5, <1>6, <1>7, <1>8 DEF Talk!IInv

LEMMA TalkNext ==
  ASSUME Talk!IInv, Talk!Next
  PROVE  Talk!IInv'
  <1>1. ASSUME NEW t \in Txns, Talk!FindThread(t) PROVE Talk!IInv'
    BY <1>1, TalkFinish, TalkGoto DEF Talk!FindThread
  <1>2. ASSUME NEW t \in Txns, Talk!AskInteraction(t) PROVE Talk!IInv'
    <2>1. chatPc[t] \in Talk!SendPcs
      BY <1>2 DEF Talk!AskInteraction, Talk!SendPcs
    <2>2. QED
      BY <1>2, <2>1, TalkFinish, TalkGoto DEF Talk!AskInteraction
  <1>3. ASSUME NEW t \in Txns, Talk!InsertMessage(t) \/ Talk!Touch(t) \/ Talk!Mark(t)
        PROVE  Talk!IInv'
    <2>1. chatPc[t] \in Talk!SendPcs \/ Talk!Mark(t)
      BY <1>3 DEF Talk!InsertMessage, Talk!Touch, Talk!SendPcs
    <2>2. QED
      BY <1>3, <2>1, TalkStamp, TalkGoto DEF Talk!InsertMessage, Talk!Touch, Talk!Mark
  <1>4. ASSUME NEW t \in Txns, Talk!Rollback(t) PROVE Talk!IInv'
    BY <1>4, TalkFinish DEF Talk!Rollback
  <1>5. QED
    BY <1>1, <1>2, <1>3, <1>4, TalkBeginOpen, TalkBeginSend, TalkBeginMarkRead,
       TalkCreateThread, TalkCommitMessage, TalkCommitMark, TalkBlocks DEF Talk!Next


--------------------------------------------------------------------------------
(* Consent *)

\* Statements of a send that is past its gate.
PastGate == {"insertMessage", "touch", "commitMessage"}

LEMMA ConsentIs ==
  ASSUME BoardOK, NEW c \in Candidates, Between(c)
  PROVE  Consented(c)
  BY DEF Between, StandingApplication, Consented

\* Consent stays as long as applications keep their candidate and accepted invitations
\* are final.
LEMMA ConsentStays ==
  ASSUME NEW c \in Candidates, Consented(c),
         \A a \in Apps : application[a].candidate # Null =>
           application'[a].candidate = application[a].candidate,
         \A i \in Invites : invitation[i].status = "accepted" =>
           invitation'[i] = invitation[i]
  PROVE  Consented(c)'
  <1>1. c # Null
    BY NullAssumption
  <1>2. QED
    BY <1>1 DEF Consented, AcceptedInvitation

\* What the chat knows stays consented to when nothing of the chat moves.
LEMMA ConsentKept ==
  ASSUME Talk!IInv, GatesPassed, MessagesNeedConsent, UNCHANGED chatVars,
         \A c \in Candidates : Consented(c) => Consented(c)'
  PROVE  GatesPassed' /\ MessagesNeedConsent'
  <1>1. \A c \in Threads : Talk!Exists(c) => thread[c].pair[2] \in Candidates
    BY DEF Talk!IInv, Talk!TypeOK, Talk!Row, Talk!Exists, Talk!Pairs
  <1>2. ASSUME NEW t \in Txns, chatPc[t] \in PastGate
        PROVE  Consented(thread[chatReq[t].thread].pair[2])'
    <2>1. chatReq[t].thread \in Threads /\ Talk!Exists(chatReq[t].thread)
      BY <1>2 DEF Talk!IInv, Talk!TypeOK, Talk!Request, Talk!RequestOK, Talk!SendPcs,
                  PastGate
    <2> DEFINE d == thread[chatReq[t].thread].pair[2]
    <2>2. d \in Candidates /\ Consented(d)
      BY <1>1, <1>2, <2>1 DEF GatesPassed, PastGate
    <2>3. PICK e : e = d
      OBVIOUS
    <2>4. Consented(e)'
      BY <2>2, <2>3
    <2>5. e = d'
      BY <2>3 DEF chatVars
    <2>6. QED
      BY <2>4, <2>5
  <1>3. ASSUME NEW c \in Threads, messages[c] # {}
        PROVE  Consented(thread[c].pair[2])'
    <2> DEFINE d == thread[c].pair[2]
    <2>1. d \in Candidates /\ Consented(d)
      BY <1>1, <1>3 DEF MessagesNeedConsent, Talk!IInv, Talk!MessagesOK
    <2>2. PICK e : e = d
      OBVIOUS
    <2>3. Consented(e)'
      BY <2>1, <2>2
    <2>4. e = d'
      BY <2>2 DEF chatVars
    <2>5. QED
      BY <2>3, <2>4
  <1>4. QED
    BY <1>2, <1>3 DEF GatesPassed, MessagesNeedConsent, PastGate, chatVars

\* An answer is final.
LEMMA AcceptedStays ==
  ASSUME Invite!IInv, Invite!Next, NEW i \in Invites, invitation[i].status = "accepted"
  PROVE  invitation'[i] = invitation[i]
  <1>1. Invite!TypeOK /\ \A t \in Txns : Invite!RequestOK(t)
    BY DEF Invite!IInv
  <1>2. ASSUME NEW t \in Txns, Invite!CommitInvite(t) PROVE invitation'[i] = invitation[i]
    <2>1. inviteReq[t].invitation # i
      BY <1>1, <1>2 DEF Invite!CommitInvite, Invite!RequestOK, Invite!Exists,
                        Invite!NoStatus
    <2>2. QED
      BY <1>1, <1>2, <2>1 DEF Invite!CommitInvite, Invite!TypeOK
  <1>3. ASSUME NEW t \in Txns, Invite!CommitRespond(t) PROVE invitation'[i] = invitation[i]
    <2>1. inviteReq[t].invitation # i
      BY <1>1, <1>3 DEF Invite!CommitRespond, Invite!RequestOK, Invite!CanRespond,
                        Invite!IsTerminal
    <2>2. QED
      BY <1>1, <1>3, <2>1 DEF Invite!CommitRespond, Invite!TypeOK
  <1>4. ASSUME NEW t \in Txns, UNCHANGED Invite!tables
        PROVE  invitation'[i] = invitation[i]
    BY <1>4 DEF Invite!tables
  <1>5. QED
    BY <1>2, <1>3, <1>4
       DEF Invite!Next, Invite!BeginInvite, Invite!BeginRespond, Invite!Arrive,
           Invite!CheckOpen, Invite!Insert, Invite!LockInvitation, Invite!Rollback,
           Invite!Refuse

\* What a step of the chat does to threads, sends and messages: a thread keeps its pair,
\* a send passes its gate only for a linked pair, and only a send adds messages.
TalkMoves ==
  /\ \A c \in Threads : Talk!Exists(c) => thread'[c].pair = thread[c].pair
  /\ \A t \in Txns : chatPc'[t] \in PastGate =>
       /\ chatReq'[t].thread = chatReq[t].thread
       /\ \/ chatPc[t] \in PastGate
          \/ /\ chatPc[t] = "askInteraction"
             /\ thread[chatReq[t].thread].pair \in Linked
  /\ \A c \in Threads : messages'[c] # {} =>
       \/ messages[c] # {}
       \/ \E t \in Txns : chatPc[t] = "commitMessage" /\ chatReq[t].thread = c

LEMMA TalkStep ==
  ASSUME Talk!IInv, Talk!Next
  PROVE  TalkMoves
  <1>1. Talk!TypeOK /\ \A t \in Txns : Talk!RequestOK(t)
    BY DEF Talk!IInv
  <1>2. ASSUME NEW t \in Txns, NEW p, NEW r, p \notin PastGate,
               chatPc' = [chatPc EXCEPT ![t] = p], chatReq' = [chatReq EXCEPT ![t] = r],
               messages' = messages,
               \A c \in Threads : Talk!Exists(c) => thread'[c].pair = thread[c].pair
        PROVE  TalkMoves
    BY <1>1, <1>2 DEF Talk!TypeOK, TalkMoves
  <1>3. ASSUME NEW t \in Txns, NEW p, p \notin PastGate, Talk!Goto(t, p), messages' = messages,
               chatReq' = chatReq, thread' = thread
        PROVE  TalkMoves
    BY <1>1, <1>3 DEF Talk!TypeOK, Talk!Goto, TalkMoves
  <1>4. ASSUME NEW t \in Txns, Talk!Finish(t), UNCHANGED Talk!tables PROVE TalkMoves
    BY <1>2, <1>4 DEF Talk!Finish, Talk!Goto, Talk!tables, PastGate
  <1>5. ASSUME NEW t \in Txns, NEW p, NEW r, p \notin PastGate, Talk!Arrive(t, p, r)
        PROVE  TalkMoves
    BY <1>2, <1>5 DEF Talk!Arrive, Talk!tables
  <1>6. ASSUME NEW t \in Txns, Talk!CreateThread(t) PROVE TalkMoves
    <2>1. \A c \in Threads : Talk!Exists(c) => thread'[c].pair = thread[c].pair
      BY <1>1, <1>6 DEF Talk!CreateThread, Talk!TypeOK
    <2>2. QED
      BY <1>2, <1>6, <2>1 DEF Talk!CreateThread, Talk!Finish, Talk!Goto, PastGate
  <1>7. ASSUME NEW t \in Txns, Talk!AskInteraction(t) PROVE TalkMoves
    <2>1. CASE Talk!Finish(t)
      BY <1>4, <1>7, <2>1 DEF Talk!AskInteraction
    <2>2. CASE ~Talk!Finish(t)
      BY <1>1, <1>7, <2>2
         DEF Talk!AskInteraction, Talk!TypeOK, Talk!Goto, Talk!tables, TalkMoves
    <2>3. QED
      BY <2>1, <2>2
  <1>8. ASSUME NEW t \in Txns, Talk!InsertMessage(t) \/ Talk!Touch(t) PROVE TalkMoves
    <2>1. /\ chatPc[t] \in PastGate
          /\ \A u \in Txns : u # t => chatPc'[u] = chatPc[u]
          /\ \A u \in Txns : chatReq'[u].thread = chatReq[u].thread
          /\ UNCHANGED Talk!tables
      BY <1>1, <1>8 DEF Talk!InsertMessage, Talk!Touch, Talk!Goto, Talk!Stamp,
                        Talk!TypeOK, Talk!Request, PastGate
    <2>2. QED
      BY <2>1 DEF Talk!tables, TalkMoves
  <1>9. ASSUME NEW t \in Txns, Talk!Mark(t) PROVE TalkMoves
    <2>1. /\ chatPc' = [chatPc EXCEPT ![t] = "commitMark"]
          /\ chatReq' = [chatReq EXCEPT ![t] = [chatReq[t] EXCEPT !.at = clock + 1]]
          /\ UNCHANGED Talk!tables
      BY <1>1, <1>9 DEF Talk!Mark, Talk!Goto, Talk!Stamp, Talk!TypeOK
    <2>2. QED
      BY <1>2, <2>1 DEF Talk!tables, PastGate
  <1>10. ASSUME NEW t \in Txns, Talk!CommitMark(t) PROVE TalkMoves
    <2>1. \A c \in Threads : thread'[c].pair = thread[c].pair
      BY <1>1, <1>10 DEF Talk!CommitMark, Talk!TypeOK, Talk!Row
    <2>2. QED
      BY <1>2, <1>10, <2>1 DEF Talk!CommitMark, Talk!Finish, Talk!Goto, PastGate
  <1>11. ASSUME NEW t \in Txns, Talk!CommitMessage(t) PROVE TalkMoves
    <2>1. \A c \in Threads : thread'[c].pair = thread[c].pair
      BY <1>1, <1>11 DEF Talk!CommitMessage, Talk!TypeOK, Talk!Row
    <2>2. \A c \in Threads : c # chatReq[t].thread => messages'[c] = messages[c]
      BY <1>1, <1>11 DEF Talk!CommitMessage, Talk!TypeOK
    <2>3. /\ chatPc[t] = "commitMessage" /\ chatPc'[t] = "idle"
          /\ \A u \in Txns : u # t =>
               chatPc'[u] = chatPc[u] /\ chatReq'[u] = chatReq[u]
      BY <1>1, <1>11 DEF Talk!CommitMessage, Talk!Finish, Talk!Goto, Talk!TypeOK
    <2>4. QED
      BY <2>1, <2>2, <2>3 DEF TalkMoves, PastGate
  <1>12. ASSUME NEW c \in Threads, NEW side \in Talk!Sides,
                Talk!Block(c, side) \/ Talk!Unblock(c, side)
         PROVE  TalkMoves
    BY <1>12 DEF Talk!Block, Talk!Unblock, TalkMoves
  <1>13. ASSUME NEW t \in Txns, Talk!FindThread(t) \/ Talk!Rollback(t) PROVE TalkMoves
    BY <1>3, <1>4, <1>13 DEF Talk!FindThread, Talk!Rollback, Talk!tables, PastGate
  <1>14. ASSUME NEW t \in Txns, NEW pair \in Talk!Pairs, Talk!BeginOpen(t, pair)
         PROVE  TalkMoves
    BY <1>5, <1>14 DEF Talk!BeginOpen, PastGate
  <1>15. ASSUME NEW t \in Txns, NEW c \in Threads, NEW side \in Talk!Sides,
                Talk!BeginSend(t, c, side) \/ Talk!BeginMarkRead(t, c, side)
         PROVE  TalkMoves
    <2>1. "askInteraction" \notin PastGate /\ "mark" \notin PastGate
      BY DEF PastGate
    <2>2. CASE Talk!BeginSend(t, c, side)
      BY <1>5, <2>1, <2>2 DEF Talk!BeginSend
    <2>3. CASE Talk!BeginMarkRead(t, c, side)
      BY <1>5, <2>1, <2>3 DEF Talk!BeginMarkRead
    <2>4. QED
      BY <1>15, <2>2, <2>3
  <1>16. QED
    BY <1>6, <1>7, <1>8, <1>9, <1>10, <1>11, <1>12, <1>13, <1>14, <1>15 DEF Talk!Next


LEMMA TalkConsent ==
  ASSUME Talk!IInv, GatesPassed, MessagesNeedConsent, Talk!Next, BoardOK,
         UNCHANGED <<application, invitation>>
  PROVE  GatesPassed' /\ MessagesNeedConsent'
  <1>1. TalkMoves
    BY TalkStep
  <1>2. \A c : Consented(c)' <=> Consented(c)
    BY DEF Consented, AcceptedInvitation
  <1>3. ASSUME NEW t \in Txns, chatPc'[t] \in PastGate
        PROVE  Consented(thread[chatReq[t].thread].pair[2])'
    <2> DEFINE c == chatReq[t].thread
    <2>1. /\ chatReq'[t].thread = c
          /\ chatPc[t] \in PastGate \/ chatPc[t] = "askInteraction"
          /\ chatPc[t] \in PastGate \/ thread[c].pair \in Linked
      BY <1>1, <1>3 DEF TalkMoves
    <2>2. c \in Threads /\ Talk!Exists(c)
      BY <2>1 DEF Talk!IInv, Talk!TypeOK, Talk!Request, Talk!RequestOK, Talk!SendPcs, PastGate
    <2>3. thread'[c].pair = thread[c].pair
      BY <1>1, <2>2 DEF TalkMoves
    <2>4. Consented(thread[c].pair[2])
      <3>1. CASE chatPc[t] \in PastGate
        BY <3>1 DEF GatesPassed, PastGate
      <3>2. CASE thread[c].pair \in Linked
        <4>1. PICK d \in Candidates : Between(d) /\ thread[c].pair = <<Employer, d>>
          BY <3>2 DEF Linked
        <4>2. thread[c].pair[2] = d
          BY <4>1
        <4>3. QED
          BY <4>1, <4>2, ConsentIs
      <3>3. QED
        BY <2>1, <3>1, <3>2
    <2>5. PICK e : e = thread[c].pair[2]
      OBVIOUS
    <2>6. Consented(e)'
      BY <1>2, <2>4, <2>5
    <2>7. e = thread'[chatReq'[t].thread].pair[2]
      BY <2>1, <2>3, <2>5
    <2>8. QED
      BY <2>6, <2>7
  <1>4. ASSUME NEW c \in Threads, messages'[c] # {}
        PROVE  Consented(thread[c].pair[2])'
    <2>1. /\ Talk!Exists(c)
          /\ Consented(thread[c].pair[2])
      <3>1. CASE messages[c] # {}
        BY <3>1 DEF Talk!IInv, Talk!MessagesOK, MessagesNeedConsent
      <3>2. CASE \E t \in Txns : chatPc[t] = "commitMessage" /\ chatReq[t].thread = c
        BY <3>2 DEF Talk!IInv, Talk!RequestOK, Talk!SendPcs, GatesPassed
      <3>3. QED
        BY <1>1, <1>4, <3>1, <3>2 DEF TalkMoves
    <2>2. thread'[c].pair = thread[c].pair
      BY <1>1, <2>1 DEF TalkMoves
    <2>3. PICK e : e = thread[c].pair[2]
      OBVIOUS
    <2>4. Consented(e)'
      BY <1>2, <2>1, <2>3
    <2>5. QED
      BY <2>2, <2>3, <2>4
  <1>5. QED
    BY <1>3, <1>4 DEF GatesPassed, MessagesNeedConsent, PastGate

--------------------------------------------------------------------------------
(* The board *)

LEMMA TransitionsEndSomewhere ==
  ASSUME NEW from, NEW to, Board!CanTransition(from, to)
  PROVE  to \in Board!ApplicationStatuses /\ to # Board!NoStatus
  <1>1. \A n \in 1..Len(Board!Progression) :
          Board!Progression[n] \in Board!ApplicationStatuses
    BY DEF Board!Progression, Board!ApplicationStatuses
  <1>2. to \in Board!ApplicationStatuses
    BY <1>1 DEF Board!CanTransition, Board!Precedes, Board!ApplicationStatuses
  <1>3. QED
    BY <1>2 DEF Board!ApplicationStatuses, Board!NoStatus

\* What the board does: an application gets its candidate once.
LEMMA BoardSteps ==
  ASSUME BoardOK,
         \/ \E a \in Apps, v \in Vacancies, c \in Candidates : Apply(a, v, c)
         \/ \E a \in Apps, to \in Moves : Move(a, to)
         \/ \E v \in Vacancies : CloseVacancy(v)
  PROVE  /\ BoardOK'
         /\ \A a \in Apps : application[a].candidate # Null =>
              application'[a].candidate = application[a].candidate
         /\ UNCHANGED <<searchable, inviteVars, chatVars>>
         /\ arrived < MaxRequests /\ arrived' = arrived + 1
  <1> USE DEF BoardOK
  <1>1. ASSUME NEW b \in Apps, NEW v \in Vacancies, NEW c \in Candidates, Apply(b, v, c)
        PROVE  /\ BoardOK'
               /\ \A a \in Apps : application[a].candidate # Null =>
                    application'[a].candidate = application[a].candidate
    <2> DEFINE r == [status |-> "submitted", vacancy |-> v, candidate |-> c]
    <2>1. /\ application[b].status = Board!NoStatus
          /\ application' = [application EXCEPT ![b] = r]
      BY <1>1 DEF Apply, Board!Apply
    <2>2. r \in [status : Board!ApplicationStatuses \cup {Board!NoStatus},
                 vacancy : Vacancies \cup {Null},
                 candidate : Candidates \cup {Null}] /\ r.status = "submitted"
      BY DEF Board!ApplicationStatuses
    <2> HIDE DEF r
    <2>3. QED
      BY <2>1, <2>2 DEF Board!NoStatus
  <1>2. ASSUME NEW b \in Apps, NEW to \in Moves, Move(b, to)
        PROVE  /\ BoardOK'
               /\ \A a \in Apps : application[a].candidate # Null =>
                    application'[a].candidate = application[a].candidate
    <2>1. /\ application' = [application EXCEPT ![b].status = to]
          /\ to \in Board!ApplicationStatuses /\ to # Board!NoStatus
      BY <1>2, TransitionsEndSomewhere DEF Move, Board!Move
    <2>2. QED
      BY <2>1
  <1>3. ASSUME NEW v \in Vacancies, CloseVacancy(v)
        PROVE  BoardOK' /\ application' = application
    BY <1>3 DEF CloseVacancy, Board!SetVacancyStatus
  <1>4. QED
    BY <1>1, <1>2, <1>3 DEF Apply, Move, CloseVacancy, Operation

--------------------------------------------------------------------------------
(* The services beside each other *)

LEMMA Initially == Init => IInv
  <1> SUFFICES ASSUME Init PROVE IInv
    OBVIOUS
  <1>1. Invite!IInv /\ Talk!IInv
    BY InviteInit, TalkInit DEF Init
  <1>2. BoardOK
    <2>1. application = [a \in Apps |-> [status |-> Board!NoStatus, vacancy |-> Null,
                                         candidate |-> Null]]
      BY DEF Init, Board!Init
    <2>2. QED
      BY <2>1 DEF BoardOK
  <1>3. GatesPassed /\ MessagesNeedConsent
    BY DEF Init, Talk!Init, GatesPassed, MessagesNeedConsent
  <1>4. QED
    BY <1>1, <1>2, <1>3 DEF IInv, RowsHold

LEMMA Step == IInv /\ [Next]_vars => IInv'
  <1> SUFFICES ASSUME IInv, [Next]_vars PROVE IInv'
    OBVIOUS
  <1>0. /\ Invite!IInv /\ Talk!IInv /\ BoardOK /\ GatesPassed /\ MessagesNeedConsent
        /\ searchable \subseteq Candidates /\ arrived \in Nat
    BY DEF IInv, RowsHold, Invite!IInv, Invite!TypeOK
  <1>1. ASSUME UNCHANGED <<inviteVars, chatVars>>, searchable' \subseteq Candidates,
               arrived' \in Nat, BoardOK',
               \A a \in Apps : application[a].candidate # Null =>
                 application'[a].candidate = application[a].candidate
        PROVE  IInv'
    <2>1. Invite!IInv' /\ Talk!IInv'
      BY <1>0, <1>1, InviteUnchanged, TalkUnchanged
    <2>2. \A c \in Candidates : Consented(c) => Consented(c)'
      BY <1>1, ConsentStays DEF inviteVars
    <2>3. GatesPassed' /\ MessagesNeedConsent'
      BY <1>0, <1>1, <2>2, ConsentKept
    <2>4. QED
      BY <1>1, <2>1, <2>3 DEF IInv, RowsHold
  <1>2. CASE \/ \E a \in Apps, v \in Vacancies, c \in Candidates : Apply(a, v, c)
             \/ \E a \in Apps, to \in Moves : Move(a, to)
             \/ \E v \in Vacancies : CloseVacancy(v)
    <2>1. /\ BoardOK'
          /\ \A a \in Apps : application[a].candidate # Null =>
               application'[a].candidate = application[a].candidate
          /\ UNCHANGED <<searchable, inviteVars, chatVars>>
          /\ arrived' = arrived + 1
      BY <1>0, <1>2, BoardSteps
    <2>2. QED
      BY <1>0, <1>1, <2>1
  <1>3. ASSUME NEW c \in Candidates, SetVisibility(c) PROVE IInv'
    <2>1. /\ UNCHANGED <<inviteVars, chatVars, application>>
          /\ searchable' \subseteq Candidates /\ arrived' \in Nat
      BY <1>0, <1>3 DEF SetVisibility, Operation, board
    <2>2. BoardOK'
      BY <1>0, <2>1 DEF BoardOK
    <2>3. QED
      BY <1>1, <2>1, <2>2
  <1>4. CASE Inviting
    <2>1. Invite!Next /\ UNCHANGED <<application, searchable, chatVars>>
      BY <1>4 DEF Inviting, board
    <2>2. Invite!IInv'
      BY <1>0, <2>1, InviteNext
    <2>3. arrived' \in Nat
      BY <2>2 DEF Invite!IInv, Invite!TypeOK
    <2>4. Talk!IInv' /\ BoardOK'
      BY <1>0, <2>1, <2>3, TalkUnchanged DEF BoardOK
    <2>5. \A c \in Candidates : Consented(c) => Consented(c)'
      BY <1>0, <2>1, AcceptedStays, ConsentStays
    <2>6. GatesPassed' /\ MessagesNeedConsent'
      BY <1>0, <2>1, <2>5, ConsentKept
    <2>7. QED
      BY <2>2, <2>4, <2>6 DEF IInv, RowsHold
  <1>5. CASE Talking
    <2>1. Talk!Next /\ UNCHANGED <<application, invitation, searchable, inviteVars>>
      BY <1>5 DEF Talking, board, inviteVars
    <2>2. Talk!IInv'
      BY <1>0, <2>1, TalkNext
    <2>3. arrived' \in Nat
      BY <2>2 DEF Talk!IInv, Talk!TypeOK
    <2>4. Invite!IInv' /\ BoardOK'
      BY <1>0, <2>1, <2>3, InviteUnchanged DEF BoardOK
    <2>5. GatesPassed' /\ MessagesNeedConsent'
      BY <1>0, <2>1, TalkConsent
    <2>6. QED
      BY <2>2, <2>4, <2>5 DEF IInv, RowsHold
  <1>6. CASE UNCHANGED vars
    <2>1. UNCHANGED <<inviteVars, chatVars, application, searchable, arrived>>
      BY <1>6 DEF vars, board
    <2>2. BoardOK'
      BY <1>0, <2>1 DEF BoardOK
    <2>3. QED
      BY <1>0, <1>1, <2>1, <2>2
  <1>7. QED
    BY <1>2, <1>3, <1>4, <1>5, <1>6 DEF Next

\* The invariants of the services and the thread of consent hold together.
THEOREM Invariance == Spec => []IInv
  BY Initially, Step, PTL DEF Spec

\* One open invitation per slot, an answer that stays an answer, one thread per pair and
\* a last activity that some message had, whatever races (InvitationsService, ChatService).
THEOREM RowsAlwaysHold == Spec => []RowsHold
  <1>1. IInv => RowsHold
    BY DEF IInv
  <1>2. QED
    BY <1>1, Invariance, PTL

\* Nobody writes to a stranger: behind every message stands an application or an accepted
\* invitation of the candidate, however the gate's reads interleave with withdrawals and
\* answers (section 9.1, HiringInteractionService.between).
THEOREM MessagesAlwaysNeedConsent == Spec => []MessagesNeedConsent
  <1>1. IInv => MessagesNeedConsent
    BY DEF IInv
  <1>2. QED
    BY <1>1, Invariance, PTL

\* A message that reaches a blocked thread had passed its gate before the block was set
\* (ChatService.send).
THEOREM BlocksAlwaysStopSends == Spec => BlockStopsSends
  <1> DEFINE P == \A t \in Txns : Talk!CommitMessage(t) =>
                    \A s \in Talk!Sides :
                      block[chatReq[t].thread][s] # 0 =>
                        block[chatReq[t].thread][s] > chatReq[t].gateAt
  <1>1. ASSUME IInv PROVE P
    BY <1>1 DEF IInv, RowsHold, Talk!IInv, Talk!RequestOK, Talk!SendPcs, Talk!CommitMessage
  <1>2. QED
    BY <1>1, Invariance, PTL DEF Spec, BlockStopsSends, Talk!BlockStopsSends

\* The time a reader's mark is set to covers every message the reader was shown
\* (ChatService.markRead).
THEOREM MarksAlwaysCoverSeen == Spec => MarkCoversSeen
  <1> DEFINE P == \A t \in Txns : Talk!CommitMark(t) =>
                    \A m \in chatReq[t].seen :
                      m.at <= thread'[chatReq[t].thread].readAt[chatReq[t].side]
  <1>1. ASSUME IInv PROVE P
    <2> SUFFICES ASSUME NEW t \in Txns, Talk!CommitMark(t), NEW m \in chatReq[t].seen
                 PROVE  m.at <= thread'[chatReq[t].thread].readAt[chatReq[t].side]
      OBVIOUS
    <2>1. Talk!TypeOK /\ Talk!RequestOK(t) /\ chatPc[t] = "commitMark"
      BY <1>1 DEF IInv, RowsHold, Talk!IInv, Talk!CommitMark
    <2>2. /\ chatReq[t].thread \in Threads /\ chatReq[t].side \in Talk!Sides
          /\ m.at <= chatReq[t].at
      BY <2>1 DEF Talk!RequestOK, Talk!TypeOK, Talk!Request, Talk!SendPcs
    <2>3. thread'[chatReq[t].thread].readAt[chatReq[t].side] = chatReq[t].at
      BY <2>1, <2>2 DEF Talk!CommitMark, Talk!TypeOK, Talk!Row
    <2>4. QED
      BY <2>2, <2>3
  <1>2. QED
    BY <1>1, Invariance, PTL DEF Spec, MarkCoversSeen, Talk!MarkCoversSeen

--------------------------------------------------------------------------------
(* Idempotency: the protocol that every invitation and message is sent     *)
(* under (and an application made), for one user and one operation, and    *)
(* every number of keys, bodies, resources and concurrent attempts: the    *)
(* claim is what makes a key's effect single and its replay the original,  *)
(* wherever attempts die.                                                  *)

\* Nothing claimed and nothing created.
LEMMA KeyInitInv ==
  RunInit => RunInv
  <1> SUFFICES ASSUME RunInit PROVE RunInv
    OBVIOUS
  <1> USE AttemptsAssumption, UnsetAssumption DEF RunInit
  <1>1. TypeOK
    BY DEF TypeOK, Row, NoRow, Origin, Nobody, Answer, Request,
       NoRequest
  <1>2. AtMostOncePerKey /\ ReplaysTheOriginal
    BY DEF AtMostOncePerKey, ReplaysTheOriginal, Created, Nobody
  <1>3. ClaimsOK
    BY DEF ClaimsOK, RequestOK, OriginsClaimed, ClaimsReplayable,
       AnswersNamed,
       Claimed, Created, NoRow, Nobody
  <1>4. QED
    BY <1>1, <1>2, <1>3 DEF RunInv

\* What ends a request with an answer, as far as types go.
LEMMA KeyReplyType ==
  ASSUME TypeOK, NEW r \in Requests, NEW kind \in Kinds,
         NEW x \in Resources \cup {Unset}, Reply(r, kind, x)
  PROVE  /\ answered' \subseteq Answer
         /\ pc' \in [Requests -> {"idle", "lookup", "claim", "work", "record"}]
         /\ req' \in [Requests -> Request]
  BY DEF TypeOK, Reply, Goto, Answer, Request, NoRequest

LEMMA KeyBeginInv ==
  ASSUME RunInv, NEW r \in Requests, NEW k \in Keys \cup {Unset}, NEW b \in Bodies,
         Begin(r, k, b)
  PROVE  RunInv'
  <1> USE UnsetAssumption DEF RunInv
  <1>1. TypeOK'
    <2>1. [NoRequest EXCEPT !.key = k, !.body = b] \in Request
      BY DEF NoRequest, Request
    <2>2. QED
      BY <2>1 DEF Begin, TypeOK, Goto
  <1>2. AtMostOncePerKey' /\ ReplaysTheOriginal'
    BY DEF Begin, AtMostOncePerKey, ReplaysTheOriginal, Created
  <1>3. ClaimsOK'
    BY DEF Begin, Goto, NoRequest, ClaimsOK, RequestOK, OriginsClaimed,
       ClaimsReplayable, AnswersNamed, Claimed, Created, TypeOK, Request
  <1>4. QED
    BY <1>1, <1>2, <1>3

LEMMA KeyLookupInv ==
  ASSUME RunInv, NEW r \in Requests, Lookup(r)
  PROVE  RunInv'
  <1> USE UnsetAssumption DEF RunInv
  <1>1. req[r].key \in Keys /\ req[r].body \in Bodies
    BY DEF Lookup, ClaimsOK, RequestOK
  <1>2. CASE Goto(r, "claim") /\ UNCHANGED <<answered, req>>
    <2>1. TypeOK'
      BY <1>2 DEF Lookup, TypeOK, Goto
    <2>2. AtMostOncePerKey' /\ ReplaysTheOriginal'
      BY <1>2 DEF Lookup, AtMostOncePerKey, ReplaysTheOriginal, Created
    <2>3. ClaimsOK'
      BY <1>1, <1>2 DEF Lookup, Goto, ClaimsOK, RequestOK, OriginsClaimed,
         ClaimsReplayable, AnswersNamed, Claimed, Created, TypeOK
    <2>4. QED
      BY <2>1, <2>2, <2>3
  <1>3. ASSUME NEW kind \in Kinds, NEW x \in Resources \cup {Unset}, Reply(r, kind, x),
               kind = "resource" =>
                 x \in Resources /\ created[x] = [key |-> req[r].key, body |-> req[r].body]
        PROVE  RunInv'
    <2>1. TypeOK'
      BY <1>3, KeyReplyType DEF Lookup, TypeOK
    <2>2. AtMostOncePerKey'
      BY DEF Lookup, AtMostOncePerKey, Created
    <2>3. ReplaysTheOriginal'
      BY <1>3 DEF Lookup, Reply, ReplaysTheOriginal
    <2>4. ClaimsOK'
      BY <1>1, <1>3 DEF Lookup, Reply, Goto, NoRequest, ClaimsOK,
         RequestOK,
         OriginsClaimed, ClaimsReplayable, AnswersNamed, Claimed,
         Created, TypeOK
    <2>5. QED
      BY <2>1, <2>2, <2>3, <2>4
  <1>4. claim[req[r].key].resource \in Resources \cup {Unset}
    BY <1>1 DEF TypeOK, Row
  <1>5. claim[req[r].key].resource # Unset =>
          created[claim[req[r].key].resource] =
            [key |-> req[r].key, body |-> claim[req[r].key].fingerprint]
    BY <1>1 DEF ClaimsOK, ClaimsReplayable
  <1>6. {"key_reused", "in_progress", "resource"} \subseteq Kinds
    BY DEF Kinds
  <1>7. CASE Reply(r, "key_reused", Unset)
    BY <1>3, <1>6, <1>7
  <1>8. CASE Reply(r, "in_progress", Unset)
    BY <1>3, <1>6, <1>8
  <1>9. CASE /\ claim[req[r].key].fingerprint = req[r].body
             /\ claim[req[r].key].resource # Unset
             /\ Reply(r, "resource", claim[req[r].key].resource)
    BY <1>3, <1>4, <1>5, <1>6, <1>9
  <1>10. QED
    BY <1>2, <1>7, <1>8, <1>9 DEF Lookup

LEMMA KeyClaimInv ==
  ASSUME RunInv, NEW r \in Requests, Claim(r)
  PROVE  RunInv'
  <1> USE UnsetAssumption DEF RunInv
  <1>1. req[r].key \in Keys /\ req[r].body \in Bodies
    BY DEF Claim, ClaimsOK, RequestOK
  <1>2. CASE ~Claimed(req[r].key) /\ Goto(r, "work")
    <2>1. claim' = [claim EXCEPT ![req[r].key] =
                      [fingerprint |-> req[r].body, resource |-> Unset]]
          /\ UNCHANGED <<answered, req, created, attempts>>
      BY <1>2 DEF Claim, Goto, Reply
    <2>2. TypeOK'
      BY <1>1, <1>2, <2>1 DEF TypeOK, Goto, Row
    <2>3. AtMostOncePerKey' /\ ReplaysTheOriginal'
      BY <2>1 DEF AtMostOncePerKey, ReplaysTheOriginal, Created
    <2>4. ClaimsOK'
      <3>1. /\ claim'[req[r].key] = [fingerprint |-> req[r].body, resource |-> Unset]
            /\ \A k \in Keys : k # req[r].key => claim'[k] = claim[k]
        BY <1>1, <2>1 DEF TypeOK
      <3>2. /\ pc'[r] = "work"
            /\ \A q \in Requests : q # r => pc'[q] = pc[q]
        BY <1>2 DEF Goto, TypeOK
      \* The key was nobody's: neither a worker's nor a resource's.
      <3>3. \A q \in Requests : pc[q] \in {"work", "record"} => req[q].key # req[r].key
        <4> SUFFICES ASSUME NEW q \in Requests, pc[q] \in {"work", "record"},
                            req[q].key = req[r].key
                     PROVE  FALSE
          OBVIOUS
        <4>1. /\ claim[req[r].key] = [fingerprint |-> req[q].body, resource |-> Unset]
              /\ req[q].body \in Bodies
          BY <1>1 DEF ClaimsOK, RequestOK
        <4>2. claim[req[r].key].fingerprint = req[q].body
          BY <4>1
        <4>3. QED
          BY <1>2, <4>1, <4>2 DEF Claimed
      <3>4. \A x \in Resources : created[x].key # req[r].key
        BY <1>1, <1>2 DEF ClaimsOK, OriginsClaimed
      <3>5. ASSUME NEW q \in Requests PROVE RequestOK(q)'
        <4>1. CASE q = r
          BY <1>1, <2>1, <3>1, <3>2, <3>3, <3>4, <4>1 DEF RequestOK
        <4>2. CASE q # r
          <5>1. RequestOK(q)
            BY DEF ClaimsOK
          <5>2. pc[q] \in {"work", "record"} /\ req[q].key # Unset => req[q].key \in Keys
            BY DEF TypeOK, Request
          <5>3. QED
            BY <1>1, <2>1, <3>1, <3>2, <3>3, <4>2, <5>1, <5>2 DEF RequestOK
        <4>3. QED
          BY <4>1, <4>2
      <3>6. claim'[req[r].key].fingerprint # Unset /\ claim'[req[r].key].resource = Unset
        BY <1>1, <3>1
      <3>7. OriginsClaimed'
        <4>1. \A x \in Resources : created[x].key # Unset => created[x].key \in Keys
          BY DEF TypeOK, Origin
        <4>2. QED
          BY <2>1, <3>1, <3>6, <4>1 DEF ClaimsOK, OriginsClaimed, Claimed,
             Created
      <3>8. ClaimsReplayable'
        BY <2>1, <3>1, <3>6 DEF ClaimsOK, ClaimsReplayable
      <3>9. QED
        BY <2>1, <3>5, <3>7, <3>8 DEF ClaimsOK, AnswersNamed
    <2>5. QED
      BY <2>2, <2>3, <2>4
  <1>3. CASE Claimed(req[r].key) /\ Reply(r, "error", Unset)
    <2>1. UNCHANGED <<claim, created, attempts>>
      BY <1>3 DEF Claim
    <2>2. TypeOK'
      BY <1>3, <2>1, KeyReplyType DEF TypeOK, Kinds
    <2>3. AtMostOncePerKey' /\ ReplaysTheOriginal'
      BY <1>3, <2>1 DEF AtMostOncePerKey, ReplaysTheOriginal, Created, Reply
    <2>4. ClaimsOK'
      BY <1>1, <1>3, <2>1 DEF Reply, Goto, NoRequest, ClaimsOK, RequestOK,
         OriginsClaimed, ClaimsReplayable, AnswersNamed, Claimed,
         Created, TypeOK
    <2>5. QED
      BY <2>2, <2>3, <2>4
  <1>4. QED
    BY <1>2, <1>3 DEF Claim

LEMMA KeyWorkInv ==
  ASSUME RunInv, NEW r \in Requests, Work(r)
  PROVE  RunInv'
  <1> USE UnsetAssumption DEF RunInv
  <1>1. req[r].body \in Bodies /\ req[r].key \in Keys \cup {Unset} /\ pc[r] = "work"
    BY DEF Work, ClaimsOK, RequestOK, TypeOK, Request
  <1>2. CASE Reply(r, "refused", Unset) /\ UNCHANGED created
    <2>1. TypeOK'
      BY <1>2, KeyReplyType DEF Work, TypeOK, Kinds
    <2>2. AtMostOncePerKey' /\ ReplaysTheOriginal'
      BY <1>2 DEF Work, AtMostOncePerKey, ReplaysTheOriginal, Created, Reply
    <2>3. ClaimsOK'
      BY <1>1, <1>2 DEF Work, Reply, Goto, NoRequest, ClaimsOK,
         RequestOK,
         OriginsClaimed, ClaimsReplayable, AnswersNamed, Claimed,
         Created, TypeOK
    <2>4. QED
      BY <2>1, <2>2, <2>3
  <1>3. ASSUME NEW x \in Resources, ~Created(x),
               created' = [created EXCEPT ![x] = [key |-> req[r].key, body |-> req[r].body]],
               UNCHANGED <<claim, attempts>>,
               \/ req[r].key = Unset /\ Reply(r, "resource", x)
               \/ /\ req[r].key # Unset
                  /\ Goto(r, "record")
                  /\ req' = [req EXCEPT ![r].resource = x]
                  /\ UNCHANGED answered
        PROVE  RunInv'
    \* Nobody refers to a resource that has not been created.
    <2>1. /\ created[x].key = Unset
          /\ \A a \in answered : a.kind = "resource" => a.resource # x
          /\ \A k \in Keys : claim[k].resource # x
          /\ \A q \in Requests : pc[q] = "record" => req[q].resource # x
      <3>1. created[x].key = Unset
        BY <1>3 DEF ClaimsOK, OriginsClaimed
      <3>2. created[x].body = Unset
        BY <1>3 DEF Created
      <3>3. \A a \in answered : a.kind = "resource" => a.resource # x
        <4> SUFFICES ASSUME NEW a \in answered, a.kind = "resource", a.resource = x PROVE FALSE
          OBVIOUS
        <4>1. created[x] = [key |-> a.key, body |-> a.body] /\ a.body \in Bodies
          BY DEF ClaimsOK, AnswersNamed, ReplaysTheOriginal
        <4>2. created[x].body = a.body
          BY <4>1
        <4>3. QED
          BY <3>2, <4>1, <4>2
      <3>4. \A k \in Keys : claim[k].resource # x
        <4> SUFFICES ASSUME NEW k \in Keys, claim[k].resource = x PROVE FALSE
          OBVIOUS
        <4>1. created[x] = [key |-> k, body |-> claim[k].fingerprint]
          BY DEF ClaimsOK, ClaimsReplayable
        <4>2. created[x].key = k
          BY <4>1
        <4>3. QED
          BY <3>1, <4>2
      <3>5. \A q \in Requests : pc[q] = "record" => req[q].resource # x
        <4> SUFFICES ASSUME NEW q \in Requests, pc[q] = "record", req[q].resource = x PROVE FALSE
          OBVIOUS
        <4>1. created[x] = [key |-> req[q].key, body |-> req[q].body] /\ req[q].body \in Bodies
          BY DEF ClaimsOK, RequestOK
        <4>2. created[x].body = req[q].body
          BY <4>1
        <4>3. QED
          BY <3>2, <4>1, <4>2
      <3>6. QED
        BY <3>1, <3>3, <3>4, <3>5
    <2>2. created'[x] = [key |-> req[r].key, body |-> req[r].body]
          /\ \A y \in Resources : y # x => created'[y] = created[y]
      BY <1>3 DEF TypeOK
    <2>3. TypeOK'
      <3>1. created' \in [Resources -> Origin]
        BY <1>1, <1>3 DEF TypeOK, Origin
      <3>2. CASE Reply(r, "resource", x)
        BY <1>3, <3>1, <3>2, KeyReplyType DEF TypeOK, Kinds
      <3>3. CASE Goto(r, "record") /\ req' = [req EXCEPT ![r].resource = x]
                 /\ UNCHANGED answered
        BY <1>3, <3>1, <3>3 DEF TypeOK, Goto, Request
      <3>4. QED
        BY <1>3, <3>2, <3>3
    <2>4. AtMostOncePerKey'
      <3>1. \A y \in Resources : created[y].key # Unset => created[y].key # req[r].key
        BY <1>1 DEF ClaimsOK, RequestOK
      <3>2. QED
        BY <2>2, <3>1 DEF AtMostOncePerKey, Created
    <2>5. ReplaysTheOriginal'
      <3>1. \A a \in answered : a.kind = "resource" =>
              created'[a.resource] = [key |-> a.key, body |-> a.body]
        BY <2>1, <2>2 DEF ReplaysTheOriginal, ClaimsOK, AnswersNamed
      <3>2. QED
        BY <1>3, <2>2, <3>1 DEF Reply, ReplaysTheOriginal
    <2>6. ClaimsOK'
      <3>1. ClaimsReplayable'
        BY <1>3, <2>1, <2>2 DEF ClaimsOK, ClaimsReplayable, TypeOK, Row
      <3>2. Claimed(req[r].key) \/ req[r].key = Unset
        <4> SUFFICES ASSUME req[r].key # Unset PROVE Claimed(req[r].key)
          OBVIOUS
        <4>1. claim[req[r].key] = [fingerprint |-> req[r].body, resource |-> Unset]
          BY <1>1 DEF ClaimsOK, RequestOK
        <4>2. claim[req[r].key].fingerprint = req[r].body
          BY <4>1
        <4>3. QED
          BY <1>1, <4>2 DEF Claimed
      <3>3. OriginsClaimed'
        BY <1>1, <1>3, <2>2, <3>2 DEF ClaimsOK, OriginsClaimed, Created, Claimed
      <3>4. AnswersNamed'
        BY <1>1, <1>3 DEF Reply, ClaimsOK, AnswersNamed
      <3>5. ASSUME NEW q \in Requests PROVE RequestOK(q)'
        <4>1. CASE q = r
          <5>1. CASE req[r].key = Unset /\ Reply(r, "resource", x)
            BY <4>1, <5>1 DEF Reply, Goto, RequestOK, TypeOK
          <5>2. CASE /\ req[r].key # Unset
                     /\ Goto(r, "record")
                     /\ req' = [req EXCEPT ![r].resource = x]
            <6>1. /\ pc'[r] = "record"
                  /\ req'[r].key = req[r].key
                  /\ req'[r].body = req[r].body
                  /\ req'[r].resource = x
                  /\ \A u \in Requests : u # r => pc'[u] = pc[u] /\ req'[u] = req[u]
              BY <5>2 DEF Goto, TypeOK, Request
            <6>2. RequestOK(r)
              BY DEF ClaimsOK
            <6>3. QED
              BY <1>1, <1>3, <2>2, <4>1, <5>2, <6>1, <6>2 DEF RequestOK
          <5>3. QED
            BY <1>3, <5>1, <5>2
        <4>2. CASE q # r
          <5>1. req'[q] = req[q] /\ pc'[q] = pc[q]
            BY <1>3, <4>2 DEF Reply, Goto, TypeOK
          <5>2. \A u \in Requests : pc'[u] \in {"work", "record"} =>
                  pc[u] \in {"work", "record"} /\ req'[u].key = req[u].key
            BY <1>1, <1>3 DEF Reply, Goto, NoRequest, TypeOK, Request
          <5>3. RequestOK(q) /\ RequestOK(r)
            BY DEF ClaimsOK
          <5>4. pc[q] = "work" /\ req[q].key # Unset => req[q].key # req[r].key
            BY <1>1, <4>2, <5>3 DEF RequestOK
          <5>5. QED
            BY <1>3, <2>1, <2>2, <5>1, <5>2, <5>3, <5>4 DEF RequestOK
        <4>3. QED
          BY <4>1, <4>2
      <3>6. QED
        BY <3>1, <3>3, <3>4, <3>5 DEF ClaimsOK
    <2>7. QED
      BY <2>3, <2>4, <2>5, <2>6
  <1>4. QED
    BY <1>2, <1>3 DEF Work

LEMMA KeyRecordInv ==
  ASSUME RunInv, NEW r \in Requests, Record(r)
  PROVE  RunInv'
  <1> USE UnsetAssumption DEF RunInv
  <1>1. /\ req[r].key \in Keys /\ req[r].body \in Bodies /\ req[r].resource \in Resources
        /\ created[req[r].resource] = [key |-> req[r].key, body |-> req[r].body]
        /\ claim[req[r].key] = [fingerprint |-> req[r].body, resource |-> Unset]
    BY DEF Record, ClaimsOK, RequestOK
  <1>2. /\ claim'[req[r].key] = [fingerprint |-> req[r].body, resource |-> req[r].resource]
        /\ \A k \in Keys : k # req[r].key => claim'[k] = claim[k]
    BY <1>1 DEF Record, TypeOK
  <1>3. TypeOK'
    BY <1>1, KeyReplyType DEF Record, TypeOK, Row, Kinds
  <1>4. AtMostOncePerKey'
    BY DEF Record, AtMostOncePerKey, Created
  <1>5. ReplaysTheOriginal'
    BY <1>1 DEF Record, Reply, ReplaysTheOriginal
  <1>6. ClaimsOK'
    <2>1. \A q \in Requests : q # r /\ pc[q] \in {"work", "record"} => req[q].key # req[r].key
      BY <1>1 DEF Record, ClaimsOK, RequestOK
    <2>2. QED
      BY <1>1, <1>2, <2>1 DEF Record, Reply, Goto, NoRequest, ClaimsOK,
         RequestOK,
         OriginsClaimed, ClaimsReplayable, AnswersNamed, Claimed,
         Created, TypeOK,
         Request
  <1>7. QED
    BY <1>3, <1>4, <1>5, <1>6

LEMMA KeyCrashInv ==
  ASSUME RunInv, NEW r \in Requests, Crash(r)
  PROVE  RunInv'
  <1> USE UnsetAssumption DEF RunInv
  <1>1. TypeOK'
    BY DEF Crash, TypeOK, Goto, NoRequest, Request
  <1>2. AtMostOncePerKey' /\ ReplaysTheOriginal'
    BY DEF Crash, AtMostOncePerKey, ReplaysTheOriginal, Created
  <1>3. ClaimsOK'
    BY DEF Crash, Goto, NoRequest, ClaimsOK, RequestOK, OriginsClaimed,
       ClaimsReplayable, AnswersNamed, Claimed, Created, TypeOK
  <1>4. QED
    BY <1>1, <1>2, <1>3

\* The inductive invariant: a key is worked on by one request, after its claim
\* and before its resource, or has created its resource, or is dead.
THEOREM ClaimsHold ==
  RunSpec => []RunInv
  <1>1. RunInit => RunInv
    BY KeyInitInv
  <1>2. RunInv /\ [RunNext]_runVars => RunInv'
    <2> SUFFICES ASSUME RunInv, [RunNext]_runVars PROVE RunInv'
      OBVIOUS
    <2>1. CASE UNCHANGED runVars
      BY <2>1 DEF runVars, RunInv, TypeOK, AtMostOncePerKey, ReplaysTheOriginal,
         ClaimsOK, RequestOK, OriginsClaimed, ClaimsReplayable,
         AnswersNamed,
         Claimed, Created
    <2>2. ASSUME NEW r \in Requests, NEW k \in Keys \cup {Unset}, NEW b \in Bodies,
                 Begin(r, k, b)
          PROVE  RunInv'
      BY <2>2, KeyBeginInv
    <2>3. ASSUME NEW r \in Requests, Lookup(r) PROVE RunInv'
      BY <2>3, KeyLookupInv
    <2>4. ASSUME NEW r \in Requests, Claim(r) PROVE RunInv'
      BY <2>4, KeyClaimInv
    <2>5. ASSUME NEW r \in Requests, Work(r) PROVE RunInv'
      BY <2>5, KeyWorkInv
    <2>6. ASSUME NEW r \in Requests, Record(r) PROVE RunInv'
      BY <2>6, KeyRecordInv
    <2>7. ASSUME NEW r \in Requests, Crash(r) PROVE RunInv'
      BY <2>7, KeyCrashInv
    <2>8. QED
      BY <2>1, <2>2, <2>3, <2>4, <2>5, <2>6, <2>7 DEF RunNext
  <1>3. QED
    BY <1>1, <1>2, PTL DEF RunSpec

\* "Runs operation at most once per key", for any number of retries and crashes.
THEOREM OncePerKey ==
  RunSpec => []AtMostOncePerKey
  <1>1. RunInv => AtMostOncePerKey
    BY DEF RunInv
  <1>2. QED
    BY <1>1, ClaimsHold, PTL

\* A replay is the original: the resource answered under a key was created under
\* that key, for the request that is answered.
THEOREM ReplaysOriginal ==
  RunSpec => []ReplaysTheOriginal
  <1>1. RunInv => ReplaysTheOriginal
    BY DEF RunInv
  <1>2. QED
    BY <1>1, ClaimsHold, PTL

================================================================================
