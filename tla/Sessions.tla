-------------------------------- MODULE Sessions --------------------------------
(***************************************************************************)
(* SessionService: refresh-token families, rotation with reuse detection,  *)
(* and the three ways to revoke.                                           *)
(*                                                                         *)
(* A token is the id of the session it opens.  PostgreSQL at READ          *)
(* COMMITTED: an UPDATE chooses its rows from what is committed when it    *)
(* starts (`targets`), then takes their row locks one by one, waiting for  *)
(* whoever holds one and looking at the row again when it gets it.  Writes *)
(* are published by Commit actions.                                        *)
(***************************************************************************)
EXTENDS Naturals, FiniteSets

CONSTANTS
  Owners,       \* accounts
  Sessions,     \* ids the sessions table may hand out
  Calls,        \* requests that can be in flight at once
  MaxCalls,     \* bound: requests that arrive in one behaviour
  Unset         \* a column or a field that is not set

ASSUME UnsetAssumption == Unset \notin Owners \cup Sessions

ASSUME CallsAssumption == MaxCalls \in Nat

VARIABLES
  session,   \* the sessions table: id -> row
  pc,        \* the statement a request is about to run
  req,       \* what it carries, has locked and is going to write
  called     \* requests that have arrived

sessionVars == <<session, pc, req, called>>

\* revoked_reason; "live" stands for a NULL revoked_at.
Reasons ==
  {"rotated", "refresh_token_reuse", "logout", "revoked_by_user", "logout_all"}

Row == [user    : Owners \cup {Unset},     \* Unset: the id is not in use
        family  : Sessions \cup {Unset},
        state   : Reasons \cup {"live"},
        next    : Sessions \cup {Unset},   \* replaced_by_session_id
        expired : BOOLEAN]                \* expires_at <= now()

NoRow == [user |-> Unset, family |-> Unset, state |-> "live", next |-> Unset,
          expired |-> FALSE]

Request == [token   : Sessions \cup {Unset},     \* the row a rotation locks
            child   : Sessions \cup {Unset},     \* the row it has inserted
            reason  : Reasons,
            seen    : SUBSET Sessions,          \* rows its UPDATE matched
            targets : SUBSET Sessions,          \* of those, still to be locked
            held    : SUBSET Sessions]          \* of those, locked and to write

NoRequest == [token |-> Unset, child |-> Unset, reason |-> "rotated",
              seen |-> {}, targets |-> {}, held |-> {}]

Exists(s) == session[s].user # Unset
Live(s)   == Exists(s) /\ session[s].state = "live"

LiveOfFamily(f) == {s \in Sessions : Live(s) /\ session[s].family = f}
LiveOfUser(u)   == {s \in Sessions : Live(s) /\ session[s].user = u}

--------------------------------------------------------------------------------
(* Locks *)

\* Mutant: rotate reads the presented row without FOR UPDATE.
HoldersSweepsOnly(s) ==
  {t \in Calls : pc[t] \in {"sweep", "commitSweep"} /\ s \in req[t].held}

\* The row lock of a session: taken by rotate's FOR UPDATE and kept to its end,
\* or by an UPDATE that has reached the row.
Holders(s) ==
  {t \in Calls : \/ pc[t] \in {"commitRotate", "sweep", "commitSweep"} /\ req[t].token = s
                 \/ pc[t] \in {"sweep", "commitSweep"} /\ s \in req[t].held}

--------------------------------------------------------------------------------
(* Control *)

Arrive(t, statement, request) ==
  /\ pc[t] = "idle"
  /\ called < MaxCalls
  /\ pc' = [pc EXCEPT ![t] = statement]
  /\ req' = [req EXCEPT ![t] = request]
  /\ called' = called + 1
  /\ UNCHANGED session

Finish(t) ==
  /\ pc' = [pc EXCEPT ![t] = "idle"]
  /\ req' = [req EXCEPT ![t] = NoRequest]
  /\ UNCHANGED called

\* An id nobody uses, not even a transaction still open.
Fresh(s) == ~Exists(s) /\ \A t \in Calls : req[t].child # s

\* An UPDATE begins: the rows its WHERE matches in the snapshot, by now committed.
Sweep(request, reason, matched) ==
  [request EXCEPT !.reason = reason, !.seen = matched, !.targets = matched]

--------------------------------------------------------------------------------
(* issue and rotate *)

\* issue: one INSERT; the row's id doubles as its family.
Issue(u, s) ==
  /\ called < MaxCalls
  /\ Fresh(s)
  /\ session' = [session EXCEPT ![s] = [NoRow EXCEPT !.user = u, !.family = s]]
  /\ called' = called + 1
  /\ UNCHANGED <<pc, req>>

\* A client presents a token it was given.
BeginRotate(t, s) ==
  /\ Exists(s)
  /\ Arrive(t, "lock", [NoRequest EXCEPT !.token = s])

\* FOR UPDATE, then the three outcomes on the row as the lock returns it.
LockToken(t) ==
  LET s == req[t].token IN
  /\ pc[t] = "lock"
  /\ Holders(s) = {}
  /\ \/ /\ session[s].state # "live"
        /\ pc' = [pc EXCEPT ![t] = "sweep"]
        /\ req' = [req EXCEPT ![t] =
                     Sweep(@, "refresh_token_reuse", LiveOfFamily(session[s].family))]
        /\ UNCHANGED called
     \/ session[s].state = "live" /\ session[s].expired /\ Finish(t)
     \/ /\ session[s].state = "live" /\ ~session[s].expired
        /\ \E c \in Sessions : Fresh(c) /\ req' = [req EXCEPT ![t].child = c]
        /\ pc' = [pc EXCEPT ![t] = "commitRotate"]
        /\ UNCHANGED called
  /\ UNCHANGED session

\* The row a rotation inserts: same account, same family, a new lifetime.
Child(s, c) == [NoRow EXCEPT !.user = session[s].user, !.family = session[s].family]

\* The child and the parent's revocation are published together.
CommitRotate(t) ==
  LET s == req[t].token
      c == req[t].child
  IN
  /\ pc[t] = "commitRotate"
  /\ session' = [session EXCEPT ![c] = Child(s, c),
                                ![s].state = "rotated", ![s].next = c]
  /\ Finish(t)

--------------------------------------------------------------------------------
(* The UPDATEs that revoke *)

\* revokeByToken (logout) and revokeById (revoked_by_user): one row, if it is live.
BeginRevokeOne(t, s, reason) ==
  /\ Exists(s)
  /\ Arrive(t, "sweep", Sweep(NoRequest, reason, {r \in {s} : Live(r)}))

\* revokeAllForUser.
BeginRevokeAll(t, u) ==
  Arrive(t, "sweep", Sweep(NoRequest, "logout_all", LiveOfUser(u)))

\* Mutant: SKIP LOCKED - a row somebody holds is left to whoever holds it.
TakeRowSkipping(t, s) ==
  /\ pc[t] = "sweep"
  /\ s \in req[t].targets
  /\ req' = [req EXCEPT ![t].targets = @ \ {s},
                        ![t].held = IF Holders(s) = {} /\ Live(s) THEN @ \cup {s} ELSE @]
  /\ UNCHANGED <<session, pc, called>>

\* The UPDATE reaches a row: it waits for the lock, then looks at the row again
\* and leaves it alone if somebody revoked it meanwhile.
TakeRow(t, s) ==
  /\ pc[t] = "sweep"
  /\ s \in req[t].targets
  /\ Holders(s) \subseteq {t}
  /\ req' = [req EXCEPT ![t].targets = @ \ {s},
                        ![t].held = IF Live(s) THEN @ \cup {s} ELSE @]
  /\ UNCHANGED <<session, pc, called>>

EndSweep(t) ==
  /\ pc[t] = "sweep"
  /\ req[t].targets = {}
  /\ pc' = [pc EXCEPT ![t] = "commitSweep"]
  /\ UNCHANGED <<session, req, called>>

\* Mutant: the UPDATE writes every row its snapshot matched.
RevokedAllSeen(t) ==
  [s \in Sessions |-> IF s \in req[t].seen THEN [session[s] EXCEPT !.state = req[t].reason]
                                           ELSE session[s]]

\* The rows a finished UPDATE writes.
Revoked(t) ==
  [s \in Sessions |-> IF s \in req[t].held THEN [session[s] EXCEPT !.state = req[t].reason]
                                           ELSE session[s]]

CommitSweep(t) ==
  /\ pc[t] = "commitSweep"
  /\ session' = Revoked(t)
  /\ Finish(t)

--------------------------------------------------------------------------------

\* The database clock passes expires_at.
Expire(s) ==
  /\ Exists(s) /\ ~session[s].expired
  /\ session' = [session EXCEPT ![s].expired = TRUE]
  /\ UNCHANGED <<pc, req, called>>

\* The process dies, the connection drops, or the deadlock detector chooses t.
Rollback(t) ==
  /\ pc[t] # "idle"
  /\ Finish(t)
  /\ UNCHANGED session

SessionsInit ==
  /\ session = [s \in Sessions |-> NoRow]
  /\ pc      = [t \in Calls |-> "idle"]
  /\ req     = [t \in Calls |-> NoRequest]
  /\ called  = 0

SessionsNext ==
  \/ \E u \in Owners, s \in Sessions : Issue(u, s)
  \/ \E s \in Sessions : Expire(s)
  \/ \E t \in Calls :
       \/ \E s \in Sessions : BeginRotate(t, s) \/ TakeRow(t, s)
       \/ \E s \in Sessions, reason \in {"logout", "revoked_by_user"} :
            BeginRevokeOne(t, s, reason)
       \/ \E u \in Owners : BeginRevokeAll(t, u)
       \/ LockToken(t) \/ CommitRotate(t) \/ EndSweep(t) \/ CommitSweep(t)
       \/ Rollback(t)

SessionsSpec == SessionsInit /\ [][SessionsNext]_sessionVars

--------------------------------------------------------------------------------
(* Properties *)

\* Columns and request fields stay within their ranges.
TypeOK ==
  /\ session \in [Sessions -> Row]
  /\ pc \in [Calls -> {"idle", "lock", "commitRotate", "sweep", "commitSweep"}]
  /\ req \in [Calls -> Request]
  /\ called \in Nat

\* A family never holds two live refresh tokens, however its clients race: a
\* token is exchanged once, and the exchange retires it.
OneLivePerFamily ==
  \A r, s \in Sessions :
    (Live(r) /\ Live(s) /\ session[r].family = session[s].family) => r = s

\* A family is one unbranched chain of exchanges: a session names a successor
\* exactly when it was rotated, in its own family and account, and no two
\* sessions share a successor.
FamilyIsChain ==
  \A s \in Sessions : Exists(s) =>
    /\ session[s].next # Unset <=> session[s].state = "rotated"
    /\ session[s].next # Unset =>
         /\ Exists(session[s].next)
         /\ session[session[s].next].user = session[s].user
         /\ session[session[s].next].family = session[s].family
         /\ \A r \in Sessions : session[r].next = session[s].next => r = s

\* Revocation is final: no refresh, logout or sweep revives a session or rewrites
\* how it ended.
RevokedForEver ==
  [][\A s \in Sessions :
       (Exists(s) /\ ~Live(s)) =>
         /\ session'[s].state = session[s].state
         /\ session'[s].next = session[s].next]_sessionVars

\* A sweep misses nothing it could see: when it commits, every session its UPDATE
\* matched is revoked, even those a concurrent transaction held and then gave up.
SweepRevokesWhatItSaw ==
  [][\A t \in Calls : CommitSweep(t) =>
       \A s \in req[t].seen : session'[s].state # "live"]_sessionVars

\* A row exists as a whole, in a family that some issue opened.
RowsOK ==
  \A s \in Sessions :
    /\ ~Exists(s) => session[s] = NoRow
    /\ Exists(s) => session[s].family \in Sessions /\ Exists(session[s].family)

\* What a request may rely on at its next statement.
RequestOK(t) ==
  /\ pc[t] = "idle" => req[t] = NoRequest
  /\ pc[t] \in {"lock", "commitRotate"} =>
       req[t].token \in Sessions /\ Exists(req[t].token) /\ req[t].held = {}
  /\ req[t].child # Unset => pc[t] = "commitRotate"
  /\ pc[t] = "commitRotate" =>
       /\ Live(req[t].token)
       /\ req[t].child \in Sessions /\ ~Exists(req[t].child)
       /\ \A u \in Calls : req[u].child = req[t].child => u = t
  /\ pc[t] \in {"sweep", "commitSweep"} =>
       /\ req[t].reason # "rotated"
       /\ \A s \in req[t].held : Live(s)
       /\ \A s \in req[t].seen : Exists(s) /\ (Live(s) => s \in req[t].targets \cup req[t].held)
  /\ pc[t] = "commitSweep" => req[t].targets = {}

LocksOK == \A s \in Sessions : \A t, u \in Holders(s) : t = u

\* One writer per row: under a lock the row stays as the lock found it, so what
\* a request decided on it is still so when it commits.
SessionsInv ==
  /\ TypeOK /\ RowsOK /\ LocksOK
  /\ \A t \in Calls : RequestOK(t)
  /\ OneLivePerFamily /\ FamilyIsChain

================================================================================
