---------------------------------- MODULE Otp -----------------------------------
(***************************************************************************)
(* OtpService: one-time codes for a phone and a purpose (section 4.2).     *)
(*                                                                         *)
(* send and verify are transactions of several statements at READ          *)
(* COMMITTED.  BEGIN and the first statement are one step here; now() is   *)
(* the time of that step for the whole transaction.  A statement that has  *)
(* to wait for a row works on the rows its own start found (targets) and   *)
(* checks them again once it has them.  Writes are published at commit.    *)
(***************************************************************************)
EXTENDS Naturals

CONSTANTS
  Keys,         \* pairs of a phone and an otp_purpose
  Codes,        \* ids the otp_codes table may hand out
  Secrets,      \* what generateOtpCode draws from; one value is OTP_STATIC_CODE
  Txns,         \* requests in flight at once
  MaxAttempts,  \* OTP_MAX_ATTEMPTS
  ResendDelay,  \* OTP_RESEND_DELAY_SECONDS
  Ttl,          \* OTP_TTL_SECONDS
  MaxClock,     \* bound: the last time a behaviour reaches
  MaxRequests,  \* bound: requests that arrive in one behaviour
  Null

VARIABLES
  code,      \* the otp_codes table: id -> row
  wrong,     \* wrong guesses each code has answered, counted outside the code
  opened,    \* verifications each code has answered, counted outside the code
  clock,     \* now() of a transaction that begins
  pc, req,   \* the statement a request is about to run, what it carries
  arrived

table == <<code, wrong, opened>>

vars == <<table, clock, pc, req, arrived>>

--------------------------------------------------------------------------------
(* Rows and requests *)

Row == [key      : Keys \cup {Null},
        secret   : Secrets \cup {Null},
        attempts : Nat,
        consumed : BOOLEAN,
        created  : Nat,
        expires  : Nat]

NoRow == [key |-> Null, secret |-> Null, attempts |-> 0, consumed |-> FALSE,
          created |-> 0, expires |-> 0]

Request == [key    : Keys \cup {Null},
            guess  : Secrets \cup {Null},   \* verify: what the user typed
            now    : Nat,
            target : Codes \cup {Null},     \* the live row the statement found
            held   : BOOLEAN,               \* target is locked, or superseded
            read   : Nat,                   \* verify: the attempts it has read
            fresh  : Codes \cup {Null}]     \* send: the row inserted

NoRequest == [key |-> Null, guess |-> Null, now |-> 0, target |-> Null,
              held |-> FALSE, read |-> 0, fresh |-> Null]

Exists(c) == code[c].key # Null

Live(c) == Exists(c) /\ ~code[c].consumed

LiveOf(k) == {c \in Codes : code[c].key = k /\ Live(c)}

--------------------------------------------------------------------------------
(* Locks and the index otp_codes_one_active_per_phone_purpose_idx *)

\* Mutant: verify reads the row without FOR UPDATE.
HoldersSendsOnly(c) ==
  {t \in Txns : req[t].target = c /\ req[t].held /\ req[t].guess = Null}

\* FOR UPDATE in verify, the superseding UPDATE in send.
Holders(c) == {t \in Txns : req[t].target = c /\ req[t].held}

Pending(k) == {t \in Txns : pc[t] = "commitSend" /\ req[t].key = k}

\* Live rows the insert would share its key with, its own superseded one apart.
Conflicts(t) == LiveOf(req[t].key) \ (IF req[t].held THEN {req[t].target} ELSE {})

--------------------------------------------------------------------------------
(* Control *)

Arrive(t, statement, request) ==
  /\ pc[t] = "idle"
  /\ arrived < MaxRequests
  /\ pc' = [pc EXCEPT ![t] = statement]
  /\ req' = [req EXCEPT ![t] = request]
  /\ arrived' = arrived + 1
  /\ UNCHANGED <<table, clock>>

Goto(t, next) == pc' = [pc EXCEPT ![t] = next] /\ UNCHANGED <<clock, arrived>>

Finish(t) == Goto(t, "idle") /\ req' = [req EXCEPT ![t] = NoRequest]

Refuse(t) == Finish(t) /\ UNCHANGED table

\* A row a statement starting now finds; at most one, by the index.
Found(rows) == IF rows = {} THEN Null ELSE CHOOSE c \in rows : TRUE

--------------------------------------------------------------------------------
(* send *)

\* created_at > now() - delay.
Recent(k) == {c \in Codes : code[c].key = k /\ code[c].created + ResendDelay > clock}

BeginSend(t, k) ==
  /\ Recent(k) = {}
  /\ Arrive(t, "supersede", [NoRequest EXCEPT !.key = k, !.now = clock])

\* The UPDATE starts: its snapshot decides which row it may consume.
Supersede(t) ==
  /\ pc[t] = "supersede"
  /\ req' = [req EXCEPT ![t].target = Found(LiveOf(req[t].key))]
  /\ Goto(t, "take")
  /\ UNCHANGED table

\* It waits for that row and consumes it if it is live still.
TakeSuperseded(t) ==
  LET c == req[t].target IN
  /\ pc[t] = "take"
  /\ c # Null => Holders(c) = {}
  /\ req' = [req EXCEPT ![t].held = c # Null /\ Live(c)]
  /\ Goto(t, "insert")
  /\ UNCHANGED table

\* The loser of the unique index fails.
Insert(t) ==
  /\ pc[t] = "insert"
  /\ Pending(req[t].key) = {}
  /\ \/ /\ Conflicts(t) = {}
        /\ \E c \in Codes :
             /\ ~Exists(c)
             /\ \A u \in Txns : req[u].fresh # c
             /\ req' = [req EXCEPT ![t].fresh = c]
        /\ Goto(t, "commitSend")
        /\ UNCHANGED table
     \/ Conflicts(t) # {} /\ Refuse(t)

Consumed(row) == [row EXCEPT !.consumed = TRUE]

Issued(r, secret) ==
  [key |-> r.key, secret |-> secret, attempts |-> 0, consumed |-> FALSE,
   created |-> r.now, expires |-> r.now + Ttl]

CommitSend(t, secret) ==
  LET r == req[t] IN
  /\ pc[t] = "commitSend"
  /\ code' = [c \in Codes |->
                IF c = r.fresh THEN Issued(r, secret)
                ELSE IF r.held /\ c = r.target THEN Consumed(code[c])
                ELSE code[c]]
  /\ Finish(t)
  /\ UNCHANGED <<wrong, opened>>

--------------------------------------------------------------------------------
(* verify *)

\* SELECT ... FOR UPDATE starts; with no row the answer is `invalid`.
BeginVerify(t, k, guess) ==
  LET found == {c \in LiveOf(k) : code[c].expires > clock} IN
  /\ found # {}
  /\ Arrive(t, "lock", [NoRequest EXCEPT !.key = k, !.guess = guess, !.now = clock,
                                         !.target = Found(found)])

\* It waits for the row, and gets none if the row is consumed by then.
LockCode(t) ==
  LET c == req[t].target IN
  /\ pc[t] = "lock"
  /\ Holders(c) = {}
  /\ \/ /\ Live(c)
        /\ req' = [req EXCEPT ![t].held = TRUE, ![t].read = code[c].attempts]
        /\ Goto(t, "commitVerify")
        /\ UNCHANGED table
     \/ ~Live(c) /\ Refuse(t)

\* Mutant: the right code is compared before the attempts are looked at.
OutcomeCodeFirst(r) ==
  IF code[r.target].secret = r.guess THEN "verified"
  ELSE IF r.read >= MaxAttempts THEN "locked_out" ELSE "invalid"

Outcome(r) ==
  IF r.read >= MaxAttempts THEN "locked_out"
  ELSE IF code[r.target].secret # r.guess THEN "invalid" ELSE "verified"

\* What the transaction writes; the outcome is returned, not thrown, so that the
\* attempt commits with it.
After(r) ==
  IF Outcome(r) = "invalid" THEN [code[r.target] EXCEPT !.attempts = r.read + 1]
  ELSE Consumed(code[r.target])

Counted(tally, r, outcome) ==
  [tally EXCEPT ![r.target] = @ + (IF Outcome(r) = outcome THEN 1 ELSE 0)]

CommitVerify(t) ==
  /\ pc[t] = "commitVerify"
  /\ code' = [code EXCEPT ![req[t].target] = After(req[t])]
  /\ wrong' = Counted(wrong, req[t], "invalid")
  /\ opened' = Counted(opened, req[t], "verified")
  /\ Finish(t)

--------------------------------------------------------------------------------

\* The process dies or the connection drops: the open transaction rolls back.
Rollback(t) == pc[t] # "idle" /\ Refuse(t)

Tick ==
  /\ clock < MaxClock
  /\ clock' = clock + 1
  /\ UNCHANGED <<table, pc, req, arrived>>

Init ==
  /\ code   = [c \in Codes |-> NoRow]
  /\ wrong  = [c \in Codes |-> 0]
  /\ opened = [c \in Codes |-> 0]
  /\ clock  = 1
  /\ pc     = [t \in Txns |-> "idle"]
  /\ req    = [t \in Txns |-> NoRequest]

Sending(t) ==
  \/ \E k \in Keys : BeginSend(t, k)
  \/ Supersede(t) \/ TakeSuperseded(t) \/ Insert(t)
  \/ \E s \in Secrets : CommitSend(t, s)

Verifying(t) ==
  \/ \E k \in Keys, s \in Secrets : BeginVerify(t, k, s)
  \/ LockCode(t) \/ CommitVerify(t)

Next == Tick \/ \E t \in Txns : Sending(t) \/ Verifying(t) \/ Rollback(t)

--------------------------------------------------------------------------------
(* Properties *)

\* Columns and request fields stay within their ranges.
TypeOK ==
  /\ code \in [Codes -> Row]
  /\ wrong \in [Codes -> Nat] /\ opened \in [Codes -> Nat]
  /\ clock \in Nat
  /\ pc \in [Txns -> {"idle", "supersede", "take", "insert", "commitSend",
                       "lock", "commitVerify"}]
  /\ req \in [Txns -> Request]

\* What a request carries: the key it is for, a row of that key, a row it has locked
\* and that is live until it commits, a row nobody else inserts.
RequestOK(t) ==
  LET r == req[t] IN
  /\ IF pc[t] = "idle" THEN r = NoRequest ELSE r.key \in Keys
  /\ r.target # Null => code[r.target].key = r.key
  /\ pc[t] \in {"lock", "commitVerify"} => r.target # Null
  /\ r.held => /\ pc[t] \in {"insert", "commitSend", "commitVerify"}
               /\ r.target # Null /\ Live(r.target)
  /\ pc[t] = "commitVerify" => r.held /\ r.read = code[r.target].attempts
  /\ r.fresh # Null <=> pc[t] = "commitSend"
  /\ pc[t] = "commitSend" => ~Exists(r.fresh) /\ Conflicts(t) = {}

\* One holder per row, one pending insert per key, one inserter per id.
LocksOK ==
  \A t, u \in Txns : t # u =>
    /\ ~(req[t].held /\ req[u].held /\ req[t].target = req[u].target)
    /\ ~(pc[t] = "commitSend" /\ pc[u] = "commitSend" /\ req[t].key = req[u].key)
    /\ req[t].fresh # Null => req[u].fresh # req[t].fresh

\* An unused id has no past, and a code that opened the door is consumed.
RowsOK ==
  \A c \in Codes :
    /\ ~Exists(c) => code[c] = NoRow /\ opened[c] = 0
    /\ opened[c] = 0 \/ (opened[c] = 1 /\ code[c].consumed)

\* However sends race each other and the verifications of the code they replace,
\* a phone never has two codes that could both be used.
OneLiveCode == \A k \in Keys : \A c, d \in LiveOf(k) : c = d

\* No wrong guess goes uncounted, however many are made at once, and a code
\* answers at most OTP_MAX_ATTEMPTS of them.
GuessesCounted ==
  \A c \in Codes : code[c].attempts = wrong[c] /\ wrong[c] <= MaxAttempts

\* A code opens the door at most once, and never after it was superseded or after
\* its attempts were used up.
OnlyLiveCodesOpen ==
  [][\A c \in Codes : opened'[c] # opened[c] =>
       ~code[c].consumed /\ wrong[c] < MaxAttempts /\ opened[c] = 0]_vars

\* Inductive.
IInv ==
  /\ TypeOK /\ (\A t \in Txns : RequestOK(t)) /\ LocksOK /\ RowsOK
  /\ OneLiveCode /\ GuessesCounted

================================================================================
