-------------------------------- MODULE Accounts --------------------------------
(***************************************************************************)
(* AuthService and UsersService: registration and login by phone or by     *)
(* Telegram, roles, tokens, deletion requests, and the account status the  *)
(* guards read before every mutation (BR-01, BR-08, BR-10, BR-14).         *)
(*                                                                         *)
(* None of these transactions locks what it reads: an account is looked up *)
(* and updated by id later, and only the unique indexes of the phone and   *)
(* the Telegram id decide between two of them.  Writes are published by    *)
(* Commit actions.  last_login_at and the username decide nothing and are  *)
(* left out.                                                               *)
(***************************************************************************)
EXTENDS Naturals, Sequences

CONSTANTS
  Users,        \* ids the users table may hand out
  Phones,
  Telegrams,    \* Telegram user ids
  Roles,        \* the roles a user may select
  Txns,         \* requests in flight at once
  MaxRequests,  \* bound: requests that arrive in one behaviour
  Null

VARIABLES
  user,      \* users and user_roles: id -> row
  history,   \* account_status_history, per user, in order
  deletion,  \* users with an open deletion request
  token,     \* access tokens signed so far
  since,     \* requests under way when a user was last blocked or restricted
  pc, req, arrived

tables == <<user, history, deletion, token>>

vars == <<tables, since, pc, req, arrived>>

--------------------------------------------------------------------------------
(* Rows, tokens and requests *)

Statuses == {"active", "restricted", "blocked", "deletion_requested"}

NoStatus == "none"

Row == [phone    : Phones \cup {Null},
        telegram : Telegrams \cup {Null},
        status   : Statuses \cup {NoStatus},   \* NoStatus: the id is not in use
        roles    : SUBSET Roles]

NoRow == [phone |-> Null, telegram |-> Null, status |-> NoStatus, roles |-> {}]

HistoryRow == [from : Statuses \cup {NoStatus}, to : Statuses]

\* AccessTokenClaims; phone remembers what a phone login was opened with.
Token == [user : Users, roles : SUBSET Roles, active : Roles \cup {Null},
          phone : Phones \cup {Null}]

Request == [user     : Users \cup {Null},
            phone    : Phones \cup {Null},
            telegram : Telegrams \cup {Null},
            status   : Statuses \cup {NoStatus},  \* as a SELECT has read it
            roles    : SUBSET Roles]

NoRequest == [user |-> Null, phone |-> Null, telegram |-> Null,
              status |-> NoStatus, roles |-> {}]

Exists(u) == user[u].status # NoStatus

ByPhone(p) == {u \in Users : p # Null /\ user[u].phone = p}

ByTelegram(g) == {u \in Users : g # Null /\ user[u].telegram = g}

--------------------------------------------------------------------------------
(* Guards *)

\* Mutant: the guard looks for restricted accounts only.
MayMutateBlocked(status) == status # "restricted"

\* AccountStatusGuard, on every authenticated POST, PUT, PATCH and DELETE.
MayMutate(status) == status \notin {"blocked", "restricted"}

MayAuthenticate(status) == status # "blocked"

DefaultActiveRole(roles) == IF \E r \in Roles : roles = {r}
                            THEN CHOOSE r \in roles : TRUE ELSE Null

--------------------------------------------------------------------------------
(* Unique indexes and row locks *)

\* Mutant: neither column is unique.
PendingNone(t) == {}

Shares(a, b) == a # Null /\ a = b

\* Others whose uncommitted row has the phone or the Telegram id of request t.
Pending(t) ==
  {u \in Txns \ {t} :
     /\ pc[u] \in {"commitCreate", "commitFill", "commitLink"}
     /\ \/ Shares(req[u].phone, req[t].phone)
        \/ Shares(req[u].telegram, req[t].telegram)}

\* UPDATEs of the account that have not committed.
Writers(t) ==
  {u \in Txns \ {t} : /\ pc[u] \in {"commitFill", "commitLink", "commitDelete"}
                      /\ req[u].user = req[t].user}

--------------------------------------------------------------------------------
(* Control *)

Arrive(t, statement, request) ==
  /\ pc[t] = "idle"
  /\ arrived < MaxRequests
  /\ pc' = [pc EXCEPT ![t] = statement]
  /\ req' = [req EXCEPT ![t] = request]
  /\ since' = [u \in Users |-> since[u] \ {t}]
  /\ arrived' = arrived + 1
  /\ UNCHANGED tables

Goto(t, next) == pc' = [pc EXCEPT ![t] = next] /\ UNCHANGED <<since, arrived>>

Finish(t) == Goto(t, "idle") /\ req' = [req EXCEPT ![t] = NoRequest]

Refuse(t) == Finish(t) /\ UNCHANGED tables

Continue(t, next, request) ==
  Goto(t, next) /\ req' = [req EXCEPT ![t] = request] /\ UNCHANGED tables

\* Mutant: the columns are swapped.
RecordSwapped(u, from, to) ==
  history' = [history EXCEPT ![u] = Append(@, [from |-> to, to |-> from])]

Record(u, from, to) == history' = [history EXCEPT ![u] = Append(@, [from |-> from, to |-> to])]

--------------------------------------------------------------------------------
(* Login by phone: completePhoneVerification *)

BeginPhoneLogin(t, p) ==
  \/ /\ ByPhone(p) = {}
     /\ Arrive(t, "create", [NoRequest EXCEPT !.phone = p])
  \/ \E u \in ByPhone(p) :
       /\ MayAuthenticate(user[u].status)
       /\ Arrive(t, "issue", [NoRequest EXCEPT !.user = u, !.phone = p])

\* INSERT INTO users: waits for an uncommitted row with the same credential and
\* fails on a committed one.
Create(t) ==
  /\ pc[t] = "create"
  /\ Pending(t) = {}
  /\ \/ /\ ByPhone(req[t].phone) \cup ByTelegram(req[t].telegram) = {}
        /\ \E u \in Users :
             /\ ~Exists(u)
             /\ \A v \in Txns : ~(pc[v] = "commitCreate" /\ req[v].user = u)
             /\ Continue(t, "commitCreate", [req[t] EXCEPT !.user = u])
     \/ /\ ByPhone(req[t].phone) \cup ByTelegram(req[t].telegram) # {}
        /\ Refuse(t)

CommitCreate(t) ==
  LET r == req[t] IN
  /\ pc[t] = "commitCreate"
  /\ user' = [user EXCEPT ![r.user] = [phone |-> r.phone, telegram |-> r.telegram,
                                       status |-> "active", roles |-> {}]]
  /\ Record(r.user, NoStatus, "active")
  /\ Goto(t, "issue")
  /\ UNCHANGED <<deletion, token, req>>

\* issueTokens, after the transaction: a session and a token.
Issue(t) ==
  LET u == req[t].user IN
  /\ pc[t] = "issue"
  /\ token' = token \cup {[user |-> u, roles |-> user[u].roles,
                           active |-> DefaultActiveRole(user[u].roles),
                           phone |-> IF req[t].telegram = Null THEN req[t].phone ELSE Null]}
  /\ Finish(t)
  /\ UNCHANGED <<user, history, deletion>>

--------------------------------------------------------------------------------
(* Login by Telegram: completeTelegramLogin *)

\* TelegramOidcService.toIdentity: p is the phone Telegram vouches for, if any.
BeginTelegramLogin(t, g, p) ==
  LET r == [NoRequest EXCEPT !.telegram = g, !.phone = p] IN
  \/ ByTelegram(g) = {} /\ Arrive(t, "holder", r)
  \/ \E u \in ByTelegram(g) :
       /\ MayAuthenticate(user[u].status)
       /\ Arrive(t, "fill", [r EXCEPT !.user = u])

\* COALESCE(phone, verifiedPhone).
Filled(row, p) == [row EXCEPT !.phone = IF @ = Null THEN p ELSE @]

\* The UPDATE of a known account: waits for the row, then for the index; with the
\* phone on another account it fails.
Fill(t) ==
  LET r     == req[t]
      gains == Filled(user[r.user], r.phone).phone # user[r.user].phone
  IN /\ pc[t] = "fill"
     /\ Writers(t) = {}
     /\ gains => Pending(t) = {}
     /\ \/ (gains => ByPhone(r.phone) = {}) /\ Continue(t, "commitFill", r)
        \/ gains /\ ByPhone(r.phone) # {} /\ Refuse(t)

CommitFill(t) ==
  /\ pc[t] = "commitFill"
  /\ user' = [user EXCEPT ![req[t].user] = Filled(@, req[t].phone)]
  /\ Goto(t, "issue")
  /\ UNCHANGED <<history, deletion, token, req>>

\* Who has the verified phone: an account without a Telegram id is linked, one
\* with another Telegram id keeps the phone, and the new account goes without.
FindHolder(t) ==
  LET r == req[t] IN
  /\ pc[t] = "holder"
  /\ \/ ByPhone(r.phone) = {} /\ Continue(t, "create", r)
     \/ \E u \in ByPhone(r.phone) :
          \/ /\ user[u].telegram # Null
             /\ Continue(t, "create", [r EXCEPT !.phone = Null])
          \/ /\ user[u].telegram = Null /\ MayAuthenticate(user[u].status)
             /\ Continue(t, "link", [r EXCEPT !.user = u, !.status = user[u].status])
          \/ /\ user[u].telegram = Null /\ ~MayAuthenticate(user[u].status)
             /\ Refuse(t)

Link(t) ==
  /\ pc[t] = "link"
  /\ Writers(t) \cup {u \in Pending(t) : req[u].telegram = req[t].telegram} = {}
  /\ \/ ByTelegram(req[t].telegram) = {} /\ Continue(t, "commitLink", req[t])
     \/ ByTelegram(req[t].telegram) # {} /\ Refuse(t)

\* The history row repeats the status the link has read.
CommitLink(t) ==
  LET r == req[t] IN
  /\ pc[t] = "commitLink"
  /\ user' = [user EXCEPT ![r.user].telegram = r.telegram]
  /\ Record(r.user, r.status, r.status)
  /\ Goto(t, "issue")
  /\ UNCHANGED <<deletion, token, req>>

--------------------------------------------------------------------------------
(* Roles and tokens: selectRoles, switchActiveRole, refresh *)

\* The request has passed AccountStatusGuard.
BeginSelectRoles(t, k, roles) ==
  /\ roles # {}
  /\ MayMutate(user[k.user].status)
  /\ Arrive(t, "select", [NoRequest EXCEPT !.user = k.user, !.roles = roles])

\* One INSERT ... ON CONFLICT DO NOTHING.
SelectRoles(t) ==
  /\ pc[t] = "select"
  /\ user' = [user EXCEPT ![req[t].user].roles = @ \cup req[t].roles]
  /\ Finish(t)
  /\ UNCHANGED <<history, deletion, token>>

\* The grant is looked up in the table, not in the token.
SwitchActiveRole(k, role) ==
  /\ MayMutate(user[k.user].status)
  /\ role \in user[k.user].roles
  /\ arrived < MaxRequests
  /\ arrived' = arrived + 1
  /\ token' = token \cup {[k EXCEPT !.roles = user[k.user].roles, !.active = role]}
  /\ UNCHANGED <<user, history, deletion, since, pc, req>>

\* refresh, the rotation being module Sessions; public, so no guard looks at it.
Refresh(k) ==
  LET roles == user[k.user].roles IN
  /\ arrived < MaxRequests
  /\ arrived' = arrived + 1
  /\ token' = token \cup {[k EXCEPT !.roles = roles, !.active = DefaultActiveRole(roles)]}
  /\ UNCHANGED <<user, history, deletion, since, pc, req>>

--------------------------------------------------------------------------------
(* Deletion: requestDeletion *)

\* AccountStatusGuard's read, before the handler's transaction.
BeginDeletion(t, k) ==
  /\ MayMutate(user[k.user].status)
  /\ Arrive(t, "read", [NoRequest EXCEPT !.user = k.user])

ReadStatus(t) ==
  /\ pc[t] = "read"
  /\ Continue(t, "delete", [req[t] EXCEPT !.status = user[req[t].user].status])

\* INSERT ... ON CONFLICT DO NOTHING, which waits for another's row, and the
\* UPDATE by id, which waits for the account.
Delete(t) ==
  /\ pc[t] = "delete"
  /\ Writers(t) = {}
  /\ Continue(t, "commitDelete", req[t])

CommitDelete(t) ==
  LET u == req[t].user IN
  /\ pc[t] = "commitDelete"
  /\ deletion' = deletion \cup {u}
  /\ \/ /\ req[t].status # "deletion_requested"
        /\ user' = [user EXCEPT ![u].status = "deletion_requested"]
        /\ Record(u, req[t].status, "deletion_requested")
     \/ req[t].status = "deletion_requested" /\ UNCHANGED <<user, history>>
  /\ Finish(t)
  /\ UNCHANGED token

--------------------------------------------------------------------------------

\* An administrator changes the status in one transaction; src/ has no such
\* operation yet, only the guards that read it.
SetStatus(u, status) ==
  /\ Exists(u) /\ status # user[u].status
  /\ \A t \in Txns : ~(pc[t] \in {"commitFill", "commitLink", "commitDelete"} /\ req[t].user = u)
  /\ arrived < MaxRequests
  /\ arrived' = arrived + 1
  /\ user' = [user EXCEPT ![u].status = status]
  /\ Record(u, user[u].status, status)
  /\ since' = [since EXCEPT ![u] = {t \in Txns : pc[t] # "idle"}]
  /\ UNCHANGED <<deletion, token, pc, req>>

\* The process dies or the connection drops: the open transaction rolls back.
Rollback(t) == pc[t] # "idle" /\ Refuse(t)

\* What a registration by phone, by Telegram or by both leaves behind.
Registered ==
  {r \in [phone : Phones \cup {Null}, telegram : Telegrams \cup {Null},
          status : {"active"}, roles : {{}}] : r.phone # Null \/ r.telegram # Null}

\* A new table, or one account whose owner is signed in.
Init ==
  /\ \/ /\ user    = [u \in Users |-> NoRow]
        /\ history = [u \in Users |-> <<>>]
        /\ token   = {}
     \/ \E o \in Users, row \in Registered :
          /\ user    = [u \in Users |-> IF u = o THEN row ELSE NoRow]
          /\ history = [u \in Users |->
               IF u = o THEN <<[from |-> NoStatus, to |-> "active"]>> ELSE <<>>]
          /\ token   = {[user |-> o, roles |-> {}, active |-> Null, phone |-> row.phone]}
  /\ deletion = {}
  /\ since    = [u \in Users |-> {}]
  /\ pc       = [t \in Txns |-> "idle"]
  /\ req      = [t \in Txns |-> NoRequest]

LoggingIn(t) ==
  \/ \E g \in Telegrams, p \in Phones \cup {Null} : BeginTelegramLogin(t, g, p)
  \/ FindHolder(t) \/ Create(t) \/ CommitCreate(t) \/ Fill(t) \/ CommitFill(t)
  \/ Link(t) \/ CommitLink(t) \/ Issue(t)

Managing(t) ==
  \/ \E k \in token, roles \in SUBSET Roles : BeginSelectRoles(t, k, roles)
  \/ \E k \in token : BeginDeletion(t, k)
  \/ SelectRoles(t) \/ ReadStatus(t) \/ Delete(t) \/ CommitDelete(t)

Signing ==
  \E k \in token : Refresh(k) \/ \E role \in Roles : SwitchActiveRole(k, role)

--------------------------------------------------------------------------------
(* Properties *)

\* Columns, claims and request fields stay within their ranges.
TypeOK ==
  /\ user \in [Users -> Row]
  /\ history \in [Users -> Seq(HistoryRow)]
  /\ deletion \subseteq Users
  /\ token \subseteq Token
  /\ since \in [Users -> SUBSET Txns]
  /\ pc \in [Txns -> {"idle", "create", "commitCreate", "issue", "fill", "commitFill",
                       "holder", "link", "commitLink", "select", "read", "delete",
                       "commitDelete"}]
  /\ req \in [Txns -> Request]

\* What a request carries: a credential to log in with, and an account that is there
\* unless the request is about to create it.
RequestOK(t) ==
  LET r == req[t] IN
  /\ pc[t] = "idle" => r = NoRequest
  /\ pc[t] \in {"holder", "create"} => r.user = Null
  /\ pc[t] \in {"create", "commitCreate"} => r.phone # Null \/ r.telegram # Null
  /\ pc[t] \in {"holder", "fill", "commitFill", "link", "commitLink"} => r.telegram # Null
  /\ pc[t] \notin {"idle", "holder", "create"} =>
       r.user \in Users /\ (Exists(r.user) <=> pc[t] # "commitCreate")
  /\ pc[t] \in {"link", "commitLink", "delete", "commitDelete"} => r.status \in Statuses
  /\ pc[t] = "issue" /\ r.telegram = Null => r.phone # Null /\ user[r.user].phone = r.phone

ClaimsPhone(t) ==
  \/ pc[t] = "commitCreate"
  \/ pc[t] = "commitFill" /\ user[req[t].user].phone = Null

ClaimsTelegram(t) == pc[t] \in {"commitCreate", "commitLink"}

\* The unique indexes: an uncommitted row is the only claim on its id, on its phone
\* and on its Telegram id.
IndexesOK ==
  \A t \in Txns :
    /\ ClaimsPhone(t) => ByPhone(req[t].phone) = {}
    /\ ClaimsTelegram(t) => ByTelegram(req[t].telegram) = {}
    /\ \A v \in Txns \ {t} :
         /\ ClaimsPhone(t) /\ ClaimsPhone(v) => ~Shares(req[t].phone, req[v].phone)
         /\ ClaimsTelegram(t) /\ ClaimsTelegram(v) =>
              ~Shares(req[t].telegram, req[v].telegram)
         /\ pc[t] = "commitCreate" /\ pc[v] = "commitCreate" => req[t].user # req[v].user

\* Nobody is signed in to an account that is not there.
SignedInExist == \A k \in token : Exists(k.user)

\* A request the last change of status did not find under way was let through by the
\* status the account has.
GuardsOK ==
  \A t \in Txns :
    LET u == req[t].user IN
    u # Null /\ t \notin since[u] =>
      /\ MayAuthenticate(user[u].status)
      /\ pc[t] \in {"select", "read", "delete", "commitDelete"} => MayMutate(user[u].status)

\* One account per phone and per Telegram id, none that no login can reach and no
\* credential without its account, however registrations, links and fills of one
\* person race each other.
OneAccountPerCredential ==
  /\ \A u \in Users : Exists(u) <=> user[u].phone # Null \/ user[u].telegram # Null
  /\ \A u, v \in Users : u # v =>
       /\ ~Shares(user[u].phone, user[v].phone)
       /\ ~Shares(user[u].telegram, user[v].telegram)

\* A token opened with a phone is for the account that has the phone, now and
\* later: nothing that happens between the look-up and the token, and no Telegram
\* login, moves a phone to another account.
TokenMatchesPhone == \A k \in token : k.phone # Null => user[k.user].phone = k.phone

ControlOK == (\A t \in Txns : RequestOK(t)) /\ IndexesOK /\ SignedInExist /\ GuardsOK

\* BR-08: of the rows that record a change, the last one names the status the
\* account has, also when deletions, links and an administrator write it at once.
StatusOnRecord ==
  \A u \in Users :
    LET h == history[u] IN
    IF Exists(u)
    THEN /\ h # <<>> /\ h[1] = [from |-> NoStatus, to |-> "active"]
         /\ \E i \in 1..Len(h) :
              /\ h[i].from # h[i].to /\ h[i].to = user[u].status
              /\ \A j \in (i + 1)..Len(h) : h[j].from = h[j].to
    ELSE h = <<>>

Barred(t) ==
  \/ user[req[t].user].status = "blocked"
  \/ user[req[t].user].status = "restricted" /\ pc[t] \in {"select", "commitDelete"}

\* BR-10: whatever still happens to a blocked account, or to a restricted one that
\* changes something, is the end of a request that was under way when the
\* administrator acted.
BlockStopsNewRequests ==
  [][\A t \in Txns :
       (/\ pc'[t] # pc[t] /\ req[t].user # Null
        /\ Barred(t) /\ tables' # tables) => t \in since[req[t].user]]_vars

\* Inductive.
IInv ==
  TypeOK /\ ControlOK /\ OneAccountPerCredential /\ TokenMatchesPhone /\ StatusOnRecord

================================================================================
