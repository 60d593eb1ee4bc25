------------------------------ MODULE Idempotency -------------------------------
(***************************************************************************)
(* IdempotencyService.run: the Idempotency-Key protocol around apply,      *)
(* invite and send.  Three statements of their own transactions with the   *)
(* caller's `work`, a transaction of its own, between the last two; the    *)
(* process or the connection may die between any of them, and clients      *)
(* retry at will.  One user and one operation: a key is scoped to the pair.*)
(***************************************************************************)
EXTENDS Naturals, FiniteSets

CONSTANTS
  Keys,         \* keys the client generates
  Bodies,       \* request bodies, as their fingerprints
  Resources,    \* ids the work's table may hand out
  Requests,     \* requests that can be in flight at once
  MaxAttempts,  \* bound: requests that arrive in one behaviour
  Unset         \* no key, or a column that is not set

ASSUME UnsetAssumption == Unset \notin Keys \cup Bodies \cup Resources

ASSUME AttemptsAssumption == MaxAttempts \in Nat

VARIABLES
  claim,     \* the idempotency_keys table: key -> row
  created,   \* the resources the work has committed, and for which request
  answered,  \* every answer a client was given
  pc,        \* the statement a request is about to run
  req,       \* its key, its body and the resource its work created
  attempts    \* requests that have arrived

runVars == <<claim, created, answered, pc, req, attempts>>

Row == [fingerprint : Bodies \cup {Unset},    \* Unset: no such row
        resource    : Resources \cup {Unset}]

NoRow == [fingerprint |-> Unset, resource |-> Unset]

Origin == [key : Keys \cup {Unset}, body : Bodies \cup {Unset}]

Nobody == [key |-> Unset, body |-> Unset]

Request == [key : Keys \cup {Unset}, body : Bodies \cup {Unset},
            resource : Resources \cup {Unset}]

NoRequest == [key |-> Unset, body |-> Unset, resource |-> Unset]

Kinds == {"resource", "key_reused", "in_progress", "refused", "error"}

Answer == [key : Keys \cup {Unset}, body : Bodies \cup {Unset}, kind : Kinds,
           resource : Resources \cup {Unset}]

Claimed(k) == claim[k].fingerprint # Unset
Created(x) == created[x].body # Unset

--------------------------------------------------------------------------------

Goto(r, next) == pc' = [pc EXCEPT ![r] = next]

\* The request ends, with an answer for its client.
Reply(r, kind, resource) ==
  /\ answered' = answered \cup {[key |-> req[r].key, body |-> req[r].body,
                                 kind |-> kind, resource |-> resource]}
  /\ Goto(r, "idle")
  /\ req' = [req EXCEPT ![r] = NoRequest]

\* Without a key there is nothing to claim or to replay.
Begin(r, k, b) ==
  /\ pc[r] = "idle"
  /\ attempts < MaxAttempts
  /\ Goto(r, IF k = Unset THEN "work" ELSE "lookup")
  /\ req' = [req EXCEPT ![r] = [NoRequest EXCEPT !.key = k, !.body = b]]
  /\ attempts' = attempts + 1
  /\ UNCHANGED <<claim, created, answered>>

\* The SELECT and the three answers an existing row gives.
Lookup(r) ==
  LET row == claim[req[r].key] IN
  /\ pc[r] = "lookup"
  /\ \/ /\ Claimed(req[r].key)
        /\ \/ row.fingerprint # req[r].body /\ Reply(r, "key_reused", Unset)
           \/ /\ row.fingerprint = req[r].body
              /\ row.resource # Unset
              /\ Reply(r, "resource", row.resource)
           \/ /\ row.fingerprint = req[r].body
              /\ row.resource = Unset
              /\ Reply(r, "in_progress", Unset)
     \/ /\ ~Claimed(req[r].key)
        /\ Goto(r, "claim")
        /\ UNCHANGED <<answered, req>>
  /\ UNCHANGED <<claim, created, attempts>>

\* Mutant: ON CONFLICT DO UPDATE, so the second claim takes the key over.
ClaimOver(r) ==
  /\ pc[r] = "claim"
  /\ claim' = [claim EXCEPT ![req[r].key] = [fingerprint |-> req[r].body, resource |-> Unset]]
  /\ Goto(r, "work")
  /\ UNCHANGED <<created, answered, req, attempts>>

\* The INSERT, committed at once.  The primary key fails the second of two: the
\* row it conflicts with is committed, so there is nothing to wait for, and the
\* violation reaches the client as an internal error.
Claim(r) ==
  /\ pc[r] = "claim"
  /\ \/ /\ ~Claimed(req[r].key)
        /\ claim' = [claim EXCEPT ![req[r].key] =
                       [fingerprint |-> req[r].body, resource |-> Unset]]
        /\ Goto(r, "work")
        /\ UNCHANGED <<answered, req>>
     \/ /\ Claimed(req[r].key)
        /\ Reply(r, "error", Unset)
        /\ UNCHANGED claim
  /\ UNCHANGED <<created, attempts>>

\* The work's own transaction: it commits a resource, or refuses and commits none.
Work(r) ==
  /\ pc[r] = "work"
  /\ \/ \E x \in Resources :
          /\ ~Created(x)
          /\ created' = [created EXCEPT ![x] = [key |-> req[r].key, body |-> req[r].body]]
          /\ \/ /\ req[r].key = Unset
                /\ Reply(r, "resource", x)
             \/ /\ req[r].key # Unset
                /\ Goto(r, "record")
                /\ req' = [req EXCEPT ![r].resource = x]
                /\ UNCHANGED answered
     \/ Reply(r, "refused", Unset) /\ UNCHANGED created
  /\ UNCHANGED <<claim, attempts>>

\* Mutant: the key is recorded for the body alone.
RecordUnscoped(r) ==
  /\ pc[r] = "record"
  /\ claim' = [k \in Keys |-> IF claim[k].fingerprint = req[r].body
                                THEN [claim[k] EXCEPT !.resource = req[r].resource]
                                ELSE claim[k]]
  /\ Reply(r, "resource", req[r].resource)
  /\ UNCHANGED <<created, attempts>>

\* The UPDATE that makes the request replayable, and the answer.
Record(r) ==
  /\ pc[r] = "record"
  /\ claim' = [claim EXCEPT ![req[r].key].resource = req[r].resource]
  /\ Reply(r, "resource", req[r].resource)
  /\ UNCHANGED <<created, attempts>>

\* The process dies between two statements: no answer, and no rollback of what
\* its earlier statements committed.
Crash(r) ==
  /\ pc[r] # "idle"
  /\ Goto(r, "idle")
  /\ req' = [req EXCEPT ![r] = NoRequest]
  /\ UNCHANGED <<claim, created, answered, attempts>>

RunInit ==
  /\ claim    = [k \in Keys |-> NoRow]
  /\ created  = [x \in Resources |-> Nobody]
  /\ answered = {}
  /\ pc       = [r \in Requests |-> "idle"]
  /\ req      = [r \in Requests |-> NoRequest]
  /\ attempts  = 0

RunNext ==
  \E r \in Requests :
    \/ \E k \in Keys \cup {Unset}, b \in Bodies : Begin(r, k, b)
    \/ Lookup(r) \/ Claim(r) \/ Work(r) \/ Record(r) \/ Crash(r)

RunSpec == RunInit /\ [][RunNext]_runVars

--------------------------------------------------------------------------------
(* Properties *)

\* Rows, requests and answers stay within their ranges.
TypeOK ==
  /\ claim \in [Keys -> Row]
  /\ created \in [Resources -> Origin]
  /\ answered \subseteq Answer
  /\ pc \in [Requests -> {"idle", "lookup", "claim", "work", "record"}]
  /\ req \in [Requests -> Request]
  /\ attempts \in Nat

\* "Runs operation at most once per key": however often a request is retried,
\* and wherever its earlier attempts died, one key creates one resource.
AtMostOncePerKey ==
  \A x, y \in Resources :
    (Created(x) /\ Created(y) /\ created[x].key # Unset /\ created[x].key = created[y].key)
      => x = y

\* A replay is the original: every resource answered under a key was created
\* under that key, for the very request that is answered.
ReplaysTheOriginal ==
  \A a \in answered :
    a.kind = "resource" => created[a.resource] = [key |-> a.key, body |-> a.body]

\* What a request may rely on at its next statement: nobody but the holder of a
\* claim works on its key, and the holder has not created anything before.
RequestOK(r) ==
  /\ pc[r] # "idle" => req[r].body \in Bodies
  /\ pc[r] \in {"lookup", "claim", "record"} => req[r].key \in Keys
  /\ pc[r] \in {"work", "record"} /\ req[r].key # Unset =>
       /\ claim[req[r].key] = [fingerprint |-> req[r].body, resource |-> Unset]
       /\ \A q \in Requests :
            pc[q] \in {"work", "record"} /\ req[q].key = req[r].key => q = r
  /\ pc[r] = "work" /\ req[r].key # Unset =>
       \A x \in Resources : created[x].key # req[r].key
  /\ pc[r] = "record" =>
       /\ req[r].resource \in Resources
       /\ created[req[r].resource] = [key |-> req[r].key, body |-> req[r].body]

\* Nothing is created under a key before its claim.
OriginsClaimed ==
  \A x \in Resources : created[x].key # Unset => Created(x) /\ Claimed(created[x].key)

\* What a claim points to was created for it.
ClaimsReplayable ==
  \A k \in Keys : claim[k].resource # Unset =>
    created[claim[k].resource] = [key |-> k, body |-> claim[k].fingerprint]

AnswersNamed ==
  \A a \in answered : /\ a.body \in Bodies
                      /\ a.kind = "resource" => a.resource \in Resources

\* The claim is what makes it so: a key is worked on by one request, after its
\* claim and before its resource, or has created its resource, or is dead.
ClaimsOK ==
  /\ \A r \in Requests : RequestOK(r)
  /\ OriginsClaimed
  /\ ClaimsReplayable
  /\ AnswersNamed

RunInv == TypeOK /\ AtMostOncePerKey /\ ReplaysTheOriginal /\ ClaimsOK

================================================================================
