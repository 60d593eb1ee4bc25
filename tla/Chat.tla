---------------------------------- MODULE Chat ----------------------------------
(***************************************************************************)
(* ChatService: threads between an employer and a candidate (section 9.1). *)
(*                                                                         *)
(* Permission to write is asked of the hiring interaction on every send,   *)
(* and of the blocks, before the transaction that inserts the message.     *)
(* now() is the time a transaction or a lone statement begins; the clock   *)
(* gives every one of them a time of its own.  Writes of a transaction are *)
(* published by its Commit action.                                         *)
(***************************************************************************)
EXTENDS Naturals

CONSTANTS
  Employers,
  Candidates,
  Threads,      \* ids the conversations table may hand out
  Txns,         \* requests that can be in flight at once
  MaxRequests,  \* bound: requests that arrive in one behaviour
  Null          \* a column or a field that is not set

VARIABLES
  linked,    \* pairs with a live hiring interaction; not written here
  thread,    \* the conversations table: id -> row
  messages,  \* the messages of each thread
  block,     \* conversation_blocks: thread, side -> its created_at, 0 for none
  clock,     \* the latest now()
  pc,        \* the statement a request is about to run
  req,       \* what it carries and has read
  arrived    \* requests that have arrived

tables == <<thread, messages, block>>

vars == <<linked, thread, messages, block, clock, pc, req, arrived>>

Sides == {"employer", "candidate"}

Other(side) == IF side = "employer" THEN "candidate" ELSE "employer"

Pairs == Employers \X Candidates

Row == [pair   : Pairs \cup {Null},      \* Null: the id is not in use
        lastAt : Nat,                    \* last_message_at, 0 for NULL
        readAt : [Sides -> Nat]]         \* employer_read_at and candidate_read_at

NoRow == [pair |-> Null, lastAt |-> 0, readAt |-> [s \in Sides |-> 0]]

Message == [from : Sides, at : Nat]

Request == [pair   : Pairs \cup {Null},
            thread : Threads \cup {Null},
            side   : Sides,
            gateAt : Nat,                \* history: when its gate was asked
            seen   : SUBSET Message,     \* history: what a markRead has been shown
            at     : Nat]                \* now() of its transaction or statement

NoRequest == [pair |-> Null, thread |-> Null, side |-> "employer",
              gateAt |-> 0, seen |-> {}, at |-> 0]

Exists(c) == thread[c].pair # Null

Of(pair) == {c \in Threads : thread[c].pair = pair}

\* An uncommitted UPDATE of the conversation row.
Writers(c) == {t \in Txns : pc[t] = "commitMessage" /\ req[t].thread = c}

--------------------------------------------------------------------------------
(* Control *)

Arrive(t, statement, request) ==
  /\ pc[t] = "idle"
  /\ arrived < MaxRequests
  /\ pc' = [pc EXCEPT ![t] = statement]
  /\ req' = [req EXCEPT ![t] = request]
  /\ arrived' = arrived + 1
  /\ UNCHANGED <<tables, clock>>

Goto(t, next) ==
  /\ pc' = [pc EXCEPT ![t] = next]
  /\ UNCHANGED arrived

Finish(t) == Goto(t, "idle") /\ req' = [req EXCEPT ![t] = NoRequest]

\* now(), stamped on the request.
Stamp(t) == clock' = clock + 1 /\ req' = [req EXCEPT ![t].at = clock + 1]

--------------------------------------------------------------------------------
(* open *)

\* The gate, asked at creation as well.
BeginOpen(t, pair) ==
  /\ pair \in linked
  /\ Arrive(t, "find", [NoRequest EXCEPT !.pair = pair])

FindThread(t) ==
  /\ pc[t] = "find"
  /\ \/ Of(req[t].pair) # {} /\ Finish(t)
     \/ Of(req[t].pair) = {} /\ Goto(t, "create") /\ UNCHANGED req
  /\ UNCHANGED <<tables, clock>>

\* INSERT ... ON CONFLICT DO UPDATE: whoever loses rewrites the winner's key as it
\* was and reads its row.
CreateThread(t) ==
  /\ pc[t] = "create"
  /\ \/ Of(req[t].pair) # {} /\ UNCHANGED thread
     \/ /\ Of(req[t].pair) = {}
        /\ \E c \in Threads :
             ~Exists(c) /\ thread' = [thread EXCEPT ![c].pair = req[t].pair]
  /\ Finish(t)
  /\ UNCHANGED <<messages, block, clock>>

--------------------------------------------------------------------------------
(* send *)

\* Mutant: a block stops the side it was set against, as a mute would.
BlockedMuted(c, side) == block[c][Other(side)] # 0

\* is_blocked: by either side, for both.
Blocked(c, side) == \E s \in Sides : block[c][s] # 0

\* read() runs two statements: the thread with its blocks, then the interaction.
BeginSend(t, c, side) ==
  /\ Exists(c)
  /\ ~Blocked(c, side)
  /\ Arrive(t, "askInteraction",
            [NoRequest EXCEPT !.thread = c, !.side = side, !.gateAt = clock])

AskInteraction(t) ==
  /\ pc[t] = "askInteraction"
  /\ \/ thread[req[t].thread].pair \in linked /\ Goto(t, "insertMessage") /\ UNCHANGED req
     \/ thread[req[t].thread].pair \notin linked /\ Finish(t)
  /\ UNCHANGED <<tables, clock>>

\* BEGIN and the INSERT: created_at defaults to now().
InsertMessage(t) ==
  /\ pc[t] = "insertMessage"
  /\ Stamp(t)
  /\ Goto(t, "touch")
  /\ UNCHANGED tables

\* UPDATE conversations SET last_message_at: waits for another sender's.
Touch(t) ==
  /\ pc[t] = "touch"
  /\ Writers(req[t].thread) = {}
  /\ Goto(t, "commitMessage")
  /\ UNCHANGED <<tables, clock, req>>

CommitMessage(t) ==
  LET c == req[t].thread IN
  /\ pc[t] = "commitMessage"
  /\ messages' = [messages EXCEPT ![c] = @ \cup {[from |-> req[t].side, at |-> req[t].at]}]
  /\ thread' = [thread EXCEPT ![c].lastAt = req[t].at]
  /\ Finish(t)
  /\ UNCHANGED <<block, clock>>

--------------------------------------------------------------------------------
(* markRead, block and unblock *)

\* read(): the thread as the participant is shown it.
BeginMarkRead(t, c, side) ==
  /\ Exists(c)
  /\ Arrive(t, "mark",
            [NoRequest EXCEPT !.thread = c, !.side = side,
                              !.seen = {m \in messages[c] : m.from = Other(side)}])

\* Mutant: everything up to the last activity is read.
MarkLastActivity(t) ==
  /\ pc[t] = "mark"
  /\ req' = [req EXCEPT ![t].at = thread[req[t].thread].lastAt]
  /\ Goto(t, "commitMark")
  /\ UNCHANGED <<tables, clock>>

\* The UPDATE begins and evaluates now().
Mark(t) ==
  /\ pc[t] = "mark"
  /\ Stamp(t)
  /\ Goto(t, "commitMark")
  /\ UNCHANGED tables

\* It reaches the row when no sender holds it, and commits.
CommitMark(t) ==
  /\ pc[t] = "commitMark"
  /\ Writers(req[t].thread) = {}
  /\ thread' = [thread EXCEPT ![req[t].thread].readAt[req[t].side] = req[t].at]
  /\ Finish(t)
  /\ UNCHANGED <<messages, block, clock>>

\* One INSERT ... ON CONFLICT DO NOTHING.
Block(c, side) ==
  /\ Exists(c)
  /\ arrived < MaxRequests
  /\ arrived' = arrived + 1
  /\ clock' = clock + 1
  /\ block' = [block EXCEPT ![c][side] = IF @ = 0 THEN clock + 1 ELSE @]
  /\ UNCHANGED <<thread, messages, pc, req>>

\* One DELETE of the caller's own block.
Unblock(c, side) ==
  /\ Exists(c)
  /\ arrived < MaxRequests
  /\ arrived' = arrived + 1
  /\ block' = [block EXCEPT ![c][side] = 0]
  /\ UNCHANGED <<thread, messages, clock, pc, req>>

--------------------------------------------------------------------------------

\* The process dies or the connection drops: the open transaction rolls back.
Rollback(t) == pc[t] # "idle" /\ Finish(t) /\ UNCHANGED <<tables, clock>>

Init ==
  /\ thread   = [c \in Threads |-> NoRow]
  /\ messages = [c \in Threads |-> {}]
  /\ block    = [c \in Threads |-> [s \in Sides |-> 0]]
  /\ clock    = 0
  /\ pc       = [t \in Txns |-> "idle"]
  /\ req      = [t \in Txns |-> NoRequest]

Next ==
  \/ \E t \in Txns :
       \/ \E pair \in Pairs : BeginOpen(t, pair)
       \/ \E c \in Threads, side \in Sides : BeginSend(t, c, side) \/ BeginMarkRead(t, c, side)
       \/ FindThread(t) \/ CreateThread(t)
       \/ AskInteraction(t) \/ InsertMessage(t) \/ Touch(t) \/ CommitMessage(t)
       \/ Mark(t) \/ CommitMark(t)
       \/ Rollback(t)
  \/ \E c \in Threads, side \in Sides : Block(c, side) \/ Unblock(c, side)

--------------------------------------------------------------------------------
(* Properties *)

\* Columns and request fields stay within their ranges.
TypeOK ==
  /\ linked \subseteq Pairs
  /\ thread \in [Threads -> Row]
  /\ messages \in [Threads -> SUBSET Message]
  /\ block \in [Threads -> [Sides -> Nat]]
  /\ clock \in Nat
  /\ pc \in [Txns -> {"idle", "find", "create", "askInteraction", "insertMessage",
                      "touch", "commitMessage", "mark", "commitMark"}]
  /\ req \in [Txns -> Request]
  /\ arrived \in Nat

\* Two people have one thread, however often and from whichever side it is opened.
OneThreadPerPair ==
  \A c, d \in Threads : (Exists(c) /\ thread[c].pair = thread[d].pair) => c = d

\* "A list cannot sort by an activity time the thread does not have": the time of
\* the last activity is the time of one of the thread's own messages, through
\* racing senders and senders that fail half way.
ActivityIsReal ==
  \A c \in Threads :
    IF messages[c] = {} THEN thread[c].lastAt = 0
    ELSE \E m \in messages[c] : m.at = thread[c].lastAt

\* A block makes the thread read-only for both sides: a message that reaches a
\* blocked thread had passed its gate before the block was set.
BlockStopsSends ==
  [][\A t \in Txns : CommitMessage(t) =>
       \A s \in Sides :
         block[req[t].thread][s] # 0 => block[req[t].thread][s] > req[t].gateAt]_vars

\* Marking a thread as read covers all that its reader was shown, messages of
\* transactions that overlapped each other included.
MarkCoversSeen ==
  [][\A t \in Txns : CommitMark(t) =>
       \A m \in req[t].seen : m.at <= thread'[req[t].thread].readAt[req[t].side]]_vars

\* Statements of a send, from the gate on.
SendPcs == {"askInteraction", "insertMessage", "touch", "commitMessage"}

\* What a request carries: a pair to open a thread for or a thread that is there, a gate
\* that no block is older than, and a time that covers what its reader was shown.
RequestOK(t) ==
  LET r == req[t] IN
  /\ pc[t] \in {"find", "create"} => r.pair \in Pairs
  /\ pc[t] \in SendPcs \cup {"mark", "commitMark"} => r.thread # Null /\ Exists(r.thread)
  /\ r.gateAt <= clock /\ r.at <= clock
  /\ pc[t] \in SendPcs =>
       \A s \in Sides : block[r.thread][s] # 0 => block[r.thread][s] > r.gateAt
  /\ pc[t] = "mark" => \A m \in r.seen : m.at <= clock
  /\ pc[t] = "commitMark" => \A m \in r.seen : m.at <= r.at

\* No message is from the future, and none is in a thread that is not there.
MessagesOK ==
  \A c \in Threads : messages[c] # {} => Exists(c) /\ \A m \in messages[c] : m.at <= clock

\* Inductive.
IInv ==
  /\ TypeOK /\ (\A t \in Txns : RequestOK(t)) /\ MessagesOK
  /\ OneThreadPerPair /\ ActivityIsReal

================================================================================
