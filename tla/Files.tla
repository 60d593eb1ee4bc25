---------------------------------- MODULE Files ----------------------------------
(***************************************************************************)
(* FilesService and AttachmentsService over TelegramFileClient: the files  *)
(* of one owner.  The bytes are a message in a Telegram chat, the row in   *)
(* stored_files says what exists (sections 4.5 and 5.4).                   *)
(*                                                                         *)
(* Nothing here is a transaction of more than one statement: an upload is  *)
(* a call to Telegram, an insert, a list and a delete per retired file,    *)
(* and each of them can be the last thing a process does.                  *)
(***************************************************************************)
EXTENDS Naturals, FiniteSets

CONSTANTS
  Ids,          \* ids the stored_files table may hand out
  Messages,     \* ids Telegram may give to a message
  Purposes,     \* file_purpose codes that are active
  Slots,        \* the purposes the candidate schema has an attachment slot for
  MaxCount,     \* Slots -> how many files a slot holds
  Txns,         \* requests in flight at once
  MaxRequests,  \* bound: requests that arrive in one behaviour
  Null

VARIABLES
  file,        \* stored_files: id -> row
  chat,        \* messages in the storage chat
  clock,       \* the next insert's created_at
  overfull,    \* purposes that an upload outside the slot rule, or an upload that
               \* did not get to retire, may have left over the limit
  removed,     \* files their owner has removed
  pc, req, arrived

vars == <<file, chat, clock, overfull, removed, pc, req, arrived>>

--------------------------------------------------------------------------------
(* Rows and requests *)

Row == [purpose : Purposes \cup {Null}, message : Messages \cup {Null},
        created : Nat, deleted : BOOLEAN]

NoRow == [purpose |-> Null, message |-> Null, created |-> 0, deleted |-> FALSE]

NoRequest == [purpose |-> Null, slotted |-> FALSE, message |-> Null, id |-> Null,
              created |-> 0, retire |-> {}]

Request == [purpose : Purposes \cup {Null}, slotted : BOOLEAN, message : Messages \cup {Null},
            id : Ids \cup {Null}, created : Nat,
            retire : SUBSET Ids]                     \* the files still to be retired

Exists(f) == file[f].purpose # Null

Live(f) == Exists(f) /\ ~file[f].deleted

LiveFiles == {f \in Ids : Live(f)}

--------------------------------------------------------------------------------
(* Control *)

Arrive(t, call, request) ==
  /\ pc[t] = "idle"
  /\ arrived < MaxRequests
  /\ pc' = [pc EXCEPT ![t] = call]
  /\ req' = [req EXCEPT ![t] = request]
  /\ arrived' = arrived + 1
  /\ UNCHANGED <<file, chat, clock, overfull, removed>>

Goto(t, next) == pc' = [pc EXCEPT ![t] = next] /\ UNCHANGED arrived

Finish(t) == Goto(t, "idle") /\ req' = [req EXCEPT ![t] = NoRequest]

Continue(t, next, request) == Goto(t, next) /\ req' = [req EXCEPT ![t] = request]

--------------------------------------------------------------------------------
(* store, and AttachmentsService.upload around it *)

\* The content is validated and the purpose resolved before anything is sent.
\* POST /files takes any purpose; POST attachments takes those with a slot.
BeginUpload(t, purpose, slotted) ==
  /\ slotted => purpose \in Slots
  /\ Arrive(t, "send", [NoRequest EXCEPT !.purpose = purpose, !.slotted = slotted])

\* sendDocument answers in time, or answers late or not at all: then the upload
\* fails and whatever arrived in the chat stays there.
Send(t) ==
  /\ pc[t] = "send"
  /\ \E m \in Messages \ chat :
       /\ \A f \in Ids : file[f].message # m
       /\ chat' = chat \cup {m}
       /\ \/ Continue(t, "insert", [req[t] EXCEPT !.message = m])
          \/ Finish(t)
  /\ UNCHANGED <<file, clock, overfull, removed>>

\* The INSERT takes its created_at when it starts ...
StartInsert(t) ==
  /\ pc[t] = "insert"
  /\ \E f \in Ids :
       /\ ~Exists(f) /\ \A u \in Txns : req[u].id # f
       /\ Continue(t, "publish", [req[t] EXCEPT !.id = f, !.created = clock])
  /\ clock' = clock + 1
  /\ UNCHANGED <<file, chat, overfull, removed>>

RowOf(r) == [purpose |-> r.purpose, message |-> r.message, created |-> r.created,
             deleted |-> FALSE]

\* ... and is seen by others when it commits, maybe after one that started later.
Publish(t) ==
  LET r == req[t] IN
  /\ pc[t] = "publish"
  /\ file' = [file EXCEPT ![r.id] = RowOf(r)]
  /\ \/ r.slotted /\ Continue(t, "list", r) /\ UNCHANGED overfull
     \/ ~r.slotted /\ Finish(t) /\ overfull' = overfull \cup {r.purpose}
  /\ UNCHANGED <<chat, clock, removed>>

\* Mutant: the oldest files are kept.
AheadReversed(f, files) == {g \in files : file[g].created < file[f].created}

\* What ORDER BY created_at DESC puts before f.
Ahead(f, files) == {g \in files : file[g].created > file[f].created}

Of(purpose) == {f \in LiveFiles : file[f].purpose = purpose}

\* slice(maxCount): the files that a slot's worth of newer ones is before.
Beyond(purpose) ==
  {f \in Of(purpose) : Cardinality(Ahead(f, Of(purpose))) >= MaxCount[purpose]}

\* superseded lists them ...
ListSlot(t) ==
  LET r    == req[t]
      over == Beyond(r.purpose)
  IN /\ pc[t] = "list"
     /\ \/ over = {} /\ Finish(t)
        \/ over # {} /\ Continue(t, "retire", [r EXCEPT !.retire = over])
     /\ UNCHANGED <<file, chat, clock, overfull, removed>>

--------------------------------------------------------------------------------
(* softDelete *)

SoftDelete(f) == file' = [file EXCEPT ![f].deleted = TRUE]

\* ... and takes them one by one, newest first: the next one goes, or it is gone
\* already, or the database fails and the error is only logged.
Retire(t) ==
  /\ pc[t] = "retire"
  /\ \E f \in req[t].retire :
       LET rest == [req[t] EXCEPT !.retire = @ \ {f}] IN
       /\ Ahead(f, req[t].retire) = {}
       /\ \/ /\ Live(f) /\ SoftDelete(f)
             /\ Continue(t, "erase", [rest EXCEPT !.message = file[f].message])
             /\ UNCHANGED overfull
          \/ /\ UNCHANGED file
             /\ overfull' = IF Live(f) THEN overfull \cup {rest.purpose} ELSE overfull
             /\ IF rest.retire = {} THEN Finish(t) ELSE Continue(t, "retire", rest)
  /\ UNCHANGED <<chat, clock, removed>>

\* DELETE of a file by its owner: not found if it is gone.
RemoveFile(t, f) ==
  /\ Live(f) /\ SoftDelete(f)
  /\ pc[t] = "idle" /\ arrived < MaxRequests
  /\ pc' = [pc EXCEPT ![t] = "erase"]
  /\ req' = [req EXCEPT ![t] = [NoRequest EXCEPT !.message = file[f].message]]
  /\ removed' = removed \cup {f}
  /\ arrived' = arrived + 1
  /\ UNCHANGED <<chat, clock, overfull>>

\* deleteMessage, best effort: a refusal by Telegram is no error.
Erase(t) ==
  LET r == req[t] IN
  /\ pc[t] = "erase"
  /\ \/ chat' = chat \ {r.message}
     \/ UNCHANGED chat
  /\ IF r.retire = {} THEN Finish(t) ELSE Continue(t, "retire", r)
  /\ UNCHANGED <<file, clock, overfull, removed>>

--------------------------------------------------------------------------------
(* read *)

\* The row decides who may read; the bytes are fetched afterwards.
BeginRead(t, f) ==
  /\ Live(f)
  /\ Arrive(t, "download", [NoRequest EXCEPT !.id = f, !.message = file[f].message])

\* A message that is gone meanwhile is an upstream error.
Download(t) ==
  /\ pc[t] = "download"
  /\ Finish(t)
  /\ UNCHANGED <<file, chat, clock, overfull, removed>>

--------------------------------------------------------------------------------

\* The process dies: nothing is rolled back but the statement under way.
Die(t) ==
  /\ pc[t] # "idle"
  /\ overfull' = IF pc[t] \in {"list", "retire", "erase"} /\ req[t].purpose # Null
                 THEN overfull \cup {req[t].purpose} ELSE overfull
  /\ Finish(t)
  /\ UNCHANGED <<file, chat, clock, removed>>

\* No file yet, or one that was uploaded before.
Init ==
  /\ \/ file = [f \in Ids |-> NoRow] /\ chat = {}
     \/ \E f \in Ids, m \in Messages, p \in Purposes :
          /\ chat = {m}
          /\ file = [g \in Ids |-> IF g = f THEN [purpose |-> p, message |-> m, created |-> 1,
                                               deleted |-> FALSE] ELSE NoRow]
  /\ clock = 2
  /\ overfull = {}
  /\ removed = {}
  /\ pc = [t \in Txns |-> "idle"]
  /\ req = [t \in Txns |-> NoRequest]

Uploading(t) ==
  \/ \E p \in Purposes, slotted \in BOOLEAN : BeginUpload(t, p, slotted)
  \/ Send(t) \/ StartInsert(t) \/ Publish(t) \/ ListSlot(t) \/ Retire(t)

Using(t) ==
  \/ \E f \in Ids : RemoveFile(t, f) \/ BeginRead(t, f)
  \/ Erase(t) \/ Download(t)

Next == \E t \in Txns : Uploading(t) \/ Using(t) \/ Die(t)

--------------------------------------------------------------------------------
(* Properties *)

\* Columns and request fields stay within their ranges.
TypeOK ==
  /\ file \in [Ids -> Row]
  /\ chat \subseteq Messages
  /\ clock \in Nat
  /\ overfull \subseteq Purposes /\ removed \subseteq Ids
  /\ pc \in [Txns -> {"idle", "send", "insert", "publish", "list", "retire", "erase",
                       "download"}]
  /\ req \in [Txns -> Request]

\* Telegram first, database second, and the other way round on the way out: a row
\* that can be read has its message, and no two rows share one.
LiveHasMessage ==
  /\ \A f \in LiveFiles : file[f].message \in chat
  /\ \A f, g \in Ids : f # g /\ Exists(f) /\ Exists(g) => file[f].message # file[g].message

Newer(f) == {g \in Ids : file[g].purpose = file[f].purpose /\ file[g].created > file[f].created}

\* An upload retires a file only for enough newer ones: whatever fails or races,
\* it never leaves a candidate without the CV that was there before.
OutnumberedOnly ==
  \A f \in Ids : file[f].deleted /\ f \notin removed =>
    /\ file[f].purpose \in Slots
    /\ Cardinality(Newer(f)) >= MaxCount[file[f].purpose]

\* maxCount: when no upload is under way, a slot holds no more than it may, unless
\* an upload died or was made outside the slot.
SlotHolds ==
  (\A t \in Txns : pc[t] \notin {"list", "retire", "erase"}) =>
    \A p \in Slots \ overfull : Cardinality(Of(p)) <= MaxCount[p]

\* A row is a file's for good, and no two have one time of creation.
RowsOK ==
  /\ \A f \in Ids : IF Exists(f) THEN file[f].message # Null /\ file[f].created < clock
                    ELSE file[f] = NoRow
  /\ \A f, g \in Ids : f # g /\ Exists(f) /\ Exists(g) => file[f].created # file[g].created

\* Requests that have sent their bytes and have no row yet.
Sent == {"insert", "publish"}

\* What a request carries: a message of its own, a row that nobody else is about to
\* write, the message of a file that is gone, and files of its slot that newer ones
\* outnumber.
RequestOK(t) ==
  LET r == req[t] IN
  /\ pc[t] \in Sent \cup {"send"} => r.purpose # Null
  /\ pc[t] \in Sent \cup {"send", "list", "retire"} => (r.slotted => r.purpose \in Slots)
  /\ pc[t] \in {"list", "retire"} => r.slotted
  /\ pc[t] \in Sent =>
       /\ r.message \in chat
       /\ \A f \in Ids : file[f].message # r.message
  /\ pc[t] = "publish" => /\ r.id # Null /\ ~Exists(r.id) /\ r.created < clock
                          /\ \A f \in Ids : Exists(f) => file[f].created # r.created
  /\ pc[t] = "erase" => \E f \in Ids : file[f].deleted /\ file[f].message = r.message
  /\ r.retire # {} => pc[t] \in {"retire", "erase"} /\ r.slotted /\ r.purpose \in Slots
  /\ \A f \in r.retire : /\ file[f].purpose = r.purpose
                         /\ Cardinality(Newer(f)) >= MaxCount[r.purpose]

UploadsApart ==
  \A t, u \in Txns : t # u =>
    /\ pc[t] \in Sent /\ pc[u] \in Sent => req[t].message # req[u].message
    /\ pc[t] = "publish" /\ pc[u] = "publish" =>
         req[t].id # req[u].id /\ req[t].created # req[u].created

\* Whoever is to retire file f, once it is beyond its slot's number.
Covers(t, f) ==
  \/ pc[t] = "list" /\ req[t].purpose = file[f].purpose
  \/ f \in req[t].retire

ExcessIsCovered ==
  \A p \in Slots \ overfull : \A f \in Beyond(p) : \E t \in Txns : Covers(t, f)

\* Inductive.
IInv ==
  /\ TypeOK /\ RowsOK /\ (\A t \in Txns : RequestOK(t)) /\ UploadsApart
  /\ LiveHasMessage /\ OutnumberedOnly /\ ExcessIsCovered

================================================================================
