----------------------------- MODULE RecordsProofs ------------------------------
(***************************************************************************)
(* Proofs about Records for every number of files, messages, submissions   *)
(* and requests: the files of an account, whatever the verification does;  *)
(* the verification over files that come and go; the two together.         *)
(***************************************************************************)
EXTENDS Records, FiniteSetTheorems, WellFoundedInduction, TLAPS

--------------------------------------------------------------------------------
(* Finite sets and numbers *)

LEMMA FileCard == \A S : File!Cardinality(S) = Cardinality(S)
  BY DEF File!Cardinality, Cardinality

LEMMA EmployerCard == \A S : Employer!Cardinality(S) = Cardinality(S)
  BY DEF Employer!Cardinality, Cardinality

\* Sets of ids are finite, and counting them is monotonic.
LEMMA IdsCount ==
  ASSUME NEW S, NEW T, S \subseteq T, T \subseteq Ids
  PROVE  /\ IsFiniteSet(S) /\ IsFiniteSet(T)
         /\ Cardinality(S) \in Nat /\ Cardinality(T) \in Nat
         /\ Cardinality(S) <= Cardinality(T)
  <1>1. IsFiniteSet(T)
    BY IdsAssumption, FS_Subset
  <1>2. IsFiniteSet(S) /\ Cardinality(S) <= Cardinality(T)
    BY <1>1, FS_Subset
  <1>3. QED
    BY <1>1, <1>2, FS_CardinalityType

Less == {pair \in Nat \X Nat : pair[1] < pair[2]}

\* A set of numbers has a least one.
LEMMA LeastNumber ==
  ASSUME NEW T, T \subseteq Nat, T # {}
  PROVE  \E x \in T : \A y \in T : x <= y
  <1>1. IsWellFoundedOn(Less, Nat)
    BY NatLessThanWellFounded DEF OpToRel, Less
  <1>2. \E x \in T : \A y \in T : ~(<<y, x>> \in Less)
    BY <1>1, WFMin
  <1>3. \A x, y \in Nat : y < x => <<y, x>> \in Less
    BY DEF Less
  <1>4. \A x, y \in Nat : ~(y < x) => x <= y
    OBVIOUS
  <1>5. QED
    BY <1>2, <1>3, <1>4

--------------------------------------------------------------------------------
(* Files: what stays *)

\* A row keeps what it was inserted with, and a deleted file stays deleted.
FilesStay ==
  \A f \in Ids : File!Exists(f) =>
    /\ file'[f].purpose = file[f].purpose
    /\ file'[f].message = file[f].message
    /\ file'[f].created = file[f].created
    /\ file[f].deleted => file'[f].deleted

LEMMA FileTypes ==
  ASSUME File!TypeOK
  PROVE  /\ \A f \in Ids : /\ file[f] \in File!Row
                           /\ file[f].purpose \in Purposes \cup {Null}
                           /\ file[f].message \in Messages \cup {Null}
                           /\ file[f].created \in Nat
                           /\ file[f].deleted \in BOOLEAN
         /\ \A t \in Txns : /\ fileReq[t] \in File!Request
                            /\ fileReq[t].purpose \in Purposes \cup {Null}
                            /\ fileReq[t].slotted \in BOOLEAN
                            /\ fileReq[t].message \in Messages \cup {Null}
                            /\ fileReq[t].id \in Ids \cup {Null}
                            /\ fileReq[t].created \in Nat
                            /\ fileReq[t].retire \subseteq Ids
         /\ clock \in Nat
  <1>1. \A f \in Ids : file[f] \in File!Row
    BY DEF File!TypeOK
  <1>2. \A t \in Txns : fileReq[t] \in File!Request
    BY DEF File!TypeOK
  <1>3. QED
    BY <1>1, <1>2 DEF File!TypeOK, File!Row, File!Request

LEMMA NewerGrows ==
  ASSUME FilesStay, NEW f \in Ids, File!Exists(f)
  PROVE  /\ File!Cardinality(File!Newer(f)) \in Nat
         /\ File!Cardinality(File!Newer(f)') \in Nat
         /\ File!Cardinality(File!Newer(f)) <= File!Cardinality(File!Newer(f)')
  <1>1. File!Newer(f) \subseteq File!Newer(f)' /\ File!Newer(f)' \subseteq Ids
    BY DEF FilesStay, File!Newer, File!Exists
  <1>2. QED
    BY <1>1, IdsCount, FileCard

\* A request that takes no step keeps what it carries.
LEMMA FileOthers ==
  ASSUME File!TypeOK, File!RowsOK, FilesStay, NEW u \in Txns, File!RequestOK(u),
         filePc'[u] = filePc[u], fileReq'[u] = fileReq[u],
         clock' \in Nat, clock <= clock',
         \A f \in Ids : ~File!Exists(f) /\ File!Exists(f)' =>
           /\ filePc[u] \in File!Sent => file'[f].message # fileReq[u].message
           /\ filePc[u] = "publish" => f # fileReq[u].id /\ file'[f].created # fileReq[u].created,
         \A f \in Ids : ~File!Exists(f) /\ ~File!Exists(f)' => file'[f] = file[f],
         filePc[u] \in File!Sent => fileReq[u].message \in chat'
  PROVE  File!RequestOK(u)'
  <1> DEFINE r == fileReq[u]
  <1>1. /\ r.created \in Nat /\ r.retire \subseteq Ids /\ r.id \in Ids \cup {Null}
        /\ clock \in Nat
    BY FileTypes
  <1>2. filePc[u] \in File!Sent => \A f \in Ids : file'[f].message # r.message
    BY DEF FilesStay, File!RequestOK
  <1>3. filePc[u] = "publish" =>
          /\ r.id # Null /\ ~File!Exists(r.id)' /\ r.created < clock'
          /\ \A f \in Ids : File!Exists(f)' => file'[f].created # r.created
    BY <1>1 DEF FilesStay, File!RequestOK, File!Exists
  <1>4. filePc[u] = "erase" => \E f \in Ids : file'[f].deleted /\ file'[f].message = r.message
    <2>1. \A f \in Ids : file[f].deleted => File!Exists(f)
      BY DEF File!RowsOK, File!NoRow
    <2>2. QED
      BY <2>1 DEF FilesStay, File!RequestOK
  <1>5. \A f \in r.retire : /\ file'[f].purpose = r.purpose
                            /\ File!Cardinality(File!Newer(f)') >= MaxCount[r.purpose]
    <2> SUFFICES ASSUME NEW f \in r.retire
                 PROVE  /\ file'[f].purpose = r.purpose
                        /\ File!Cardinality(File!Newer(f)') >= MaxCount[r.purpose]
      OBVIOUS
    <2>1. /\ f \in Ids /\ r.purpose \in Slots /\ file[f].purpose = r.purpose
          /\ File!Cardinality(File!Newer(f)) >= MaxCount[r.purpose]
      BY <1>1 DEF File!RequestOK
    <2>2. File!Exists(f) /\ MaxCount[r.purpose] \in Nat
      BY <2>1, SlotsAssumption, NullAssumption DEF File!Exists
    <2>3. /\ File!Cardinality(File!Newer(f)) \in Nat
          /\ File!Cardinality(File!Newer(f)') \in Nat
          /\ File!Cardinality(File!Newer(f)) <= File!Cardinality(File!Newer(f)')
      BY <2>1, <2>2, NewerGrows
    <2>4. QED
      BY <2>1, <2>2, <2>3 DEF FilesStay
  <1>6. QED
    BY <1>2, <1>3, <1>4, <1>5 DEF File!RequestOK

\* Files that are gone do not put others beyond the slot's number.
LEMMA BeyondShrinks ==
  ASSUME NEW p \in Slots,
         \A f \in Ids : /\ file'[f].purpose = file[f].purpose
                        /\ file'[f].created = file[f].created
                        /\ File!Live(f)' => File!Live(f)
  PROVE  File!Beyond(p)' \subseteq File!Beyond(p)
  <1> SUFFICES ASSUME NEW f \in File!Beyond(p)' PROVE f \in File!Beyond(p)
    OBVIOUS
  <1>1. /\ f \in File!Of(p)'
        /\ File!Cardinality(File!Ahead(f, File!Of(p))') >= MaxCount[p]
    BY DEF File!Beyond
  <1>2. File!Of(p)' \subseteq File!Of(p) /\ File!Of(p) \subseteq Ids
    BY DEF File!Of, File!LiveFiles
  <1>3. /\ File!Ahead(f, File!Of(p))' \subseteq File!Ahead(f, File!Of(p))
        /\ File!Ahead(f, File!Of(p)) \subseteq Ids
    BY <1>1, <1>2 DEF File!Ahead
  <1>4. /\ File!Cardinality(File!Ahead(f, File!Of(p))') \in Nat
        /\ File!Cardinality(File!Ahead(f, File!Of(p))) \in Nat
        /\ File!Cardinality(File!Ahead(f, File!Of(p))')
             <= File!Cardinality(File!Ahead(f, File!Of(p)))
    BY <1>3, IdsCount, FileCard
  <1>5. MaxCount[p] \in Nat
    BY SlotsAssumption
  <1>6. QED
    BY <1>1, <1>2, <1>4, <1>5 DEF File!Beyond

\* The excess stays covered if the request that moves passes on, or leaves over the
\* limit, what it alone had been to retire.
LEMMA ExcessStays ==
  ASSUME File!ExcessIsCovered, FilesStay, NEW t \in Txns, overfull \subseteq overfull',
         \A u \in Txns : u # t => filePc'[u] = filePc[u] /\ fileReq'[u] = fileReq[u],
         \A p \in Slots \ overfull' : \A f \in File!Beyond(p)' :
           \/ File!Covers(t, f)'
           \/ f \in File!Beyond(p) /\ ~File!Covers(t, f)
  PROVE  File!ExcessIsCovered'
  <1> SUFFICES ASSUME NEW p \in Slots \ overfull', NEW f \in File!Beyond(p)',
                      ~File!Covers(t, f)'
               PROVE  \E u \in Txns : File!Covers(u, f)'
    BY DEF File!ExcessIsCovered
  <1>1. f \in File!Beyond(p) /\ ~File!Covers(t, f)
    OBVIOUS
  <1>2. PICK u \in Txns : File!Covers(u, f)
    BY <1>1 DEF File!ExcessIsCovered
  <1>3. f \in Ids /\ File!Exists(f)
    BY <1>1 DEF File!Beyond, File!Of, File!LiveFiles, File!Live
  <1>4. QED
    BY <1>1, <1>2, <1>3 DEF File!Covers, FilesStay


\* Of more files than the slot holds, the oldest is beyond its number.
LEMMA OldestIsBeyond ==
  ASSUME File!TypeOK, File!RowsOK, NEW p \in Slots,
         ~(File!Cardinality(File!Of(p)) <= MaxCount[p])
  PROVE  \E f \in Ids : f \in File!Beyond(p)
  <1> DEFINE S == File!Of(p)
             T == {file[f].created : f \in S}
  <1>1. S \subseteq Ids /\ T \subseteq Nat
    BY FileTypes DEF File!Of, File!LiveFiles
  <1>2. IsFiniteSet(S) /\ Cardinality(S) \in Nat /\ MaxCount[p] \in Nat \ {0}
    BY <1>1, IdsCount, SlotsAssumption
  <1>3. Cardinality(S) > MaxCount[p]
    BY <1>2, FileCard
  <1>4. S # {}
    BY <1>2, <1>3, FS_EmptySet
  <1>5. PICK f \in S : \A g \in S : file[f].created <= file[g].created
    <2>1. T # {}
      BY <1>4
    <2>2. PICK x \in T : \A y \in T : x <= y
      BY <1>1, <2>1, LeastNumber
    <2>3. QED
      BY <2>2
  <1>6. \A g \in S : g # f => file[g].created > file[f].created
    <2> SUFFICES ASSUME NEW g \in S, g # f PROVE file[g].created > file[f].created
      OBVIOUS
    <2>1. file[f].created <= file[g].created
      BY <1>5
    <2>2. file[f].created \in Nat /\ file[g].created \in Nat
      BY <1>1
    <2>3. file[f].created # file[g].created
      BY DEF File!RowsOK, File!Of, File!LiveFiles, File!Live
    <2>4. QED
      BY <2>1, <2>2, <2>3
  <1>7. File!Ahead(f, S) = S \ {f}
    <2>1. file[f].created \in Nat
      BY <1>1
    <2>2. QED
      BY <1>6, <2>1 DEF File!Ahead
  <1>8. Cardinality(S \ {f}) = Cardinality(S) - 1
    BY <1>2, FS_RemoveElement
  <1>9. File!Cardinality(File!Ahead(f, S)) >= MaxCount[p]
    BY <1>2, <1>3, <1>7, <1>8, FileCard
  <1>10. QED
    BY <1>1, <1>9 DEF File!Beyond

LEMMA SlotsHold == File!IInv => File!SlotHolds
  <1> SUFFICES ASSUME File!IInv, \A t \in Txns : filePc[t] \notin {"list", "retire", "erase"},
                      NEW p \in Slots \ overfull
               PROVE  File!Cardinality(File!Of(p)) <= MaxCount[p]
    BY DEF File!SlotHolds
  <1>1. \A t \in Txns : fileReq[t].retire = {}
    BY DEF File!IInv, File!RequestOK
  <1>2. ~(\E f \in Ids : f \in File!Beyond(p))
    BY <1>1 DEF File!IInv, File!ExcessIsCovered, File!Covers
  <1>3. QED
    BY <1>2, OldestIsBeyond DEF File!IInv

--------------------------------------------------------------------------------
(* Files: the steps *)

FilePcs == {"idle", "send", "insert", "publish", "list", "retire", "erase", "download"}

\* A step of one request that changes no row.
LEMMA FilePlain ==
  ASSUME File!IInv, NEW t \in Txns, NEW p \in FilePcs, NEW r \in File!Request,
         filePc' = [filePc EXCEPT ![t] = p], fileReq' = [fileReq EXCEPT ![t] = r],
         UNCHANGED <<file, removed>>,
         chat' \subseteq Messages, clock' \in Nat, clock <= clock',
         overfull \subseteq overfull', overfull' \subseteq Purposes,
         File!RequestOK(t)',
         \A f \in File!LiveFiles : file[f].message \in chat',
         \A u \in Txns : u # t =>
           /\ filePc[u] \in File!Sent =>
                /\ fileReq[u].message \in chat'
                /\ p \in File!Sent => r.message # fileReq[u].message
           /\ filePc[u] = "publish" /\ p = "publish" =>
                r.id # fileReq[u].id /\ r.created # fileReq[u].created,
         \A q \in Slots \ overfull' : \A f \in File!Beyond(q) :
           File!Covers(t, f) => (p = "list" /\ r.purpose = q) \/ f \in r.retire
  PROVE  File!IInv'
  <1>1. File!TypeOK /\ File!RowsOK /\ (\A u \in Txns : File!RequestOK(u))
    BY DEF File!IInv
  <1>2. /\ filePc'[t] = p /\ fileReq'[t] = r
        /\ \A u \in Txns : u # t => filePc'[u] = filePc[u] /\ fileReq'[u] = fileReq[u]
    BY <1>1 DEF File!TypeOK
  <1>3. File!TypeOK'
    BY <1>1 DEF File!TypeOK, FilePcs
  <1>4. FilesStay
    BY DEF FilesStay
  <1>5. File!RowsOK'
    <2>1. clock \in Nat /\ \A f \in Ids : file[f].created \in Nat
      BY <1>1, FileTypes
    <2>2. QED
      BY <1>1, <2>1 DEF File!RowsOK, File!Exists
  <1>6. ASSUME NEW u \in Txns PROVE File!RequestOK(u)'
    <2>1. CASE u = t
      BY <2>1
    <2>2. CASE u # t
      <3>1. \A f \in Ids : File!Exists(f)' <=> File!Exists(f)
        BY DEF File!Exists
      <3>2. QED
        BY <1>1, <1>2, <1>4, <2>2, <3>1, FileOthers
    <2>3. QED
      BY <2>1, <2>2
  <1>7. File!UploadsApart'
    BY <1>2 DEF File!IInv, File!UploadsApart, File!Sent
  <1>8. File!LiveHasMessage' /\ File!OutnumberedOnly'
    BY DEF File!IInv, File!LiveHasMessage, File!OutnumberedOnly, File!LiveFiles, File!Live,
           File!Exists, File!Newer
  <1>9. File!ExcessIsCovered'
    <2>1. ASSUME NEW q \in Slots \ overfull', NEW f \in File!Beyond(q)'
          PROVE  \/ File!Covers(t, f)'
                 \/ f \in File!Beyond(q) /\ ~File!Covers(t, f)
      <3>1. f \in File!Beyond(q) /\ file'[f].purpose = q
        BY DEF File!Beyond, File!Of, File!Ahead, File!LiveFiles, File!Live, File!Exists
      <3>2. QED
        BY <1>2, <3>1 DEF File!Covers
    <2>2. QED
      BY <1>2, <1>4, <2>1, ExcessStays DEF File!IInv
  <1>10. QED
    BY <1>3, <1>5, <1>6, <1>7, <1>8, <1>9 DEF File!IInv

LEMMA FileNoRequest ==
  /\ File!NoRequest \in File!Request /\ File!NoRequest.retire = {}
  /\ File!NoRequest.purpose = Null
  BY DEF File!NoRequest, File!Request

\* A request that has nothing to retire has nothing to cover.
LEMMA FileCoversNothing ==
  ASSUME NEW t \in Txns, File!RequestOK(t), filePc[t] \notin {"list", "retire", "erase"}
  PROVE  \A f \in Ids : ~File!Covers(t, f)
  BY DEF File!Covers, File!RequestOK

\* The end of a request, with nothing left to cover.
LEMMA FileFinish ==
  ASSUME File!IInv, NEW t \in Txns, File!Finish(t), UNCHANGED <<file, removed, clock>>,
         chat' \subseteq Messages,
         overfull \subseteq overfull', overfull' \subseteq Purposes,
         \A f \in File!LiveFiles : file[f].message \in chat',
         \A u \in Txns : u # t /\ filePc[u] \in File!Sent => fileReq[u].message \in chat',
         \A q \in Slots \ overfull' : \A f \in File!Beyond(q) : ~File!Covers(t, f)
  PROVE  File!IInv'
  <1> DEFINE r == File!NoRequest
  <1>1. /\ filePc' = [filePc EXCEPT ![t] = "idle"] /\ fileReq' = [fileReq EXCEPT ![t] = r]
        /\ r \in File!Request /\ r.retire = {} /\ "idle" \in FilePcs
        /\ "idle" \notin File!Sent
    BY FileNoRequest DEF File!Finish, File!Goto, FilePcs, File!Sent
  <1>2. clock \in Nat /\ filePc'[t] = "idle" /\ fileReq'[t] = r
    BY <1>1 DEF File!IInv, File!TypeOK
  <1> HIDE DEF r
  <1>3. File!RequestOK(t)'
    BY <1>1, <1>2 DEF File!RequestOK, File!Sent
  <1>4. clock' \in Nat /\ clock <= clock'
    BY <1>2
  <1>5. \A u \in Txns : u # t =>
          /\ filePc[u] \in File!Sent =>
               /\ fileReq[u].message \in chat'
               /\ "idle" \in File!Sent => r.message # fileReq[u].message
          /\ filePc[u] = "publish" /\ "idle" = "publish" =>
               r.id # fileReq[u].id /\ r.created # fileReq[u].created
    BY <1>1
  <1>6. \A q \in Slots \ overfull' : \A f \in File!Beyond(q) :
          File!Covers(t, f) => ("idle" = "list" /\ r.purpose = q) \/ f \in r.retire
    OBVIOUS
  <1>7. QED
    BY <1>1, <1>3, <1>4, <1>5, <1>6, FilePlain

\* What is in the chat for somebody, while the chat stays.
LEMMA FileChatKept ==
  ASSUME File!IInv
  PROVE  /\ chat \subseteq Messages /\ clock \in Nat /\ overfull \subseteq Purposes
         /\ \A f \in File!LiveFiles : file[f].message \in chat
         /\ \A u \in Txns : filePc[u] \in File!Sent => fileReq[u].message \in chat
         /\ \A q \in Slots : \A f \in File!Beyond(q) : f \in Ids /\ file[f].purpose = q
  BY DEF File!IInv, File!TypeOK, File!LiveHasMessage, File!RequestOK, File!Beyond,
         File!Of, File!LiveFiles

\* A request goes on to a statement before or after the message and the row.
LEMMA FileQuiet ==
  ASSUME File!IInv, NEW t \in Txns, NEW p \in FilePcs, p \notin File!Sent,
         NEW r \in File!Request,
         filePc' = [filePc EXCEPT ![t] = p], fileReq' = [fileReq EXCEPT ![t] = r],
         UNCHANGED <<file, removed, clock>>, chat' \subseteq Messages,
         overfull \subseteq overfull', overfull' \subseteq Purposes,
         File!RequestOK(t)',
         \A f \in File!LiveFiles : file[f].message \in chat',
         \A u \in Txns : u # t /\ filePc[u] \in File!Sent => fileReq[u].message \in chat',
         \A q \in Slots \ overfull' : \A f \in File!Beyond(q) :
           File!Covers(t, f) => (p = "list" /\ r.purpose = q) \/ f \in r.retire
  PROVE  File!IInv'
  <1>1. clock' \in Nat /\ clock <= clock'
    BY FileChatKept
  <1>2. \A u \in Txns : u # t =>
          /\ filePc[u] \in File!Sent =>
               /\ fileReq[u].message \in chat'
               /\ p \in File!Sent => r.message # fileReq[u].message
          /\ filePc[u] = "publish" /\ p = "publish" =>
               r.id # fileReq[u].id /\ r.created # fileReq[u].created
    BY DEF File!Sent
  <1>3. UNCHANGED <<file, removed>>
    OBVIOUS
  <1>4. QED
    BY <1>1, <1>2, <1>3, FilePlain

\* A request arrives: an upload, or the read of a live file.
LEMMA FileArrive ==
  ASSUME File!IInv, NEW t \in Txns, NEW p \in {"send", "download"},
         NEW r \in File!Request, File!Arrive(t, p, r), r.retire = {},
         p = "send" => r.purpose # Null /\ (r.slotted => r.purpose \in Slots)
  PROVE  File!IInv'
  <1>1. /\ filePc' = [filePc EXCEPT ![t] = p] /\ fileReq' = [fileReq EXCEPT ![t] = r]
        /\ UNCHANGED <<file, chat, clock, overfull, removed>> /\ filePc[t] = "idle"
    BY DEF File!Arrive
  <1>2. filePc'[t] = p /\ fileReq'[t] = r /\ p \in FilePcs /\ p \notin File!Sent
    BY <1>1 DEF File!IInv, File!TypeOK, FilePcs, File!Sent
  <1>3. File!RequestOK(t)'
    BY <1>2 DEF File!RequestOK, File!Sent
  <1>4. \A f \in Ids : ~File!Covers(t, f)
    BY <1>1, FileCoversNothing DEF File!IInv
  <1>5. \A q \in Slots \ overfull' : \A f \in File!Beyond(q) :
          File!Covers(t, f) => (p = "list" /\ r.purpose = q) \/ f \in r.retire
    BY <1>4, FileChatKept
  <1>6. /\ UNCHANGED <<file, removed, clock>> /\ chat' \subseteq Messages
        /\ overfull \subseteq overfull' /\ overfull' \subseteq Purposes
        /\ \A f \in File!LiveFiles : file[f].message \in chat'
        /\ \A u \in Txns : u # t /\ filePc[u] \in File!Sent => fileReq[u].message \in chat'
    BY <1>1, FileChatKept
  <1>7. QED
    BY <1>1, <1>2, <1>3, <1>5, <1>6, FileQuiet

LEMMA FileBegins ==
  ASSUME File!IInv, NEW t \in Txns,
         \/ \E p \in Purposes, slotted \in BOOLEAN : File!BeginUpload(t, p, slotted)
         \/ \E f \in Ids : File!BeginRead(t, f)
  PROVE  File!IInv'
  <1>1. ASSUME NEW p \in Purposes, NEW slotted \in BOOLEAN, File!BeginUpload(t, p, slotted)
        PROVE  File!IInv'
    <2> DEFINE r == [File!NoRequest EXCEPT !.purpose = p, !.slotted = slotted]
    <2>1. /\ r \in File!Request /\ r.retire = {} /\ r.purpose = p /\ r.slotted = slotted
      BY DEF File!NoRequest, File!Request
    <2>2. File!Arrive(t, "send", r) /\ (slotted => p \in Slots) /\ p # Null
      BY <1>1, NullAssumption DEF File!BeginUpload
    <2> HIDE DEF r
    <2>3. QED
      BY <2>1, <2>2, FileArrive
  <1>2. ASSUME NEW f \in Ids, File!BeginRead(t, f) PROVE File!IInv'
    <2> DEFINE r == [File!NoRequest EXCEPT !.id = f, !.message = file[f].message]
    <2>1. /\ r \in File!Request /\ r.retire = {}
      BY FileTypes DEF File!IInv, File!NoRequest, File!Request
    <2>2. File!Arrive(t, "download", r)
      BY <1>2 DEF File!BeginRead
    <2> HIDE DEF r
    <2>3. QED
      BY <2>1, <2>2, FileArrive
  <1>3. QED
    BY <1>1, <1>2

\* A message that arrives in the chat is nobody's yet.
LEMMA FileSend ==
  ASSUME File!IInv, NEW t \in Txns, File!Send(t)
  PROVE  File!IInv'
  <1>1. PICK m \in Messages \ chat :
          /\ \A f \in Ids : file[f].message # m
          /\ chat' = chat \cup {m}
          /\ \/ File!Continue(t, "insert", [fileReq[t] EXCEPT !.message = m])
             \/ File!Finish(t)
    BY DEF File!Send
  <1>2. /\ filePc[t] = "send" /\ UNCHANGED <<file, clock, overfull, removed>>
        /\ File!RequestOK(t) /\ File!TypeOK
    BY DEF File!Send, File!IInv
  <1>3. \A f \in Ids : ~File!Covers(t, f)
    BY <1>2, FileCoversNothing
  <1>4. /\ chat' \subseteq Messages
        /\ \A f \in File!LiveFiles : file[f].message \in chat'
        /\ \A u \in Txns : filePc[u] \in File!Sent =>
             fileReq[u].message \in chat' /\ fileReq[u].message # m
    BY <1>1, FileChatKept
  <1>5. CASE File!Finish(t)
    BY <1>2, <1>3, <1>4, <1>5, FileChatKept, FileFinish
  <1>6. CASE ~File!Finish(t)
    <2> DEFINE r == [fileReq[t] EXCEPT !.message = m]
    <2>1. /\ filePc' = [filePc EXCEPT ![t] = "insert"] /\ fileReq' = [fileReq EXCEPT ![t] = r]
      BY <1>1, <1>6 DEF File!Continue, File!Goto
    <2>2. /\ r \in File!Request /\ r.message = m /\ r.retire = fileReq[t].retire
          /\ r.purpose = fileReq[t].purpose /\ r.slotted = fileReq[t].slotted
      BY <1>2, FileTypes DEF File!Request
    <2>3. filePc'[t] = "insert" /\ fileReq'[t] = r /\ "insert" \in FilePcs
      BY <1>2, <2>1 DEF File!TypeOK, FilePcs
    <2> HIDE DEF r
    <2>4. File!RequestOK(t)'
      BY <1>1, <1>2, <2>2, <2>3 DEF File!RequestOK, File!Sent
    <2>5. \A u \in Txns : u # t =>
            /\ filePc[u] \in File!Sent =>
                 /\ fileReq[u].message \in chat'
                 /\ "insert" \in File!Sent => r.message # fileReq[u].message
            /\ filePc[u] = "publish" /\ "insert" = "publish" =>
                 r.id # fileReq[u].id /\ r.created # fileReq[u].created
      BY <1>4, <2>2
    <2>6. \A q \in Slots \ overfull' : \A f \in File!Beyond(q) :
            File!Covers(t, f) => ("insert" = "list" /\ r.purpose = q) \/ f \in r.retire
      BY <1>3, FileChatKept
    <2>7. /\ UNCHANGED <<file, removed>> /\ clock' \in Nat /\ clock <= clock'
          /\ overfull \subseteq overfull' /\ overfull' \subseteq Purposes
      BY <1>2, FileChatKept
    <2>8. QED
      BY <1>4, <2>1, <2>2, <2>3, <2>4, <2>5, <2>6, <2>7, FilePlain
  <1>7. QED
    BY <1>5, <1>6

\* An insert that starts takes an id and a time that nobody else has.
LEMMA FileStartInsert ==
  ASSUME File!IInv, NEW t \in Txns, File!StartInsert(t)
  PROVE  File!IInv'
  <1>1. PICK f \in Ids :
          /\ ~File!Exists(f) /\ \A u \in Txns : fileReq[u].id # f
          /\ File!Continue(t, "publish", [fileReq[t] EXCEPT !.id = f, !.created = clock])
    BY DEF File!StartInsert
  <1>2. /\ filePc[t] = "insert" /\ UNCHANGED <<file, chat, overfull, removed>>
        /\ clock' = clock + 1 /\ File!RequestOK(t) /\ File!TypeOK /\ File!RowsOK
        /\ File!UploadsApart
    BY DEF File!StartInsert, File!IInv
  <1> DEFINE r == [fileReq[t] EXCEPT !.id = f, !.created = clock]
  <1>3. filePc' = [filePc EXCEPT ![t] = "publish"] /\ fileReq' = [fileReq EXCEPT ![t] = r]
    BY <1>1 DEF File!Continue, File!Goto
  <1>4. clock \in Nat /\ clock' \in Nat /\ clock <= clock' /\ clock < clock'
    BY <1>2, FileTypes
  <1>5. /\ r \in File!Request /\ r.message = fileReq[t].message /\ r.id = f
        /\ r.created = clock /\ r.retire = fileReq[t].retire
        /\ r.purpose = fileReq[t].purpose /\ r.slotted = fileReq[t].slotted
    BY <1>2, <1>4, FileTypes DEF File!Request
  <1>6. filePc'[t] = "publish" /\ fileReq'[t] = r /\ "publish" \in FilePcs
    BY <1>2, <1>3 DEF File!TypeOK, FilePcs
  <1> HIDE DEF r
  <1>7. \A g \in Ids : File!Exists(g) => file[g].created < clock /\ file[g].created # clock
    <2>1. \A g \in Ids : file[g].created \in Nat
      BY <1>2, FileTypes
    <2>2. QED
      BY <1>2, <1>4, <2>1 DEF File!RowsOK
  <1>8. \A g \in Ids : File!Exists(g)' <=> File!Exists(g)
    BY <1>2 DEF File!Exists
  <1>9. File!RequestOK(t)'
    <2>1. f # Null /\ fileReq[t].retire = {}
      BY <1>2, NullAssumption DEF File!RequestOK
    <2>2. QED
      BY <1>1, <1>2, <1>4, <1>5, <1>6, <1>7, <1>8, <2>1 DEF File!RequestOK, File!Sent
  <1>10. \A u \in Txns : u # t =>
           /\ filePc[u] \in File!Sent =>
                /\ fileReq[u].message \in chat'
                /\ "publish" \in File!Sent => r.message # fileReq[u].message
           /\ filePc[u] = "publish" /\ "publish" = "publish" =>
                r.id # fileReq[u].id /\ r.created # fileReq[u].created
    <2> SUFFICES ASSUME NEW u \in Txns, u # t
                 PROVE  /\ filePc[u] \in File!Sent =>
                             /\ fileReq[u].message \in chat'
                             /\ r.message # fileReq[u].message
                        /\ filePc[u] = "publish" =>
                             r.id # fileReq[u].id /\ r.created # fileReq[u].created
      OBVIOUS
    <2>1. filePc[t] \in File!Sent
      BY <1>2 DEF File!Sent
    <2>2. filePc[u] \in File!Sent =>
            fileReq[u].message \in chat' /\ r.message # fileReq[u].message
      BY <1>2, <1>5, <2>1, FileChatKept DEF File!UploadsApart
    <2>3. filePc[u] = "publish" => fileReq[u].created < clock /\ fileReq[u].created \in Nat
      BY <1>2, FileTypes DEF File!IInv, File!RequestOK
    <2>4. QED
      BY <1>1, <1>4, <1>5, <2>2, <2>3
  <1>11. \A q \in Slots \ overfull' : \A g \in File!Beyond(q) :
           File!Covers(t, g) => ("publish" = "list" /\ r.purpose = q) \/ g \in r.retire
    BY <1>2, FileChatKept, FileCoversNothing
  <1>12. /\ UNCHANGED <<file, removed>> /\ chat' \subseteq Messages
         /\ overfull \subseteq overfull' /\ overfull' \subseteq Purposes
         /\ \A g \in File!LiveFiles : file[g].message \in chat'
    BY <1>2, FileChatKept
  <1>13. QED
    BY <1>3, <1>4, <1>5, <1>6, <1>9, <1>10, <1>11, <1>12, FilePlain

\* What superseded lists is outnumbered by newer files of the slot.
LEMMA FileListSlot ==
  ASSUME File!IInv, NEW t \in Txns, File!ListSlot(t)
  PROVE  File!IInv'
  <1> DEFINE over == File!Beyond(fileReq[t].purpose)
             r == [fileReq[t] EXCEPT !.retire = over]
  <1>1. /\ filePc[t] = "list" /\ UNCHANGED <<file, chat, clock, overfull, removed>>
        /\ \/ over = {} /\ File!Finish(t)
           \/ over # {} /\ File!Continue(t, "retire", r)
    BY DEF File!ListSlot
  <1>2. File!RequestOK(t) /\ File!TypeOK
    BY DEF File!IInv
  <1>3. fileReq[t].purpose \in Slots /\ fileReq[t].retire = {}
    BY <1>1, <1>2 DEF File!RequestOK, File!Sent
  <1>4. \A q \in Slots : \A f \in File!Beyond(q) :
          /\ f \in Ids /\ file[f].purpose = q
          /\ File!Covers(t, f) => f \in over
    BY <1>3, FileChatKept DEF File!Covers
  <1>5. /\ UNCHANGED <<file, removed, clock>> /\ chat' \subseteq Messages
        /\ overfull \subseteq overfull' /\ overfull' \subseteq Purposes
        /\ \A f \in File!LiveFiles : file[f].message \in chat'
        /\ \A u \in Txns : u # t /\ filePc[u] \in File!Sent => fileReq[u].message \in chat'
    BY <1>1, FileChatKept
  <1>6. CASE over = {} /\ File!Finish(t)
    <2>1. \A q \in Slots \ overfull' : \A f \in File!Beyond(q) : ~File!Covers(t, f)
      BY <1>4, <1>6
    <2>2. QED
      BY <1>5, <1>6, <2>1, FileFinish
  <1>7. CASE over # {} /\ File!Continue(t, "retire", r)
    <2>1. filePc' = [filePc EXCEPT ![t] = "retire"] /\ fileReq' = [fileReq EXCEPT ![t] = r]
      BY <1>7 DEF File!Continue, File!Goto
    <2>2. over \subseteq Ids
      BY <1>3, <1>4
    <2>3. /\ r \in File!Request /\ r.retire = over /\ r.purpose = fileReq[t].purpose
          /\ r.slotted = fileReq[t].slotted
      BY <1>2, <2>2, FileTypes DEF File!Request
    <2>4. filePc'[t] = "retire" /\ fileReq'[t] = r /\ "retire" \in FilePcs
          /\ "retire" \notin File!Sent
      BY <1>2, <2>1 DEF File!TypeOK, FilePcs, File!Sent
    <2>5. \A f \in over : /\ file[f].purpose = fileReq[t].purpose
                          /\ File!Cardinality(File!Newer(f)) >= MaxCount[fileReq[t].purpose]
      <3> DEFINE p == fileReq[t].purpose
      <3> SUFFICES ASSUME NEW f \in over
                   PROVE  /\ file[f].purpose = p
                          /\ File!Cardinality(File!Newer(f)) >= MaxCount[p]
        OBVIOUS
      <3>1. /\ f \in File!Of(p) /\ file[f].purpose = p
            /\ File!Cardinality(File!Ahead(f, File!Of(p))) >= MaxCount[p]
        BY <1>3, <1>4 DEF File!Beyond
      <3>2. File!Ahead(f, File!Of(p)) \subseteq File!Newer(f) /\ File!Newer(f) \subseteq Ids
        BY <3>1 DEF File!Ahead, File!Of, File!LiveFiles, File!Newer
      <3>3. /\ File!Cardinality(File!Ahead(f, File!Of(p))) \in Nat
            /\ File!Cardinality(File!Newer(f)) \in Nat
            /\ File!Cardinality(File!Ahead(f, File!Of(p))) <= File!Cardinality(File!Newer(f))
        BY <3>2, IdsCount, FileCard
      <3>4. MaxCount[p] \in Nat
        BY <1>3, SlotsAssumption
      <3>5. QED
        BY <3>1, <3>3, <3>4
    <2>6. \A f \in Ids : File!Newer(f)' = File!Newer(f) /\ file'[f] = file[f]
      BY <1>1 DEF File!Newer
    <2> HIDE DEF r
    <2>7. \A f \in over : f \in Ids /\ File!Cardinality(File!Newer(f)') = File!Cardinality(File!Newer(f))
      BY <2>2, <2>6
    <2> HIDE DEF over
    <2>8. File!RequestOK(t)'
      BY <1>1, <1>2, <1>3, <1>7, <2>3, <2>4, <2>5, <2>6, <2>7 DEF File!RequestOK, File!Sent
    <2>9. \A q \in Slots \ overfull' : \A f \in File!Beyond(q) :
            File!Covers(t, f) => ("retire" = "list" /\ r.purpose = q) \/ f \in r.retire
      BY <1>4, <2>3
    <2>10. QED
      BY <1>5, <2>1, <2>3, <2>4, <2>8, <2>9, FileQuiet
  <1>8. QED
    BY <1>1, <1>6, <1>7

\* The end of an erase, or a retirement that changes no row.
LEMMA FileRetireOn ==
  ASSUME File!IInv, NEW t \in Txns, NEW r \in File!Request, r.retire # {},
         filePc[t] \in {"retire", "erase"}, File!Continue(t, "retire", r),
         r.retire \subseteq fileReq[t].retire, r.purpose = fileReq[t].purpose,
         r.slotted = fileReq[t].slotted, fileReq[t].slotted,
         UNCHANGED <<file, removed, clock>>, chat' \subseteq Messages,
         overfull \subseteq overfull', overfull' \subseteq Purposes,
         \A f \in File!LiveFiles : file[f].message \in chat',
         \A u \in Txns : u # t /\ filePc[u] \in File!Sent => fileReq[u].message \in chat',
         \A q \in Slots \ overfull' : \A f \in File!Beyond(q) :
           f \in fileReq[t].retire => f \in r.retire
  PROVE  File!IInv'
  <1>1. filePc' = [filePc EXCEPT ![t] = "retire"] /\ fileReq' = [fileReq EXCEPT ![t] = r]
    BY DEF File!Continue, File!Goto
  <1>2. /\ filePc'[t] = "retire" /\ fileReq'[t] = r /\ "retire" \in FilePcs
        /\ "retire" \notin File!Sent
    BY <1>1 DEF File!IInv, File!TypeOK, FilePcs, File!Sent
  <1>3. File!RequestOK(t) /\ fileReq[t].retire \subseteq Ids
    BY FileTypes DEF File!IInv
  <1>4. \A f \in Ids : File!Newer(f)' = File!Newer(f) /\ file'[f] = file[f]
    BY DEF File!Newer
  <1>5. File!RequestOK(t)'
    <2>1. fileReq[t].purpose \in Slots /\ fileReq[t].purpose # Null
      BY <1>3, SlotsAssumption, NullAssumption DEF File!RequestOK
    <2>2. \A f \in r.retire : /\ file'[f].purpose = r.purpose
                              /\ File!Cardinality(File!Newer(f)') >= MaxCount[r.purpose]
      <3> SUFFICES ASSUME NEW f \in r.retire
                   PROVE  /\ file'[f].purpose = r.purpose
                          /\ File!Cardinality(File!Newer(f)') >= MaxCount[r.purpose]
        OBVIOUS
      <3>1. f \in fileReq[t].retire /\ f \in Ids
        BY <1>3
      <3>2. QED
        BY <1>3, <1>4, <3>1 DEF File!RequestOK
    <2>3. QED
      BY <1>2, <2>1, <2>2 DEF File!RequestOK, File!Sent
  <1>6. \A q \in Slots \ overfull' : \A f \in File!Beyond(q) :
          File!Covers(t, f) => ("retire" = "list" /\ r.purpose = q) \/ f \in r.retire
    BY DEF File!Covers
  <1>7. QED
    BY <1>1, <1>2, <1>5, <1>6, FileQuiet

\* A retirement whose file is gone already, or fails.
LEMMA FileRetireNone ==
  ASSUME File!IInv, NEW t \in Txns, filePc[t] = "retire", NEW f \in fileReq[t].retire,
         UNCHANGED <<file, chat, clock, removed>>,
         overfull' = IF File!Live(f) THEN overfull \cup {fileReq[t].purpose} ELSE overfull,
         NEW r, r = [fileReq[t] EXCEPT !.retire = @ \ {f}],
         IF r.retire = {} THEN File!Finish(t) ELSE File!Continue(t, "retire", r)
  PROVE  File!IInv'
  <1>1. File!RequestOK(t) /\ File!TypeOK
    BY DEF File!IInv
  <1>2. /\ fileReq[t].purpose \in Slots /\ fileReq[t].slotted
        /\ fileReq[t].purpose \in Purposes /\ f \in Ids
        /\ file[f].purpose = fileReq[t].purpose
    BY <1>1, SlotsAssumption, FileTypes DEF File!RequestOK
  <1>3. /\ r \in File!Request /\ r.retire = fileReq[t].retire \ {f}
        /\ r.purpose = fileReq[t].purpose /\ r.slotted = fileReq[t].slotted
    BY <1>1, FileTypes DEF File!Request
  <1>4. /\ UNCHANGED <<file, removed, clock>> /\ chat' \subseteq Messages
        /\ overfull \subseteq overfull' /\ overfull' \subseteq Purposes
        /\ \A g \in File!LiveFiles : file[g].message \in chat'
        /\ \A u \in Txns : u # t /\ filePc[u] \in File!Sent => fileReq[u].message \in chat'
    BY <1>2, FileChatKept
  <1>5. \A q \in Slots \ overfull' : \A g \in File!Beyond(q) :
          /\ g \in fileReq[t].retire => g \in r.retire
          /\ File!Covers(t, g) => g \in r.retire
    <2> SUFFICES ASSUME NEW q \in Slots \ overfull', NEW g \in File!Beyond(q),
                        g \in fileReq[t].retire
                 PROVE  g \in r.retire
      BY DEF File!Covers
    <2>1. g \in Ids /\ File!Live(g) /\ file[g].purpose = q
      BY DEF File!Beyond, File!Of, File!LiveFiles
    <2>2. g # f
      BY <1>2, <2>1
    <2>3. QED
      BY <1>3, <2>2
  <1>6. CASE r.retire = {} /\ File!Finish(t)
    BY <1>4, <1>5, <1>6, FileFinish
  <1>7. CASE r.retire # {} /\ File!Continue(t, "retire", r)
    BY <1>2, <1>3, <1>4, <1>5, <1>7, FileRetireOn
  <1>8. QED
    BY <1>6, <1>7

\* The message that is erased is that of a file that is gone.
LEMMA FileErase ==
  ASSUME File!IInv, NEW t \in Txns, File!Erase(t)
  PROVE  File!IInv'
  <1> DEFINE r == fileReq[t]
  <1>1. /\ filePc[t] = "erase" /\ UNCHANGED <<file, clock, overfull, removed>>
        /\ chat' = chat \ {r.message} \/ chat' = chat
        /\ IF r.retire = {} THEN File!Finish(t) ELSE File!Continue(t, "retire", r)
    BY DEF File!Erase
  <1>2. File!RequestOK(t) /\ File!TypeOK /\ File!RowsOK /\ File!LiveHasMessage
    BY DEF File!IInv
  <1>3. PICK g \in Ids : file[g].deleted /\ file[g].message = r.message
    BY <1>1, <1>2 DEF File!RequestOK
  <1>4. File!Exists(g)
    BY <1>2, <1>3 DEF File!RowsOK, File!NoRow
  <1>5. \A f \in File!LiveFiles : file[f].message \in chat'
    <2> SUFFICES ASSUME NEW f \in File!LiveFiles PROVE file[f].message \in chat'
      OBVIOUS
    <2>1. f \in Ids /\ File!Exists(f) /\ f # g /\ file[f].message \in chat
      BY <1>3, FileChatKept DEF File!LiveFiles, File!Live
    <2>2. file[f].message # r.message
      BY <1>2, <1>3, <1>4, <2>1 DEF File!LiveHasMessage
    <2>3. QED
      BY <1>1, <2>1, <2>2
  <1>6. \A u \in Txns : u # t /\ filePc[u] \in File!Sent => fileReq[u].message \in chat'
    <2> SUFFICES ASSUME NEW u \in Txns, filePc[u] \in File!Sent
                 PROVE  fileReq[u].message \in chat'
      OBVIOUS
    <2>1. fileReq[u].message \in chat /\ fileReq[u].message # file[g].message
      BY DEF File!IInv, File!RequestOK
    <2>2. QED
      BY <1>1, <1>3, <2>1
  <1>7. /\ UNCHANGED <<file, removed, clock>> /\ chat' \subseteq Messages
        /\ overfull \subseteq overfull' /\ overfull' \subseteq Purposes
    BY <1>1, FileChatKept
  <1>8. CASE r.retire = {} /\ File!Finish(t)
    <2>1. \A q \in Slots \ overfull' : \A f \in File!Beyond(q) : ~File!Covers(t, f)
      BY <1>1, <1>8 DEF File!Covers
    <2>2. QED
      BY <1>5, <1>6, <1>7, <1>8, <2>1, FileFinish
  <1>9. CASE r.retire # {} /\ File!Continue(t, "retire", r)
    <2>1. r \in File!Request
      BY <1>2, FileTypes
    <2>2. r.slotted
      BY <1>2, <1>9 DEF File!RequestOK
    <2>3. QED
      BY <1>1, <1>5, <1>6, <1>7, <1>9, <2>1, <2>2, FileRetireOn
  <1>10. QED
    BY <1>1, <1>8, <1>9

\* A read that ends, and a process that dies.
LEMMA FileEnds ==
  ASSUME File!IInv, NEW t \in Txns, File!Download(t) \/ File!Die(t)
  PROVE  File!IInv'
  <1>1. /\ File!Finish(t) /\ UNCHANGED <<file, removed, clock, chat>>
    BY DEF File!Download, File!Die
  <1>2. File!RequestOK(t) /\ File!TypeOK
    BY DEF File!IInv
  <1>3. /\ overfull \subseteq overfull' /\ overfull' \subseteq Purposes
    <2>1. overfull \subseteq Purposes /\ fileReq[t].purpose \in Purposes \cup {Null}
      BY <1>2, FileTypes DEF File!TypeOK
    <2>2. QED
      BY <2>1 DEF File!Download, File!Die
  <1>4. \A q \in Slots \ overfull' : \A f \in File!Beyond(q) : ~File!Covers(t, f)
    <2>1. CASE File!Download(t)
      BY <1>2, <2>1, FileChatKept, FileCoversNothing DEF File!Download
    <2>2. CASE File!Die(t)
      <3> SUFFICES ASSUME NEW q \in Slots, NEW f \in File!Beyond(q), File!Covers(t, f)
                   PROVE  q \in overfull'
        OBVIOUS
      <3>1. f \in Ids /\ file[f].purpose = q /\ q # Null
        BY FileChatKept, SlotsAssumption, NullAssumption
      <3>2. fileReq[t].purpose = q /\ filePc[t] \in {"list", "retire", "erase"}
        BY <1>2, <3>1 DEF File!Covers, File!RequestOK
      <3>3. QED
        BY <2>2, <3>1, <3>2 DEF File!Die
    <2>3. QED
      BY <2>1, <2>2
  <1>5. /\ chat' \subseteq Messages
        /\ \A f \in File!LiveFiles : file[f].message \in chat'
        /\ \A u \in Txns : u # t /\ filePc[u] \in File!Sent => fileReq[u].message \in chat'
    BY <1>1, FileChatKept
  <1>6. QED
    BY <1>1, <1>3, <1>4, <1>5, FileFinish

\* A file is deleted softly: one that its owner removes, or one that newer ones of its
\* slot outnumber.
LEMMA FileSoftDelete ==
  ASSUME File!IInv, NEW t \in Txns, NEW f \in Ids, NEW r \in File!Request,
         File!Live(f), File!SoftDelete(f), filePc[t] \in {"idle", "retire"},
         filePc' = [filePc EXCEPT ![t] = "erase"], fileReq' = [fileReq EXCEPT ![t] = r],
         UNCHANGED <<chat, clock, overfull>>, removed \subseteq removed', removed' \subseteq Ids,
         r.message = file[f].message, r.retire = fileReq[t].retire \ {f},
         r.retire # {} => r.slotted /\ r.purpose = fileReq[t].purpose,
         \/ f \in removed'
         \/ /\ file[f].purpose \in Slots
            /\ File!Cardinality(File!Newer(f)) >= MaxCount[file[f].purpose]
  PROVE  File!IInv'
  <1>1. /\ File!TypeOK /\ File!RowsOK /\ (\A u \in Txns : File!RequestOK(u))
        /\ File!UploadsApart /\ File!LiveHasMessage /\ File!OutnumberedOnly
    BY DEF File!IInv
  <1>2. /\ filePc'[t] = "erase" /\ fileReq'[t] = r
        /\ \A u \in Txns : u # t => filePc'[u] = filePc[u] /\ fileReq'[u] = fileReq[u]
    BY <1>1 DEF File!TypeOK
  <1>3. \A g \in Ids : /\ file'[g].purpose = file[g].purpose
                       /\ file'[g].message = file[g].message
                       /\ file'[g].created = file[g].created
                       /\ file'[g].deleted = (g = f \/ file[g].deleted)
                       /\ file'[g] \in File!Row
                       /\ g # f => file'[g] = file[g]
    <2> SUFFICES ASSUME NEW g \in Ids
                 PROVE  /\ file'[g].purpose = file[g].purpose
                        /\ file'[g].message = file[g].message
                        /\ file'[g].created = file[g].created
                        /\ file'[g].deleted = (g = f \/ file[g].deleted)
                        /\ file'[g] \in File!Row
                        /\ g # f => file'[g] = file[g]
      OBVIOUS
    <2>1. file[g] \in File!Row /\ file[f] \in File!Row
      BY <1>1, FileTypes
    <2>2. CASE g = f
      <3>1. file'[f] = [file[f] EXCEPT !.deleted = TRUE]
        BY <1>1 DEF File!SoftDelete, File!TypeOK
      <3>2. QED
        BY <2>1, <2>2, <3>1 DEF File!Row
    <2>3. CASE g # f
      <3>1. file'[g] = file[g]
        BY <2>3, <1>1 DEF File!SoftDelete, File!TypeOK
      <3>2. QED
        BY <2>1, <2>3, <3>1 DEF File!Row
    <2>4. QED
      BY <2>2, <2>3
  <1>4. \A g \in Ids : File!Exists(g)' <=> File!Exists(g)
    BY <1>3 DEF File!Exists
  <1>5. FilesStay
    BY <1>3 DEF FilesStay
  <1>6. File!TypeOK'
    <2>1. file' \in [Ids -> File!Row]
      BY <1>1, <1>3 DEF File!SoftDelete, File!TypeOK
    <2>2. QED
      BY <1>1, <2>1 DEF File!TypeOK
  <1>7. File!RowsOK'
    <2>1. \A g \in Ids : ~File!Exists(g) => g # f
      BY DEF File!Live
    <2>2. QED
      BY <1>1, <1>3, <1>4, <2>1 DEF File!RowsOK
  <1>8. \A g \in Ids : File!Newer(g)' = File!Newer(g)
    BY <1>3 DEF File!Newer
  <1>9. File!RequestOK(t)'
    <2>1. file'[f].deleted /\ file'[f].message = r.message
      BY <1>3
    <2>2. r.retire # {} => r.slotted /\ r.purpose \in Slots
      BY <1>1 DEF File!RequestOK
    <2>3. \A g \in r.retire : /\ file'[g].purpose = r.purpose
                              /\ File!Cardinality(File!Newer(g)') >= MaxCount[r.purpose]
      <3> SUFFICES ASSUME NEW g \in r.retire
                   PROVE  /\ file'[g].purpose = r.purpose
                          /\ File!Cardinality(File!Newer(g)') >= MaxCount[r.purpose]
        OBVIOUS
      <3>1. g \in fileReq[t].retire /\ g \in Ids /\ r.purpose = fileReq[t].purpose
        BY <1>1, FileTypes
      <3>2. QED
        BY <1>1, <1>3, <1>8, <3>1 DEF File!RequestOK
    <2>4. QED
      BY <1>2, <2>1, <2>2, <2>3 DEF File!RequestOK, File!Sent
  <1>10. ASSUME NEW u \in Txns PROVE File!RequestOK(u)'
    <2>1. CASE u = t
      BY <1>9, <2>1
    <2>2. CASE u # t
      <3>1. clock' \in Nat /\ clock <= clock'
        BY <1>1, FileTypes
      <3>2. \A g \in Ids : ~File!Exists(g) /\ ~File!Exists(g)' => file'[g] = file[g]
        BY <1>3 DEF File!Live
      <3>3. filePc[u] \in File!Sent => fileReq[u].message \in chat'
        BY FileChatKept
      <3>4. QED
        BY <1>1, <1>2, <1>4, <1>5, <2>2, <3>1, <3>2, <3>3, FileOthers
    <2>3. QED
      BY <2>1, <2>2
  <1>11. File!UploadsApart'
    BY <1>1, <1>2 DEF File!UploadsApart, File!Sent
  <1>12. File!LiveHasMessage'
    <2>1. \A g \in Ids : File!Live(g)' => File!Live(g)
      BY <1>3, <1>4 DEF File!Live
    <2>2. QED
      BY <1>1, <1>3, <1>4, <2>1 DEF File!LiveHasMessage, File!LiveFiles
  <1>13. File!OutnumberedOnly'
    BY <1>1, <1>3, <1>8 DEF File!OutnumberedOnly
  <1>14. File!ExcessIsCovered'
    <2>1. ASSUME NEW q \in Slots \ overfull', NEW g \in File!Beyond(q)'
          PROVE  \/ File!Covers(t, g)'
                 \/ g \in File!Beyond(q) /\ ~File!Covers(t, g)
      <3>1. g \in Ids /\ g # f
        BY <1>3 DEF File!Beyond, File!Of, File!LiveFiles, File!Live
      <3>2. \A h \in Ids : File!Live(h)' => File!Live(h)
        BY <1>3, <1>4 DEF File!Live
      <3>3. g \in File!Beyond(q)
        BY <1>3, <3>2, BeyondShrinks
      <3>4. File!Covers(t, g) => File!Covers(t, g)'
        BY <1>2, <3>1 DEF File!Covers
      <3>5. QED
        BY <3>3, <3>4
    <2>2. QED
      BY <1>2, <1>5, <2>1, ExcessStays DEF File!IInv
  <1>15. QED
    BY <1>6, <1>7, <1>10, <1>11, <1>12, <1>13, <1>14 DEF File!IInv

LEMMA FileRetire ==
  ASSUME File!IInv, NEW t \in Txns, File!Retire(t)
  PROVE  File!IInv'
  <1>1. /\ filePc[t] = "retire" /\ UNCHANGED <<chat, clock, removed>>
        /\ File!RequestOK(t) /\ File!TypeOK
    BY DEF File!Retire, File!IInv
  <1>2. PICK f \in fileReq[t].retire :
          LET rest == [fileReq[t] EXCEPT !.retire = @ \ {f}] IN
          \/ /\ File!Live(f) /\ File!SoftDelete(f)
             /\ File!Continue(t, "erase", [rest EXCEPT !.message = file[f].message])
             /\ UNCHANGED overfull
          \/ /\ UNCHANGED file
             /\ overfull' = IF File!Live(f) THEN overfull \cup {rest.purpose} ELSE overfull
             /\ IF rest.retire = {} THEN File!Finish(t)
                ELSE File!Continue(t, "retire", rest)
    BY DEF File!Retire
  <1> DEFINE rest == [fileReq[t] EXCEPT !.retire = @ \ {f}]
             r == [rest EXCEPT !.message = file[f].message]
  <1>3. /\ rest \in File!Request /\ rest.retire = fileReq[t].retire \ {f}
        /\ rest.purpose = fileReq[t].purpose /\ rest.slotted = fileReq[t].slotted
        /\ f \in Ids
    BY <1>1, FileTypes DEF File!Request
  <1>4. CASE /\ File!Live(f) /\ File!SoftDelete(f) /\ File!Continue(t, "erase", r)
             /\ UNCHANGED overfull
    <2>1. filePc' = [filePc EXCEPT ![t] = "erase"] /\ fileReq' = [fileReq EXCEPT ![t] = r]
      BY <1>4 DEF File!Continue, File!Goto
    <2>2. file[f].message \in Messages \cup {Null}
      BY <1>1, <1>3, FileTypes
    <2> HIDE DEF rest
    <2>3. /\ r \in File!Request /\ r.message = file[f].message
          /\ r.retire = rest.retire /\ r.purpose = rest.purpose /\ r.slotted = rest.slotted
      BY <1>3, <2>2 DEF File!Request
    <2> HIDE DEF r
    <2>4. /\ file[f].purpose \in Slots
          /\ File!Cardinality(File!Newer(f)) >= MaxCount[file[f].purpose]
          /\ fileReq[t].slotted
      BY <1>1 DEF File!RequestOK
    <2>5. removed \subseteq removed' /\ removed' \subseteq Ids
      BY <1>1 DEF File!TypeOK
    <2>6. /\ r.retire = fileReq[t].retire \ {f}
          /\ r.retire # {} => r.slotted /\ r.purpose = fileReq[t].purpose
      BY <1>3, <2>3, <2>4
    <2>7. UNCHANGED <<chat, clock, overfull>> /\ filePc[t] \in {"idle", "retire"}
      BY <1>1, <1>4
    <2>8. QED
      BY <1>3, <1>4, <2>1, <2>3, <2>4, <2>5, <2>6, <2>7, FileSoftDelete
  <1>5. CASE /\ UNCHANGED file
             /\ overfull' = IF File!Live(f) THEN overfull \cup {rest.purpose} ELSE overfull
             /\ IF rest.retire = {} THEN File!Finish(t) ELSE File!Continue(t, "retire", rest)
    <2>1. PICK x : x = rest
      OBVIOUS
    <2>2. /\ UNCHANGED <<file, chat, clock, removed>>
          /\ overfull' = IF File!Live(f) THEN overfull \cup {fileReq[t].purpose} ELSE overfull
          /\ x = [fileReq[t] EXCEPT !.retire = @ \ {f}]
          /\ IF x.retire = {} THEN File!Finish(t) ELSE File!Continue(t, "retire", x)
      BY <1>1, <1>3, <1>5, <2>1
    <2>3. QED
      BY <1>1, <2>2, FileRetireNone
  <1>6. QED
    BY <1>2, <1>4, <1>5

LEMMA FileRemove ==
  ASSUME File!IInv, NEW t \in Txns, NEW f \in Ids, File!RemoveFile(t, f)
  PROVE  File!IInv'
  <1> DEFINE r == [File!NoRequest EXCEPT !.message = file[f].message]
  <1>1. /\ filePc' = [filePc EXCEPT ![t] = "erase"] /\ fileReq' = [fileReq EXCEPT ![t] = r]
        /\ UNCHANGED <<chat, clock, overfull>> /\ removed' = removed \cup {f}
        /\ filePc[t] = "idle" /\ File!Live(f) /\ File!SoftDelete(f)
    BY DEF File!RemoveFile
  <1>2. File!RequestOK(t) /\ File!TypeOK
    BY DEF File!IInv
  <1>3. r \in File!Request /\ r.retire = {} /\ r.message = file[f].message
    BY <1>2, FileTypes DEF File!NoRequest, File!Request
  <1>4. fileReq[t].retire = {} /\ removed' \subseteq Ids
    BY <1>1, <1>2 DEF File!RequestOK, File!TypeOK
  <1> HIDE DEF r
  <1>5. QED
    BY <1>1, <1>3, <1>4, FileSoftDelete

\* The row of an upload appears: with the slot's retirements still to come, or outside
\* the slot rule.
LEMMA FilePublish ==
  ASSUME File!IInv, NEW t \in Txns, File!Publish(t)
  PROVE  File!IInv'
  <1>1. PICK r : r = fileReq[t]
    OBVIOUS
  <1>2. PICK i : i = r.id
    OBVIOUS
  <1>3. /\ filePc[t] = "publish" /\ file' = [file EXCEPT ![i] = File!RowOf(r)]
        /\ UNCHANGED <<chat, clock, removed>>
        /\ \/ r.slotted /\ File!Continue(t, "list", r) /\ UNCHANGED overfull
           \/ ~r.slotted /\ File!Finish(t) /\ overfull' = overfull \cup {r.purpose}
    BY <1>1, <1>2 DEF File!Publish
  <1>4. /\ File!TypeOK /\ File!RowsOK /\ (\A u \in Txns : File!RequestOK(u))
        /\ File!UploadsApart /\ File!LiveHasMessage /\ File!OutnumberedOnly
    BY DEF File!IInv
  <1>5. /\ r \in File!Request /\ r.purpose \in Purposes \cup {Null}
        /\ r.created \in Nat /\ clock \in Nat
        /\ \A g \in Ids : file[g].created \in Nat
    BY <1>1, <1>4, FileTypes
  <1>6. /\ r.purpose \in Purposes /\ r.purpose # Null /\ (r.slotted => r.purpose \in Slots)
        /\ r.message \in chat /\ r.message \in Messages /\ r.message # Null
        /\ i \in Ids /\ ~File!Exists(i) /\ r.created < clock /\ r.retire = {}
        /\ \A g \in Ids : /\ file[g].message # r.message
                          /\ File!Exists(g) => file[g].created # r.created
    <2>1. chat \subseteq Messages
      BY <1>4 DEF File!TypeOK
    <2>2. r.id \in Ids \cup {Null}
      BY <1>1, <1>4, FileTypes
    <2>3. QED
      BY <1>1, <1>2, <1>3, <1>4, <1>5, <2>1, <2>2, NullAssumption
      DEF File!RequestOK, File!Sent
  <1>7. /\ file'[i].purpose = r.purpose /\ file'[i].message = r.message
        /\ file'[i].created = r.created /\ ~file'[i].deleted /\ file'[i] \in File!Row
        /\ \A g \in Ids : g # i => file'[g] = file[g]
    BY <1>3, <1>4, <1>5, <1>6 DEF File!RowOf, File!Row, File!TypeOK
  <1>8. \A g \in Ids : File!Exists(g)' <=> g = i \/ File!Exists(g)
    BY <1>6, <1>7 DEF File!Exists
  <1>9. FilesStay
    BY <1>6, <1>7 DEF FilesStay
  <1>10. /\ \A u \in Txns : u # t => filePc'[u] = filePc[u] /\ fileReq'[u] = fileReq[u]
         /\ filePc'[t] \in {"list", "idle"}
         /\ filePc'[t] = "list" <=> r.slotted
         /\ r.slotted => fileReq'[t] = r
         /\ ~r.slotted => fileReq'[t] = File!NoRequest
         /\ filePc' \in [Txns -> FilePcs] /\ fileReq' \in [Txns -> File!Request]
    <2>1. CASE r.slotted /\ File!Continue(t, "list", r) /\ UNCHANGED overfull
      BY <1>4, <1>5, <2>1 DEF File!Continue, File!Goto, File!TypeOK, FilePcs
    <2>2. CASE ~r.slotted /\ File!Finish(t) /\ overfull' = overfull \cup {r.purpose}
      BY <1>4, <1>5, <2>2, FileNoRequest DEF File!Finish, File!Goto, File!TypeOK, FilePcs
    <2>3. QED
      BY <1>3, <2>1, <2>2
  <1>11. overfull \subseteq overfull' /\ overfull' \subseteq Purposes
    BY <1>3, <1>4, <1>6 DEF File!TypeOK
  <1>12. File!TypeOK'
    <2>1. file' \in [Ids -> File!Row]
      BY <1>3, <1>4, <1>7 DEF File!TypeOK
    <2>2. QED
      BY <1>3, <1>4, <1>10, <1>11, <2>1 DEF File!TypeOK, FilePcs
  <1>13. File!RowsOK'
    <2>1. \A g \in Ids : IF File!Exists(g)' THEN file'[g].message # Null /\ file'[g].created < clock'
                         ELSE file'[g] = File!NoRow
      BY <1>3, <1>4, <1>6, <1>7, <1>8 DEF File!RowsOK
    <2>2. \A f, g \in Ids : f # g /\ File!Exists(f)' /\ File!Exists(g)' =>
            file'[f].created # file'[g].created
      BY <1>4, <1>6, <1>7, <1>8 DEF File!RowsOK
    <2>3. QED
      BY <2>1, <2>2 DEF File!RowsOK
  <1>14. File!RequestOK(t)'
    <2>1. CASE r.slotted
      BY <1>6, <1>10, <2>1 DEF File!RequestOK, File!Sent
    <2>2. CASE ~r.slotted
      BY <1>10, <2>2, FileNoRequest DEF File!RequestOK, File!Sent
    <2>3. QED
      BY <2>1, <2>2
  <1>15. ASSUME NEW u \in Txns PROVE File!RequestOK(u)'
    <2>1. CASE u = t
      BY <1>14, <2>1
    <2>2. CASE u # t
      <3>1. clock' \in Nat /\ clock <= clock'
        BY <1>3, <1>5
      <3>2. filePc[u] \in File!Sent => fileReq[u].message \in chat'
        BY <1>3, FileChatKept
      <3>3. \A g \in Ids : ~File!Exists(g) /\ File!Exists(g)' =>
              /\ filePc[u] \in File!Sent => file'[g].message # fileReq[u].message
              /\ filePc[u] = "publish" =>
                   g # fileReq[u].id /\ file'[g].created # fileReq[u].created
        <4>1. filePc[t] \in File!Sent
          BY <1>3 DEF File!Sent
        <4>2. QED
          BY <1>1, <1>2, <1>3, <1>4, <1>7, <1>8, <2>2, <4>1 DEF File!UploadsApart
      <3>4. \A g \in Ids : ~File!Exists(g) /\ ~File!Exists(g)' => file'[g] = file[g]
        BY <1>7, <1>8
      <3>5. QED
        BY <1>4, <1>9, <1>10, <2>2, <3>1, <3>2, <3>3, <3>4, FileOthers
    <2>3. QED
      BY <2>1, <2>2
  <1>16. File!UploadsApart'
    BY <1>4, <1>10 DEF File!UploadsApart, File!Sent
  <1>17. File!LiveHasMessage'
    <2>1. \A g \in Ids : File!Live(g)' => file'[g].message \in chat'
      BY <1>3, <1>6, <1>7, <1>8, FileChatKept DEF File!Live, File!LiveFiles
    <2>2. \A f, g \in Ids : f # g /\ File!Exists(f)' /\ File!Exists(g)' =>
            file'[f].message # file'[g].message
      BY <1>4, <1>6, <1>7, <1>8 DEF File!LiveHasMessage
    <2>3. QED
      BY <2>1, <2>2 DEF File!LiveHasMessage, File!LiveFiles
  <1>18. File!OutnumberedOnly'
    <2> SUFFICES ASSUME NEW f \in Ids, file'[f].deleted, f \notin removed'
                 PROVE  /\ file'[f].purpose \in Slots
                        /\ File!Cardinality(File!Newer(f)') >= MaxCount[file'[f].purpose]
      BY DEF File!OutnumberedOnly
    <2>1. f # i /\ file'[f] = file[f] /\ f \notin removed
      BY <1>3, <1>7
    <2>2. /\ file[f].purpose \in Slots
          /\ File!Cardinality(File!Newer(f)) >= MaxCount[file[f].purpose]
      BY <1>4, <2>1 DEF File!OutnumberedOnly
    <2>3. File!Exists(f) /\ MaxCount[file[f].purpose] \in Nat
      BY <2>2, SlotsAssumption, NullAssumption DEF File!Exists
    <2>4. /\ File!Cardinality(File!Newer(f)) \in Nat
          /\ File!Cardinality(File!Newer(f)') \in Nat
          /\ File!Cardinality(File!Newer(f)) <= File!Cardinality(File!Newer(f)')
      BY <1>9, <2>3, NewerGrows
    <2>5. QED
      BY <2>1, <2>2, <2>3, <2>4
  <1>19. File!ExcessIsCovered'
    <2>1. ASSUME NEW q \in Slots \ overfull', NEW g \in File!Beyond(q)'
          PROVE  \/ File!Covers(t, g)'
                 \/ g \in File!Beyond(q) /\ ~File!Covers(t, g)
      <3>1. g \in Ids /\ file'[g].purpose = q
        BY DEF File!Beyond, File!Of, File!LiveFiles
      <3>2. CASE q = r.purpose
        BY <1>3, <1>10, <3>1, <3>2 DEF File!Covers
      <3>3. CASE q # r.purpose
        <4>1. \A h \in Ids : /\ h \in File!Of(q)' <=> h \in File!Of(q)
                             /\ h \in File!Of(q) => file'[h] = file[h]
          BY <1>6, <1>7, <3>3 DEF File!Of, File!LiveFiles, File!Live, File!Exists
        <4>2. File!Of(q)' = File!Of(q) /\ g \in File!Of(q)
          <5>1. File!Of(q)' \subseteq Ids /\ File!Of(q) \subseteq Ids /\ g \in File!Of(q)'
            BY DEF File!Of, File!LiveFiles, File!Beyond
          <5>2. QED
            BY <4>1, <5>1
        <4>3. File!Ahead(g, File!Of(q))' = File!Ahead(g, File!Of(q))
          <5>1. \A h \in File!Of(q) : file'[h] = file[h]
            BY <4>1 DEF File!Of, File!LiveFiles
          <5>2. QED
            BY <4>2, <5>1 DEF File!Ahead
        <4>4. g \in File!Beyond(q)
          BY <4>2, <4>3 DEF File!Beyond
        <4>5. ~File!Covers(t, g)
          BY <1>3, <1>4, <3>1, FileCoversNothing
        <4>6. QED
          BY <4>4, <4>5
      <3>4. QED
        BY <3>2, <3>3
    <2>2. QED
      BY <1>9, <1>10, <1>11, <2>1, ExcessStays DEF File!IInv
  <1>20. QED
    BY <1>12, <1>13, <1>15, <1>16, <1>17, <1>18, <1>19 DEF File!IInv

LEMMA FileUnchanged ==
  ASSUME File!IInv, UNCHANGED files
  PROVE  File!IInv'
  <1>1. UNCHANGED <<file, chat, clock, overfull, removed, filePc, fileReq>>
    BY DEF files
  <1>2. File!TypeOK' /\ File!RowsOK'
    BY <1>1 DEF File!IInv, File!TypeOK, File!RowsOK, File!Exists
  <1>3. \A t \in Txns : File!RequestOK(t)'
    BY <1>1 DEF File!IInv, File!RequestOK, File!Exists, File!Newer
  <1>4. File!UploadsApart'
    BY <1>1 DEF File!IInv, File!UploadsApart
  <1>5. File!LiveHasMessage' /\ File!OutnumberedOnly'
    BY <1>1 DEF File!IInv, File!LiveHasMessage, File!OutnumberedOnly, File!LiveFiles,
       File!Live, File!Exists, File!Newer
  <1>6. File!ExcessIsCovered'
    BY <1>1 DEF File!IInv, File!ExcessIsCovered, File!Covers, File!Beyond, File!Of,
       File!Ahead, File!LiveFiles, File!Live, File!Exists
  <1>7. QED
    BY <1>2, <1>3, <1>4, <1>5, <1>6 DEF File!IInv

LEMMA FileInit == File!Init => File!IInv
  <1> SUFFICES ASSUME File!Init PROVE File!IInv
    OBVIOUS
  <1>1. /\ clock = 2 /\ overfull = {} /\ removed = {}
        /\ filePc = [t \in Txns |-> "idle"] /\ fileReq = [t \in Txns |-> File!NoRequest]
    BY DEF File!Init
  <1>2. \A t \in Txns : File!RequestOK(t)
    BY <1>1, FileNoRequest DEF File!RequestOK, File!Sent
  <1>3. File!UploadsApart
    BY <1>1 DEF File!UploadsApart, File!Sent
  <1>4. /\ filePc \in [Txns -> FilePcs] /\ fileReq \in [Txns -> File!Request]
        /\ clock \in Nat /\ overfull \subseteq Purposes /\ removed \subseteq Ids
    BY <1>1, FileNoRequest DEF FilePcs
  <1>5. File!NoRow \in File!Row /\ File!NoRow.purpose = Null /\ File!NoRow.deleted = FALSE
    BY DEF File!NoRow, File!Row
  <1>6. CASE file = [f \in Ids |-> File!NoRow] /\ chat = {}
    <2>1. \A f \in Ids : file[f] = File!NoRow /\ ~File!Exists(f) /\ ~file[f].deleted
      BY <1>5, <1>6 DEF File!Exists
    <2>2. File!TypeOK
      BY <1>4, <1>5, <1>6 DEF File!TypeOK, FilePcs
    <2>3. File!RowsOK /\ File!LiveHasMessage /\ File!OutnumberedOnly /\ File!ExcessIsCovered
      BY <2>1 DEF File!RowsOK, File!LiveHasMessage, File!OutnumberedOnly,
         File!ExcessIsCovered, File!Beyond, File!Of, File!LiveFiles, File!Live
    <2>4. QED
      BY <1>2, <1>3, <2>2, <2>3 DEF File!IInv
  <1>7. CASE \E f \in Ids, m \in Messages, p \in Purposes :
               /\ chat = {m}
               /\ file = [g \in Ids |-> IF g = f THEN [purpose |-> p, message |-> m,
                                          created |-> 1, deleted |-> FALSE] ELSE File!NoRow]
    <2>1. PICK f \in Ids, m \in Messages, p \in Purposes :
               /\ chat = {m}
               /\ file = [g \in Ids |-> IF g = f THEN [purpose |-> p, message |-> m,
                                          created |-> 1, deleted |-> FALSE] ELSE File!NoRow]
      BY <1>7
    <2>2. m # Null /\ p # Null
      BY NullAssumption
    <2>3. /\ file[f].purpose = p /\ file[f].message = m /\ file[f].created = 1
          /\ file[f].deleted = FALSE /\ file[f] \in File!Row
          /\ \A g \in Ids : g # f => file[g] = File!NoRow
      BY <2>1 DEF File!Row
    <2>4. \A g \in Ids : /\ File!Exists(g) <=> g = f
                         /\ ~file[g].deleted
                         /\ file[g] \in File!Row
      BY <1>5, <2>2, <2>3 DEF File!Exists
    <2>5. File!TypeOK
      <3>1. file = [g \in Ids |-> file[g]]
        BY <2>1
      <3>2. file \in [Ids -> File!Row]
        BY <2>4, <3>1
      <3>3. chat \subseteq Messages
        BY <2>1
      <3>4. QED
        BY <1>4, <3>2, <3>3 DEF File!TypeOK, FilePcs
    <2>6. File!RowsOK /\ File!LiveHasMessage /\ File!OutnumberedOnly
      BY <1>1, <2>1, <2>2, <2>3, <2>4 DEF File!RowsOK, File!LiveHasMessage,
         File!OutnumberedOnly, File!LiveFiles, File!Live
    <2>7. File!ExcessIsCovered
      <3> SUFFICES ASSUME NEW q \in Slots, NEW g \in File!Beyond(q) PROVE FALSE
        BY DEF File!ExcessIsCovered
      <3>1. /\ g \in File!Of(q)
            /\ File!Cardinality(File!Ahead(g, File!Of(q))) >= MaxCount[q]
        BY DEF File!Beyond
      <3>2. File!Of(q) \subseteq {f}
        BY <2>4 DEF File!Of, File!LiveFiles, File!Live
      <3>3. File!Ahead(g, File!Of(q)) = {}
        BY <2>3, <3>1, <3>2 DEF File!Ahead
      <3>4. File!Cardinality(File!Ahead(g, File!Of(q))) = 0
        BY <3>3, FileCard, FS_EmptySet
      <3>5. MaxCount[q] \in Nat \ {0}
        BY SlotsAssumption
      <3>6. QED
        BY <3>1, <3>4, <3>5
    <2>8. QED
      BY <1>2, <1>3, <2>5, <2>6, <2>7 DEF File!IInv
  <1>8. QED
    BY <1>6, <1>7 DEF File!Init

LEMMA FileNext ==
  ASSUME File!IInv, File!Next
  PROVE  File!IInv'
  <1>1. PICK t \in Txns : File!Uploading(t) \/ File!Using(t) \/ File!Die(t)
    BY DEF File!Next
  <1>2. CASE File!Uploading(t)
    BY <1>2, FileBegins, FileSend, FileStartInsert, FilePublish, FileListSlot, FileRetire
    DEF File!Uploading
  <1>3. CASE File!Using(t)
    BY <1>3, FileBegins, FileRemove, FileErase, FileEnds DEF File!Using
  <1>4. CASE File!Die(t)
    BY <1>4, FileEnds
  <1>5. QED
    BY <1>1, <1>2, <1>3, <1>4

--------------------------------------------------------------------------------
(* Employers: the derived completeness *)

\* Four or seven fields are required.
LEMMA Whole ==
  ASSUME NEW type
  PROVE  /\ IsFiniteSet(Employer!RequiredFields(type))
         /\ Employer!Cardinality(Employer!RequiredFields(type)) \in {4, 7}
  <1> DEFINE base == {"contactPhone", "regionId", "description"}
  <1>1. IsFiniteSet(base) /\ Cardinality(base) = 3
    <2>1. IsFiniteSet({}) /\ Cardinality({}) = 0
      BY FS_EmptySet
    <2>2. IsFiniteSet({"contactPhone"}) /\ Cardinality({"contactPhone"}) = 1
      BY FS_Singleton
    <2>3. /\ IsFiniteSet({"contactPhone"} \cup {"regionId"})
          /\ Cardinality({"contactPhone"} \cup {"regionId"}) = 2
      BY <2>2, FS_AddElement
    <2>4. /\ IsFiniteSet(({"contactPhone"} \cup {"regionId"}) \cup {"description"})
          /\ Cardinality(({"contactPhone"} \cup {"regionId"}) \cup {"description"}) = 3
      BY <2>3, FS_AddElement
    <2>5. base = ({"contactPhone"} \cup {"regionId"}) \cup {"description"}
      OBVIOUS
    <2>6. QED
      BY <2>4, <2>5
  <1> HIDE DEF base
  <1>2. CASE type = "company"
    <2> DEFINE one == base \cup {"legalName"}
               two == one \cup {"publicName"}
               three == two \cup {"industryId"}
               four == three \cup {"contactPersonName"}
    <2>1. "legalName" \notin base /\ "publicName" \notin one /\ "industryId" \notin two
          /\ "contactPersonName" \notin three
      BY DEF base
    <2>2. Employer!RequiredFields(type) = four
      BY <1>2 DEF Employer!RequiredFields, Employer!CompanyColumns, base
    <2>3. IsFiniteSet(one) /\ Cardinality(one) = 4
      BY <1>1, <2>1, FS_AddElement
    <2>4. IsFiniteSet(two) /\ Cardinality(two) = 5
      BY <2>1, <2>3, FS_AddElement
    <2>5. IsFiniteSet(three) /\ Cardinality(three) = 6
      BY <2>1, <2>4, FS_AddElement
    <2>6. IsFiniteSet(four) /\ Cardinality(four) = 7
      BY <2>1, <2>5, FS_AddElement
    <2>7. QED
      BY <2>2, <2>6, EmployerCard
  <1>3. CASE type # "company"
    <2>1. Employer!RequiredFields(type) = base \cup {"fullName"} /\ "fullName" \notin base
      BY <1>3 DEF Employer!RequiredFields, base
    <2>2. IsFiniteSet(base \cup {"fullName"}) /\ Cardinality(base \cup {"fullName"}) = 4
      BY <1>1, <2>1, FS_AddElement
    <2>3. QED
      BY <2>1, <2>2, EmployerCard
  <1>4. QED
    BY <1>2, <1>3

LEMMA PercentOf ==
  ASSUME NEW whole \in {4, 7}, NEW missing \in 0 .. whole
  PROVE  /\ Employer!Percent(whole - missing, whole) \in Nat
         /\ Employer!Percent(whole - missing, whole) <= 100
         /\ Employer!Percent(whole - missing, whole) = 100 <=> missing = 0
  <1>1. CASE whole = 4
    BY <1>1, SMTT(60) DEF Employer!Percent
  <1>2. CASE whole = 7
    BY <1>2, SMTT(60) DEF Employer!Percent
  <1>3. QED
    BY <1>1, <1>2

\* The share is in per cent, and is 100 exactly if nothing is missing.
LEMMA DerivedIs ==
  ASSUME NEW row \in Employer!Profile, NEW filled
  PROVE  LET derived == Employer!Derived(row, filled) IN
         /\ derived \in Employer!Profile /\ derived.percent <= 100
         /\ derived.type = row.type /\ derived.filled = row.filled
         /\ derived.status = row.status /\ derived.stamped = row.stamped
         /\ derived.complete <=> derived.percent = 100
  <1> DEFINE fields == Employer!RequiredFields(row.type)
             missing == Employer!Missing(row.type, row.filled \cup filled)
  <1>1. PICK whole : whole = Employer!Cardinality(fields)
    OBVIOUS
  <1>2. PICK short : short = Employer!Cardinality(missing)
    OBVIOUS
  <1>3. IsFiniteSet(fields) /\ whole \in {4, 7} /\ Cardinality(fields) = whole
    BY <1>1, Whole, EmployerCard
  <1>4. /\ IsFiniteSet(missing) /\ short \in 0 .. whole /\ short = Cardinality(missing)
        /\ short = 0 <=> missing = {}
    <2>1. missing \subseteq fields
      BY DEF Employer!Missing
    <2>2. IsFiniteSet(missing) /\ Cardinality(missing) <= whole
      BY <1>3, <2>1, FS_Subset
    <2>3. Cardinality(missing) \in Nat /\ (Cardinality(missing) = 0 <=> missing = {})
      BY <2>2, FS_CardinalityType, FS_EmptySet
    <2>4. short = Cardinality(missing)
      BY <1>2, EmployerCard
    <2>5. whole \in Nat
      BY <1>3
    <2>6. QED
      BY <2>2, <2>3, <2>4, <2>5
  <1>5. PICK share : share = Employer!Percent(whole - short, whole)
    OBVIOUS
  <1>6. share \in Nat /\ share <= 100 /\ (share = 100 <=> short = 0)
    BY <1>3, <1>4, <1>5, PercentOf
  <1>7. PICK done : done = (missing = {})
    OBVIOUS
  <1>8. done \in BOOLEAN /\ (done <=> share = 100)
    BY <1>4, <1>6, <1>7
  <1>9. Employer!Derived(row, filled) = [row EXCEPT !.percent = share, !.complete = done]
    BY <1>1, <1>2, <1>5, <1>7 DEF Employer!Derived
  <1>10. QED
    BY <1>6, <1>8, <1>9 DEF Employer!Profile

\* It depends on the type and on what is filled in.
LEMMA DerivedSame ==
  ASSUME NEW row \in Employer!Profile, NEW other \in Employer!Profile, NEW filled,
         row.type = other.type, row.filled = other.filled
  PROVE  /\ Employer!Derived(row, filled).percent = Employer!Derived(other, filled).percent
         /\ Employer!Derived(row, filled).complete = Employer!Derived(other, filled).complete
  BY DEF Employer!Derived, Employer!Profile

--------------------------------------------------------------------------------
(* Employers: what stays *)

EmployerPcs == {"idle", "files", "insert", "find", "take", "row", "commit"}

LEMMA EmployerTypes ==
  ASSUME Employer!TypeOK
  PROVE  /\ profile.type \in Employer!Types \cup {Null}
         /\ profile.filled \subseteq Employer!EmployerColumns
         /\ profile.status \in Employer!Statuses
         /\ profile.complete \in BOOLEAN /\ profile.percent \in Nat
         /\ \A s \in Submissions : /\ submission[s].status \in Employer!Statuses \cup {Null}
                                   /\ submission[s].files \in Evidence \cup {{}}
                                   /\ submission[s].files \subseteq Ids
         /\ \A t \in Txns : /\ employerReq[t] \in Employer!Request
                            /\ employerReq[t].op \in Employer!Ops \cup {Null}
                            /\ employerReq[t].type \in Employer!Types \cup {Null}
                            /\ employerReq[t].answers \in Answers \cup {{}}
                            /\ employerReq[t].files \in Evidence \cup {{}}
                            /\ employerReq[t].files \subseteq Ids
                            /\ employerReq[t].to \in Employer!Statuses \cup {Null}
                            /\ employerReq[t].read \in Employer!Statuses \cup {Null}
                            /\ employerReq[t].target \in Submissions \cup {Null}
         /\ \A t \in Txns : employerPc[t] \in EmployerPcs
  <1>1. \A s \in Submissions : submission[s] \in Employer!Row
    BY DEF Employer!TypeOK
  <1>2. \A t \in Txns : employerReq[t] \in Employer!Request /\ employerPc[t] \in EmployerPcs
    BY DEF Employer!TypeOK, EmployerPcs
  <1>3. profile \in Employer!Profile
    BY DEF Employer!TypeOK
  <1>4. QED
    BY <1>1, <1>2, <1>3, EvidenceAssumption
    DEF Employer!Row, Employer!Request, Employer!Profile

\* What others rely on: the type of the profile, its having been submitted, and that a
\* submission stays one.
EmployerStays ==
  /\ UNCHANGED review
  /\ Employer!Exists => Employer!Exists' /\ profile'.type = profile.type
  /\ profile.status # "not_submitted" => profile'.status # "not_submitted"
  /\ \A s \in Submissions : submission[s].status # Null => submission'[s].status # Null

\* A request that takes no step keeps what it carries.
LEMMA EmployerOthers ==
  ASSUME Employer!TypeOK, EmployerStays, FilesStay, NEW u \in Txns, Employer!RequestOK(u),
         employerPc'[u] = employerPc[u], employerReq'[u] = employerReq[u],
         employerReq[u].op = "submit" /\ employerPc[u] \in Employer!Holding =>
           /\ submission'[employerReq[u].target].status = Null
           /\ review => Employer!Open' = {}
  PROVE  Employer!RequestOK(u)'
  <1> DEFINE r == employerReq[u]
  <1>1. r.files \subseteq Ids /\ r.target \in Submissions \cup {Null}
    BY EmployerTypes
  <1>2. r.op = "submit" =>
          /\ employerPc[u] \in Employer!SubmitPcs /\ Employer!Exists' /\ r.type = profile'.type
          /\ r.read \in Employer!Statuses /\ r.to = Employer!Decided' /\ r.files \in Evidence
    BY DEF EmployerStays, Employer!RequestOK, Employer!Decided
  <1>3. r.op = "submit" /\ employerPc[u] # "files" =>
          /\ \A f \in r.files : file'[f].purpose = file[f].purpose /\ file[f].purpose # Null
          /\ Employer!Covers(r.files, r.type)'
    <2> SUFFICES ASSUME r.op = "submit", employerPc[u] # "files"
                 PROVE  /\ \A f \in r.files : /\ file'[f].purpose = file[f].purpose
                                              /\ file[f].purpose # Null
                        /\ Employer!Covers(r.files, r.type)'
      OBVIOUS
    <2>1. \A f \in r.files : f \in Ids /\ file[f].purpose # Null
      BY <1>1 DEF Employer!RequestOK
    <2>2. \A f \in r.files : file'[f].purpose = file[f].purpose
      BY <2>1 DEF FilesStay, File!Exists
    <2>3. Employer!RequiredEvidence(r.type) \subseteq {file[f].purpose : f \in r.files}
      BY <2>1 DEF Employer!RequestOK, Employer!Covers
    <2>4. Employer!RequiredEvidence(r.type) \subseteq {file'[f].purpose : f \in r.files}
      BY <2>2, <2>3
    <2>5. QED
      BY <2>1, <2>2, <2>4 DEF Employer!Covers
  <1>4. r.op = "decide" =>
          /\ employerPc[u] \in Employer!DecidePcs /\ Employer!Exists'
          /\ profile'.status # "not_submitted"
          /\ r.read = "under_review" /\ r.to \in Employer!Decisions
          /\ r.target # Null => submission'[r.target].status # Null
    BY <1>1 DEF EmployerStays, Employer!RequestOK
  <1>5. r.op = "submit" /\ employerPc[u] \in Employer!Holding =>
          /\ r.target # Null /\ submission'[r.target].status = Null
          /\ review' => Employer!Open' = {}
    BY DEF EmployerStays, Employer!RequestOK
  <1>6. r.op = "submit" /\ employerPc[u] # "files" =>
          \A f \in r.files : [g \in Ids |-> file'[g].purpose][f] # Null
    BY <1>1, <1>3
  <1>7. QED
    BY <1>2, <1>3, <1>4, <1>5, <1>6 DEF Employer!RequestOK

\* Submissions keep their files and the purposes of those; so does the evidence.
LEMMA EvidenceStays ==
  ASSUME Employer!TypeOK, Employer!SubmissionsOK, FilesStay, profile'.type = profile.type,
         \A s \in Submissions : submission[s].status # Null =>
           submission'[s].status # Null /\ submission'[s].files = submission[s].files
  PROVE  /\ Employer!EvidenceOnFile => Employer!EvidenceOnFile'
         /\ \A s \in Submissions : submission[s].status # Null =>
              \A f \in submission'[s].files : [g \in Ids |-> file'[g].purpose][f] # Null
  <1>1. \A s \in Submissions : submission[s].files \subseteq Ids
    BY EmployerTypes
  <1>2. \A s \in Submissions : submission[s].status # Null =>
          \A f \in submission[s].files :
            f \in Ids /\ file[f].purpose # Null /\ file'[f].purpose = file[f].purpose
    BY <1>1 DEF Employer!SubmissionsOK, FilesStay, File!Exists
  <1>3. ASSUME Employer!EvidenceOnFile PROVE Employer!EvidenceOnFile'
    <2>1. PICK s \in Submissions :
            /\ submission[s].status # Null
            /\ \A code \in Employer!RequiredEvidence(profile.type) :
                 \E f \in submission[s].files : [g \in Ids |-> file[g].purpose][f] = code
      BY <1>3 DEF Employer!EvidenceOnFile
    <2>2. \A code \in Employer!RequiredEvidence(profile'.type) :
            \E f \in submission'[s].files : [g \in Ids |-> file'[g].purpose][f] = code
      BY <1>2, <2>1
    <2>3. QED
      BY <2>1, <2>2 DEF Employer!EvidenceOnFile
  <1>4. QED
    BY <1>2, <1>3

\* A step of one request that writes no row.
LEMMA EmployerPlain ==
  ASSUME Employer!IInv, NEW t \in Txns, NEW p \in EmployerPcs, NEW r \in Employer!Request,
         employerPc' = [employerPc EXCEPT ![t] = p],
         employerReq' = [employerReq EXCEPT ![t] = r],
         UNCHANGED <<profile, company, submission, history, review, file>>,
         Employer!RequestOK(t)',
         r.op = "submit" /\ p \in Employer!Holding =>
           \A u \in Txns : (/\ u # t /\ employerReq[u].op = "submit"
                            /\ employerPc[u] \in Employer!Holding) =>
             r.target # employerReq[u].target /\ ~review
  PROVE  Employer!IInv'
  <1>1. /\ Employer!TypeOK /\ Employer!SubmissionsOK /\ Employer!InsertsApart
        /\ \A u \in Txns : Employer!RequestOK(u)
    BY DEF Employer!IInv
  <1>2. /\ employerPc'[t] = p /\ employerReq'[t] = r
        /\ \A u \in Txns : /\ u # t => /\ employerPc'[u] = employerPc[u]
                                       /\ employerReq'[u] = employerReq[u]
    BY <1>1 DEF Employer!TypeOK
  <1>3. Employer!TypeOK'
    BY <1>1 DEF Employer!TypeOK, EmployerPcs
  <1>4. FilesStay /\ EmployerStays
    BY DEF FilesStay, EmployerStays, Employer!Exists
  <1>5. Employer!Open' = Employer!Open
    BY DEF Employer!Open
  <1>6. ASSUME NEW u \in Txns PROVE Employer!RequestOK(u)'
    <2>1. CASE u = t
      BY <2>1
    <2>2. CASE u # t
      <3>1. employerReq[u].op = "submit" /\ employerPc[u] \in Employer!Holding =>
              /\ submission'[employerReq[u].target].status = Null
              /\ review => Employer!Open' = {}
        BY <1>1, <1>5 DEF Employer!RequestOK
      <3>2. QED
        BY <1>1, <1>2, <1>4, <2>2, <3>1, EmployerOthers
    <2>3. QED
      BY <2>1, <2>2
  <1>7. Employer!InsertsApart'
    BY <1>1, <1>2 DEF Employer!InsertsApart
  <1>8. Employer!SubmissionsOK'
    BY <1>1, <1>5 DEF Employer!SubmissionsOK, Employer!EvidenceOnFile, Employer!Exists
  <1>9. Employer!DerivedAgrees'
    BY DEF Employer!IInv, Employer!DerivedAgrees, Employer!Exists, Employer!CompanyFilled
  <1>10. Employer!OneOpenSubmission' /\ Employer!HistoryNamesStatus'
    BY <1>5 DEF Employer!IInv, Employer!OneOpenSubmission, Employer!HistoryNamesStatus
  <1>11. QED
    BY <1>3, <1>6, <1>7, <1>8, <1>9, <1>10 DEF Employer!IInv

\* A file that comes or goes changes nothing of the employer's records.
LEMMA EmployerOverFiles ==
  ASSUME Employer!IInv, UNCHANGED employers, FilesStay
  PROVE  Employer!IInv'
  <1>1. /\ Employer!TypeOK /\ Employer!SubmissionsOK /\ Employer!InsertsApart
        /\ \A u \in Txns : Employer!RequestOK(u)
    BY DEF Employer!IInv
  <1>2. UNCHANGED <<review, profile, company, submission, history, employerPc, employerReq>>
    BY DEF employers
  <1>3. Employer!TypeOK'
    BY <1>1, <1>2 DEF Employer!TypeOK
  <1>4. EmployerStays
    BY <1>2 DEF EmployerStays, Employer!Exists
  <1>5. Employer!Open' = Employer!Open
    BY <1>2 DEF Employer!Open
  <1>6. ASSUME NEW u \in Txns PROVE Employer!RequestOK(u)'
    <2>1. employerReq[u].op = "submit" /\ employerPc[u] \in Employer!Holding =>
            /\ submission'[employerReq[u].target].status = Null
            /\ review => Employer!Open' = {}
      BY <1>1, <1>2, <1>5 DEF Employer!RequestOK
    <2>2. employerPc'[u] = employerPc[u] /\ employerReq'[u] = employerReq[u]
      BY <1>2
    <2>3. QED
      BY <1>1, <1>4, <2>1, <2>2, EmployerOthers
  <1>7. Employer!InsertsApart'
    BY <1>1, <1>2 DEF Employer!InsertsApart
  <1>8. Employer!SubmissionsOK'
    <2>1. /\ Employer!EvidenceOnFile => Employer!EvidenceOnFile'
          /\ \A s \in Submissions : submission[s].status # Null =>
               \A f \in submission'[s].files : [g \in Ids |-> file'[g].purpose][f] # Null
      BY <1>1, <1>2, EvidenceStays
    <2>2. QED
      BY <1>1, <1>2, <1>5, <2>1 DEF Employer!SubmissionsOK, Employer!Exists
  <1>9. Employer!DerivedAgrees'
    BY <1>2 DEF Employer!IInv, Employer!DerivedAgrees, Employer!Exists, Employer!CompanyFilled
  <1>10. Employer!OneOpenSubmission' /\ Employer!HistoryNamesStatus'
    BY <1>2, <1>5 DEF Employer!IInv, Employer!OneOpenSubmission, Employer!HistoryNamesStatus
  <1>11. QED
    BY <1>3, <1>6, <1>7, <1>8, <1>9, <1>10 DEF Employer!IInv

--------------------------------------------------------------------------------
(* Employers: the steps *)

LEMMA EmployerNoRequest ==
  /\ Employer!NoRequest \in Employer!Request
  /\ Employer!NoRequest.op = Null /\ Employer!NoRequest.target = Null
  /\ Null \notin Employer!Ops /\ Null \notin Employer!Statuses /\ Null \notin Submissions
  BY NullAssumption DEF Employer!NoRequest, Employer!Request

\* Whoever is refused, or rolled back, leaves no trace.
LEMMA EmployerRefuse ==
  ASSUME Employer!IInv, UNCHANGED files, NEW t \in Txns, Employer!Refuse(t)
  PROVE  Employer!IInv'
  <1> DEFINE r == Employer!NoRequest
  <1>1. /\ employerPc' = [employerPc EXCEPT ![t] = "idle"]
        /\ employerReq' = [employerReq EXCEPT ![t] = r]
        /\ UNCHANGED <<profile, company, submission, history, review, file>>
        /\ r \in Employer!Request /\ r.op = Null /\ r.target = Null /\ "idle" \in EmployerPcs
    BY EmployerNoRequest
    DEF Employer!Refuse, Employer!Finish, Employer!Goto, Employer!tables, files, EmployerPcs
  <1>2. employerPc'[t] = "idle" /\ employerReq'[t] = r
    BY <1>1 DEF Employer!IInv, Employer!TypeOK
  <1> HIDE DEF r
  <1>3. r.op # "submit" /\ r.op # "decide" /\ r.op # "upsert"
    BY <1>1, EmployerNoRequest DEF Employer!Ops
  <1>4. Employer!RequestOK(t)'
    BY <1>1, <1>2, <1>3 DEF Employer!RequestOK
  <1>5. QED
    BY <1>1, <1>3, <1>4, EmployerPlain

\* A request goes on; what it has inserted, if anything, is its own.
LEMMA EmployerContinue ==
  ASSUME Employer!IInv, UNCHANGED files, NEW t \in Txns, NEW p \in EmployerPcs,
         NEW r \in Employer!Request, Employer!Continue(t, p, r),
         Employer!RequestOK(t)',
         r.op = "submit" /\ p \in Employer!Holding =>
           \A u \in Txns : (/\ u # t /\ employerReq[u].op = "submit"
                            /\ employerPc[u] \in Employer!Holding) =>
             r.target # employerReq[u].target /\ ~review
  PROVE  Employer!IInv'
  <1>1. /\ employerPc' = [employerPc EXCEPT ![t] = p]
        /\ employerReq' = [employerReq EXCEPT ![t] = r]
        /\ UNCHANGED <<profile, company, submission, history, review, file>>
    BY DEF Employer!Continue, Employer!Goto, Employer!tables, files
  <1>2. QED
    BY <1>1, EmployerPlain

LEMMA EmployerMoved ==
  ASSUME Employer!TypeOK, UNCHANGED files, NEW t \in Txns, NEW p, NEW r,
         Employer!Continue(t, p, r)
  PROVE  /\ employerPc'[t] = p /\ employerReq'[t] = r
         /\ UNCHANGED <<profile, company, submission, history, review, file>>
  BY DEF Employer!Continue, Employer!Goto, Employer!tables, files, Employer!TypeOK

\* A request arrives.
LEMMA EmployerArrive ==
  ASSUME Employer!IInv, UNCHANGED files, NEW t \in Txns, NEW p \in EmployerPcs,
         NEW r \in Employer!Request, Employer!Arrive(t, p, r), r.target = Null,
         \/ /\ r.op = "upsert" /\ p = "row" /\ r.type \in Employer!Types
         \/ /\ r.op = "submit" /\ p = "files" /\ Employer!Exists /\ r.type = profile.type
            /\ r.read \in Employer!Statuses /\ r.to = Employer!Decided /\ r.files \in Evidence
         \/ /\ r.op = "decide" /\ p = "find" /\ Employer!Exists
            /\ profile.status # "not_submitted" /\ r.read = "under_review"
            /\ r.to \in Employer!Decisions
  PROVE  Employer!IInv'
  <1>1. /\ employerPc' = [employerPc EXCEPT ![t] = p]
        /\ employerReq' = [employerReq EXCEPT ![t] = r]
        /\ UNCHANGED <<profile, company, submission, history, review, file>>
    BY DEF Employer!Arrive, Employer!tables, files
  <1>2. employerPc'[t] = p /\ employerReq'[t] = r
    BY <1>1 DEF Employer!IInv, Employer!TypeOK
  <1>3. Employer!RequestOK(t)'
    BY <1>1, <1>2 DEF Employer!RequestOK, Employer!Holding, Employer!SubmitPcs,
       Employer!DecidePcs, Employer!Ops, Employer!Exists, Employer!Decided
  <1>4. ~(r.op = "submit" /\ p \in Employer!Holding)
    BY DEF Employer!Holding
  <1>5. QED
    BY <1>1, <1>3, <1>4, EmployerPlain

LEMMA EmployerBegins ==
  ASSUME Employer!IInv, UNCHANGED files, NEW t \in Txns,
         \/ \E type \in Employer!Types, answers \in Answers :
              Employer!BeginUpsert(t, type, answers)
         \/ \E evidence \in Evidence : Employer!BeginSubmit(t, evidence)
         \/ \E to \in Employer!Decisions, reasoned \in BOOLEAN :
              Employer!BeginDecide(t, to, reasoned)
  PROVE  Employer!IInv'
  <1>1. ASSUME NEW type \in Employer!Types, NEW answers \in Answers,
               Employer!BeginUpsert(t, type, answers)
        PROVE  Employer!IInv'
    <2> DEFINE r == [Employer!NoRequest EXCEPT !.op = "upsert", !.type = type,
                                               !.answers = answers]
    <2>1. /\ r \in Employer!Request /\ r.op = "upsert" /\ r.type = type /\ r.target = Null
      BY DEF Employer!NoRequest, Employer!Request, Employer!Ops
    <2>2. Employer!Arrive(t, "row", r) /\ "row" \in EmployerPcs
      BY <1>1 DEF Employer!BeginUpsert, EmployerPcs
    <2> HIDE DEF r
    <2>3. QED
      BY <2>1, <2>2, EmployerArrive
  <1>2. ASSUME NEW evidence \in Evidence, Employer!BeginSubmit(t, evidence)
        PROVE  Employer!IInv'
    <2> DEFINE r == [Employer!NoRequest EXCEPT !.op = "submit", !.type = profile.type,
                       !.files = evidence, !.to = Employer!Decided, !.read = profile.status]
    <2>1. /\ profile.type \in Employer!Types \cup {Null}
          /\ profile.status \in Employer!Statuses
      BY EmployerTypes DEF Employer!IInv
    <2>2. Employer!Decided \in Employer!Statuses
      BY DEF Employer!Decided, Employer!Statuses
    <2>3. /\ r \in Employer!Request /\ r.op = "submit" /\ r.type = profile.type
          /\ r.target = Null /\ r.read = profile.status /\ r.to = Employer!Decided
          /\ r.files = evidence
      BY <2>1, <2>2 DEF Employer!NoRequest, Employer!Request, Employer!Ops
    <2>4. Employer!Arrive(t, "files", r) /\ "files" \in EmployerPcs /\ Employer!Exists
      BY <1>2 DEF Employer!BeginSubmit, EmployerPcs
    <2> HIDE DEF r
    <2>5. QED
      BY <2>1, <2>3, <2>4, EmployerArrive
  <1>3. ASSUME NEW to \in Employer!Decisions, NEW reasoned \in BOOLEAN,
               Employer!BeginDecide(t, to, reasoned)
        PROVE  Employer!IInv'
    <2> DEFINE r == [Employer!NoRequest EXCEPT !.op = "decide", !.to = to,
                                               !.read = profile.status]
    <2>1. profile.status = "under_review" /\ Employer!Exists
      BY <1>3 DEF Employer!BeginDecide
    <2>2. /\ r \in Employer!Request /\ r.op = "decide" /\ r.to = to
          /\ r.target = Null /\ r.read = "under_review"
      BY <2>1 DEF Employer!NoRequest, Employer!Request, Employer!Ops, Employer!Decisions,
         Employer!Statuses
    <2>3. Employer!Arrive(t, "find", r) /\ "find" \in EmployerPcs
      BY <1>3 DEF Employer!BeginDecide, EmployerPcs
    <2> HIDE DEF r
    <2>4. QED
      BY <2>1, <2>2, <2>3, EmployerArrive
  <1>4. QED
    BY <1>1, <1>2, <1>3

LEMMA EmployerLockRow ==
  ASSUME Employer!IInv, UNCHANGED files, NEW t \in Txns, Employer!LockRow(t)
  PROVE  Employer!IInv'
  <1> DEFINE r == employerReq[t]
  <1>1. /\ employerPc[t] = "row" /\ Employer!Continue(t, "commit", r)
        /\ "commit" \in EmployerPcs
    BY DEF Employer!LockRow, EmployerPcs
  <1>2. Employer!RequestOK(t) /\ Employer!TypeOK /\ Employer!InsertsApart
    BY DEF Employer!IInv
  <1>3. r \in Employer!Request
    BY <1>2, EmployerTypes
  <1>4. /\ employerPc'[t] = "commit" /\ employerReq'[t] = r
        /\ UNCHANGED <<profile, company, submission, history, review, file>>
    BY <1>1, <1>2, EmployerMoved
  <1>5. Employer!Open' = Employer!Open
    BY <1>4 DEF Employer!Open
  <1>6. Employer!RequestOK(t)'
    BY <1>1, <1>2, <1>4, <1>5 DEF Employer!RequestOK, Employer!Holding, Employer!SubmitPcs,
       Employer!DecidePcs, Employer!Exists, Employer!Decided, Employer!Covers
  <1>7. r.op = "submit" =>
          \A u \in Txns : (/\ u # t /\ employerReq[u].op = "submit"
                           /\ employerPc[u] \in Employer!Holding) =>
            r.target # employerReq[u].target /\ ~review
    BY <1>1, <1>2 DEF Employer!InsertsApart, Employer!Holding
  <1>8. QED
    BY <1>1, <1>3, <1>6, <1>7, EmployerContinue

\* The files that were found are the employer's, and cover what its type requires.
LEMMA EmployerCheckFiles ==
  ASSUME Employer!IInv, UNCHANGED files, NEW t \in Txns, Employer!CheckFiles(t)
  PROVE  Employer!IInv'
  <1> DEFINE r == employerReq[t]
  <1>1. /\ employerPc[t] = "files" /\ "insert" \in EmployerPcs
        /\ \/ /\ r.files \subseteq File!LiveFiles /\ Employer!Covers(r.files, r.type)
              /\ Employer!Continue(t, "insert", r)
           \/ Employer!Refuse(t)
    BY DEF Employer!CheckFiles, EmployerPcs
  <1>2. Employer!RequestOK(t) /\ Employer!TypeOK
    BY DEF Employer!IInv
  <1>3. CASE Employer!Refuse(t)
    BY <1>3, EmployerRefuse
  <1>4. CASE /\ r.files \subseteq File!LiveFiles /\ Employer!Covers(r.files, r.type)
             /\ Employer!Continue(t, "insert", r)
    <2>1. r \in Employer!Request
      BY <1>2, EmployerTypes
    <2>2. /\ employerPc'[t] = "insert" /\ employerReq'[t] = r
          /\ UNCHANGED <<profile, company, submission, history, review, file>>
      BY <1>2, <1>4, EmployerMoved
    <2>3. \A f \in r.files : f \in Ids /\ file[f].purpose # Null
      BY <1>4 DEF File!LiveFiles, File!Live, File!Exists
    <2>4. r.op = "submit" /\ "insert" \notin Employer!Holding
      BY <1>1, <1>2 DEF Employer!RequestOK, Employer!Holding
    <2>5. Employer!RequestOK(t)'
      BY <1>1, <1>2, <1>4, <2>2, <2>3, <2>4 DEF Employer!RequestOK, Employer!Holding,
         Employer!SubmitPcs, Employer!Exists, Employer!Decided, Employer!Covers
    <2>6. QED
      BY <1>1, <1>4, <2>1, <2>4, <2>5, EmployerContinue
  <1>5. QED
    BY <1>1, <1>3, <1>4

\* The index lets one insert in at a time, and only while nothing is open.
LEMMA EmployerInsert ==
  ASSUME Employer!IInv, UNCHANGED files, NEW t \in Txns, Employer!InsertSubmission(t)
  PROVE  Employer!IInv'
  <1>1. /\ employerPc[t] = "insert" /\ "row" \in EmployerPcs
        /\ review => Employer!OpenWriters(t) = {}
        /\ \/ /\ Employer!MayInsert(t)
              /\ \E s \in Submissions :
                   /\ submission[s] = Employer!NoRow
                   /\ \A u \in Txns : employerReq[u].target # s
                   /\ Employer!Continue(t, "row", [employerReq[t] EXCEPT !.target = s])
           \/ Employer!Refuse(t)
    BY DEF Employer!InsertSubmission, EmployerPcs
  <1>2. /\ Employer!TypeOK /\ Employer!InsertsApart
        /\ \A u \in Txns : Employer!RequestOK(u)
    BY DEF Employer!IInv
  <1>3. CASE Employer!Refuse(t)
    BY <1>3, EmployerRefuse
  <1>4. ASSUME NEW s \in Submissions, submission[s] = Employer!NoRow, Employer!MayInsert(t),
               \A u \in Txns : employerReq[u].target # s,
               Employer!Continue(t, "row", [employerReq[t] EXCEPT !.target = s])
        PROVE  Employer!IInv'
    <2>0. PICK r : r = [employerReq[t] EXCEPT !.target = s]
      OBVIOUS
    <2>1. /\ r \in Employer!Request /\ r.target = s /\ r.op = employerReq[t].op
          /\ r.type = employerReq[t].type /\ r.files = employerReq[t].files
          /\ r.to = employerReq[t].to /\ r.read = employerReq[t].read
      BY <1>2, <2>0, EmployerTypes DEF Employer!Request
    <2>2. /\ employerPc'[t] = "row" /\ employerReq'[t] = r
          /\ UNCHANGED <<profile, company, submission, history, review, file>>
      BY <1>2, <1>4, <2>0, EmployerMoved
    <2>3. r.op = "submit" /\ s # Null /\ submission[s].status = Null
          /\ employerPc[t] # "files"
      BY <1>1, <1>2, <1>4, <2>1, EmployerNoRequest DEF Employer!RequestOK, Employer!NoRow
    <2>4. Employer!Open' = Employer!Open /\ (review => Employer!Open = {})
      BY <1>4, <2>2 DEF Employer!Open, Employer!MayInsert
    <2>5. Employer!RequestOK(t)'
      <3>1. /\ Employer!Exists' /\ r.type = profile'.type
            /\ r.read \in Employer!Statuses /\ r.to = Employer!Decided' /\ r.files \in Evidence
        BY <1>2, <2>1, <2>2, <2>3 DEF Employer!RequestOK, Employer!Exists, Employer!Decided
      <3>2. /\ \A f \in r.files : [g \in Ids |-> file'[g].purpose][f] # Null
            /\ Employer!Covers(r.files, r.type)'
        <4>1. /\ \A f \in r.files : [g \in Ids |-> file[g].purpose][f] # Null
              /\ Employer!Covers(r.files, r.type)
          BY <1>2, <2>1, <2>3 DEF Employer!RequestOK
        <4>2. [g \in Ids |-> file'[g].purpose] = [g \in Ids |-> file[g].purpose]
          BY <2>2
        <4>3. Employer!Covers(r.files, r.type)'
          BY <4>1, <4>2 DEF Employer!Covers
        <4>4. QED
          BY <4>1, <4>2, <4>3
      <3>3. submission'[s].status = Null /\ (review' => Employer!Open' = {})
        BY <2>2, <2>3, <2>4
      <3>4. r.op \in Employer!Ops /\ r.op # "upsert" /\ r.op # "decide"
        BY <2>3 DEF Employer!Ops
      <3>5. "row" \in Employer!Holding /\ "row" \in Employer!SubmitPcs
        BY DEF Employer!Holding, Employer!SubmitPcs
      <3>6. QED
        BY <2>1, <2>2, <2>3, <3>1, <3>2, <3>3, <3>4, <3>5 DEF Employer!RequestOK
    <2>6. \A u \in Txns : (/\ u # t /\ employerReq[u].op = "submit"
                           /\ employerPc[u] \in Employer!Holding) =>
            r.target # employerReq[u].target /\ ~review
      BY <1>1, <1>2, <1>4, <2>1 DEF Employer!RequestOK, Employer!OpenWriters, Employer!Holding
    <2>7. Employer!Continue(t, "row", r)
      BY <1>4, <2>0
    <2>8. QED
      BY <1>1, <2>1, <2>5, <2>6, <2>7, EmployerContinue
  <1>5. QED
    BY <1>1, <1>3, <1>4

\* A decision takes the submission that is open, or none.
LEMMA EmployerTake ==
  ASSUME Employer!IInv, UNCHANGED files, NEW t \in Txns,
         Employer!FindOpen(t) \/ Employer!TakeOpen(t)
  PROVE  Employer!IInv'
  <1>1. Employer!RequestOK(t) /\ Employer!TypeOK
    BY DEF Employer!IInv
  <1>2. PICK p \in {"take", "row"}, s \in Employer!Open \cup {Null} :
          Employer!Continue(t, p, [employerReq[t] EXCEPT !.target = s])
    <2>1. CASE Employer!FindOpen(t)
      BY <2>1 DEF Employer!FindOpen
    <2>2. CASE Employer!TakeOpen(t)
      BY <2>2 DEF Employer!TakeOpen
    <2>3. QED
      BY <2>1, <2>2
  <1>3. employerPc[t] \in {"find", "take"} /\ p \in EmployerPcs
    BY DEF Employer!FindOpen, Employer!TakeOpen, EmployerPcs
  <1> DEFINE r == [employerReq[t] EXCEPT !.target = s]
  <1>4. s \in Submissions \cup {Null} /\ (s # Null => submission[s].status # Null)
    BY EmployerNoRequest DEF Employer!Open, Employer!Statuses
  <1>5. /\ r \in Employer!Request /\ r.target = s /\ r.op = employerReq[t].op
        /\ r.to = employerReq[t].to /\ r.read = employerReq[t].read
    BY <1>1, <1>4, EmployerTypes DEF Employer!Request
  <1>6. /\ employerPc'[t] = p /\ employerReq'[t] = r
        /\ UNCHANGED <<profile, company, submission, history, review, file>>
    BY <1>1, <1>2, EmployerMoved
  <1>7. Employer!Continue(t, p, r)
    BY <1>2
  <1> HIDE DEF r
  <1>8. r.op = "decide" /\ r.op # Null
    BY <1>1, <1>3, <1>5, EmployerNoRequest DEF Employer!RequestOK, Employer!Ops
  <1>9. Employer!RequestOK(t)'
    BY <1>1, <1>3, <1>4, <1>5, <1>6, <1>8 DEF Employer!RequestOK, Employer!Holding,
       Employer!DecidePcs, Employer!Exists, Employer!Ops
  <1>10. QED
    BY <1>3, <1>5, <1>7, <1>8, <1>9, EmployerContinue

LEMMA EmployerFinished ==
  ASSUME Employer!TypeOK, UNCHANGED files, NEW t \in Txns, Employer!Finish(t)
  PROVE  /\ employerPc' \in [Txns -> EmployerPcs]
         /\ employerReq' \in [Txns -> Employer!Request]
         /\ employerPc'[t] = "idle" /\ employerReq'[t] = Employer!NoRequest
         /\ \A u \in Txns : u # t => employerPc'[u] = employerPc[u] /\ employerReq'[u] = employerReq[u]
         /\ UNCHANGED <<review, file>> /\ FilesStay
         /\ Employer!RequestOK(t)'
  <1>1. /\ employerPc' = [employerPc EXCEPT ![t] = "idle"]
        /\ employerReq' = [employerReq EXCEPT ![t] = Employer!NoRequest]
        /\ UNCHANGED <<review, file>>
    BY DEF Employer!Finish, Employer!Goto, files
  <1>2. /\ employerPc'[t] = "idle" /\ employerReq'[t] = Employer!NoRequest
        /\ \A u \in Txns : u # t => employerPc'[u] = employerPc[u] /\ employerReq'[u] = employerReq[u]
    BY <1>1 DEF Employer!TypeOK
  <1>3. /\ employerPc' \in [Txns -> EmployerPcs] /\ employerReq' \in [Txns -> Employer!Request]
    BY <1>1, EmployerNoRequest DEF Employer!TypeOK, EmployerPcs
  <1>4. Employer!RequestOK(t)'
    <2>1. /\ Employer!NoRequest.op # "submit" /\ Employer!NoRequest.op # "decide"
          /\ Employer!NoRequest.op # "upsert"
      BY EmployerNoRequest DEF Employer!Ops
    <2>2. QED
      BY <1>2, <2>1, EmployerNoRequest DEF Employer!RequestOK
  <1>5. FilesStay
    BY <1>1 DEF FilesStay
  <1>6. QED
    BY <1>1, <1>2, <1>3, <1>4, <1>5

\* What is left to show of a transaction that ends with applyStatus.
LEMMA EmployerApply ==
  ASSUME Employer!IInv, UNCHANGED files, NEW t \in Txns, Employer!Finish(t),
         NEW from \in Employer!Statuses, NEW to \in Employer!Statuses, to # "not_submitted",
         Employer!ApplyStatus(from, to), UNCHANGED company, Employer!Exists,
         submission' \in [Submissions -> Employer!Row],
         \A s \in Submissions : submission[s].status # Null => submission'[s].status # Null,
         Employer!EvidenceOnFile',
         \A s \in Submissions :
           IF submission'[s].status = Null THEN submission'[s] = Employer!NoRow
           ELSE \A f \in submission'[s].files : [g \in Ids |-> file'[g].purpose][f] # Null,
         ~review => Employer!Open' = {}, Employer!OneOpenSubmission',
         \A u \in Txns \ {t} :
           employerReq[u].op = "submit" /\ employerPc[u] \in Employer!Holding =>
             /\ submission'[employerReq[u].target].status = Null
             /\ review => Employer!Open' = {}
  PROVE  Employer!IInv'
  <1>1. /\ Employer!TypeOK /\ Employer!SubmissionsOK /\ Employer!InsertsApart
        /\ \A u \in Txns : Employer!RequestOK(u)
    BY DEF Employer!IInv
  <1>2. /\ employerPc' \in [Txns -> EmployerPcs]
        /\ employerReq' \in [Txns -> Employer!Request]
        /\ employerPc'[t] = "idle" /\ employerReq'[t] = Employer!NoRequest
        /\ \A u \in Txns : u # t => employerPc'[u] = employerPc[u] /\ employerReq'[u] = employerReq[u]
        /\ UNCHANGED <<review, file>> /\ FilesStay
        /\ Employer!RequestOK(t)'
    BY <1>1, EmployerFinished
  <1>3. /\ profile' \in Employer!Profile
        /\ profile'.type = profile.type /\ profile'.filled = profile.filled
        /\ profile'.percent = profile.percent /\ profile'.complete = profile.complete
        /\ profile'.status = to
        /\ profile'.stamped <=> to = "verified"
    BY <1>1 DEF Employer!ApplyStatus, Employer!WithStatus, Employer!TypeOK, Employer!Profile
  <1>4. history' \in Seq(Employer!HistoryRow) /\ history' # << >> /\ history'[Len(history')].to = to
    <2>1. history \in Seq(Employer!HistoryRow) /\ [from |-> from, to |-> to] \in Employer!HistoryRow
      BY <1>1 DEF Employer!TypeOK, Employer!HistoryRow
    <2>2. history' = Append(history, [from |-> from, to |-> to])
      BY DEF Employer!ApplyStatus
    <2>3. PICK row \in Employer!HistoryRow : row = [from |-> from, to |-> to]
      BY <2>1
    <2>4. row.to = to
      BY <2>3
    <2>5. QED
      BY <2>1, <2>2, <2>3, <2>4
  <1>5. Employer!TypeOK'
    BY <1>1, <1>2, <1>3, <1>4 DEF Employer!TypeOK, EmployerPcs
  <1>6. Employer!Exists'
    BY <1>3 DEF Employer!Exists
  <1>7. Employer!DerivedAgrees'
    <2>1. Employer!CompanyFilled' = Employer!CompanyFilled
      BY DEF Employer!CompanyFilled
    <2>2. PICK filled : filled = Employer!CompanyFilled
      OBVIOUS
    <2>3. profile \in Employer!Profile
      BY <1>1 DEF Employer!TypeOK
    <2>4. /\ Employer!Derived(profile, filled).percent = Employer!Derived(profile', filled).percent
          /\ Employer!Derived(profile, filled).complete = Employer!Derived(profile', filled).complete
      BY <1>3, <2>3, DerivedSame
    <2>5. /\ profile.percent = Employer!Derived(profile, filled).percent
          /\ profile.complete <=> Employer!Derived(profile, filled).complete
          /\ profile.complete <=> profile.percent = 100
      BY <2>2 DEF Employer!IInv, Employer!DerivedAgrees
    <2>6. Employer!CompanyFilled' = filled
      BY <2>1, <2>2
    <2>7. QED
      BY <1>3, <2>4, <2>5, <2>6 DEF Employer!DerivedAgrees
  <1>8. EmployerStays
    BY <1>2, <1>3, <1>6 DEF EmployerStays
  <1>9. ASSUME NEW u \in Txns PROVE Employer!RequestOK(u)'
    <2>1. CASE u = t
      BY <1>2, <2>1
    <2>2. CASE u # t
      BY <1>1, <1>2, <1>8, <2>2, EmployerOthers
    <2>3. QED
      BY <2>1, <2>2
  <1>10. Employer!InsertsApart'
    <2>1. employerReq'[t].op # "submit"
      BY <1>2, EmployerNoRequest DEF Employer!Ops
    <2>2. QED
      BY <1>1, <1>2, <2>1 DEF Employer!InsertsApart
  <1>11. Employer!SubmissionsOK'
    BY <1>2, <1>6 DEF Employer!SubmissionsOK
  <1>12. Employer!HistoryNamesStatus'
    BY <1>3, <1>4 DEF Employer!HistoryNamesStatus
  <1>13. QED
    BY <1>5, <1>7, <1>9, <1>10, <1>11, <1>12 DEF Employer!IInv

\* A submission appears, with the files that cover the type.
LEMMA EmployerCommitSubmit ==
  ASSUME Employer!IInv, UNCHANGED files, NEW t \in Txns, Employer!CommitSubmit(t)
  PROVE  Employer!IInv'
  <1>1. PICK r : r = employerReq[t]
    OBVIOUS
  <1>2. PICK new : new = [status |-> r.to, files |-> r.files]
    OBVIOUS
  <1>3. /\ employerPc[t] = "commit" /\ r.op = "submit"
        /\ submission' = [submission EXCEPT ![r.target] = new]
        /\ Employer!ApplyStatus(r.read, r.to) /\ Employer!Finish(t) /\ UNCHANGED company
    BY <1>1, <1>2 DEF Employer!CommitSubmit
  <1>4. /\ Employer!TypeOK /\ Employer!SubmissionsOK /\ Employer!InsertsApart
        /\ Employer!OneOpenSubmission /\ \A u \in Txns : Employer!RequestOK(u)
    BY DEF Employer!IInv
  <1>5. UNCHANGED <<review, file>> /\ FilesStay
    BY <1>3, <1>4, EmployerFinished
  <1>6. employerPc[t] \in Employer!Holding /\ employerPc[t] # "files"
    BY <1>3 DEF Employer!Holding
  <1>7. /\ Employer!Exists /\ r.type = profile.type /\ r.read \in Employer!Statuses
        /\ r.to = Employer!Decided /\ r.files \in Evidence /\ r.files \subseteq Ids
        /\ r.target \in Submissions /\ submission[r.target].status = Null
        /\ review => Employer!Open = {}
        /\ \A f \in r.files : [g \in Ids |-> file[g].purpose][f] # Null
        /\ Employer!RequiredEvidence(r.type) \subseteq
             {[g \in Ids |-> file[g].purpose][f] : f \in r.files}
    BY <1>1, <1>3, <1>4, <1>6, EmployerTypes DEF Employer!RequestOK, Employer!Covers
  <1>8. /\ r.to = IF review THEN "under_review" ELSE "verified"
        /\ r.to \in Employer!Statuses /\ r.to # "not_submitted" /\ r.to # Null
    BY <1>7, EmployerNoRequest DEF Employer!Decided, Employer!Statuses
  <1>9. new \in Employer!Row /\ new.status = r.to /\ new.files = r.files
    BY <1>2, <1>7, <1>8 DEF Employer!Row
  <1>10. /\ submission' \in [Submissions -> Employer!Row]
         /\ submission'[r.target] = new
         /\ \A s \in Submissions : s # r.target => submission'[s] = submission[s]
    BY <1>3, <1>4, <1>7, <1>9 DEF Employer!TypeOK
  <1>11. \A s \in Submissions : submission[s].status # Null => submission'[s].status # Null
    BY <1>8, <1>9, <1>10
  <1>12. profile'.type = profile.type
    BY <1>3, <1>4 DEF Employer!ApplyStatus, Employer!WithStatus, Employer!TypeOK,
       Employer!Profile
  <1>13. Employer!EvidenceOnFile'
    <2>1. \A code \in Employer!RequiredEvidence(profile'.type) :
            \E f \in submission'[r.target].files : [g \in Ids |-> file'[g].purpose][f] = code
      BY <1>5, <1>7, <1>9, <1>10, <1>12
    <2>2. submission'[r.target].status # Null
      BY <1>8, <1>9, <1>10
    <2>3. QED
      BY <1>7, <2>1, <2>2 DEF Employer!EvidenceOnFile
  <1>14. \A s \in Submissions :
           IF submission'[s].status = Null THEN submission'[s] = Employer!NoRow
           ELSE \A f \in submission'[s].files : [g \in Ids |-> file'[g].purpose][f] # Null
    <2>1. [g \in Ids |-> file'[g].purpose] = [g \in Ids |-> file[g].purpose]
      BY <1>5
    <2>2. /\ submission'[r.target].status # Null
          /\ \A f \in submission'[r.target].files : [g \in Ids |-> file'[g].purpose][f] # Null
      BY <1>7, <1>8, <1>9, <1>10, <2>1
    <2>3. \A s \in Submissions :
            IF submission[s].status = Null THEN submission[s] = Employer!NoRow
            ELSE \A f \in submission[s].files : [g \in Ids |-> file'[g].purpose][f] # Null
      BY <1>4, <2>1 DEF Employer!SubmissionsOK
    <2>4. QED
      BY <1>10, <2>2, <2>3
  <1>15. Employer!Open = {}
    BY <1>4, <1>7 DEF Employer!SubmissionsOK
  <1>16. Employer!Open' = IF review THEN {r.target} ELSE {}
    BY <1>7, <1>8, <1>9, <1>10, <1>15 DEF Employer!Open
  <1>17. Employer!OneOpenSubmission'
    BY <1>16 DEF Employer!OneOpenSubmission
  <1>18. \A u \in Txns \ {t} :
           employerReq[u].op = "submit" /\ employerPc[u] \in Employer!Holding =>
             /\ submission'[employerReq[u].target].status = Null
             /\ review => Employer!Open' = {}
    <2> SUFFICES ASSUME NEW u \in Txns \ {t}, employerReq[u].op = "submit",
                        employerPc[u] \in Employer!Holding
                 PROVE  /\ submission'[employerReq[u].target].status = Null
                        /\ ~review
      OBVIOUS
    <2>1. employerReq[u].target # r.target /\ ~review
      BY <1>1, <1>3, <1>4, <1>6 DEF Employer!InsertsApart
    <2>2. employerReq[u].target \in Submissions
          /\ submission[employerReq[u].target].status = Null
      BY <1>4, EmployerTypes DEF Employer!RequestOK
    <2>3. QED
      BY <1>10, <2>1, <2>2
  <1>19. QED
    BY <1>3, <1>7, <1>8, <1>10, <1>11, <1>13, <1>14, <1>16, <1>17, <1>18, EmployerApply

\* A decision closes the submission it has taken.
LEMMA EmployerCommitDecide ==
  ASSUME Employer!IInv, UNCHANGED files, NEW t \in Txns, Employer!CommitDecide(t)
  PROVE  Employer!IInv'
  <1>1. PICK r : r = employerReq[t]
    OBVIOUS
  <1>2. /\ employerPc[t] = "commit" /\ r.op = "decide"
        /\ submission' = [s \in Submissions |->
             IF s = r.target THEN [submission[s] EXCEPT !.status = r.to] ELSE submission[s]]
        /\ Employer!ApplyStatus(r.read, r.to) /\ Employer!Finish(t) /\ UNCHANGED company
    BY <1>1 DEF Employer!CommitDecide
  <1>3. /\ Employer!TypeOK /\ Employer!SubmissionsOK /\ Employer!InsertsApart
        /\ Employer!OneOpenSubmission /\ \A u \in Txns : Employer!RequestOK(u)
    BY DEF Employer!IInv
  <1>4. UNCHANGED <<review, file>> /\ FilesStay
    BY <1>2, <1>3, EmployerFinished
  <1>5. /\ Employer!Exists /\ profile.status # "not_submitted"
        /\ r.read = "under_review" /\ r.to \in Employer!Decisions
        /\ r.target # Null => submission[r.target].status # Null
        /\ r.target \in Submissions \cup {Null}
    BY <1>1, <1>2, <1>3, EmployerTypes DEF Employer!RequestOK
  <1>6. /\ r.to \in Employer!Statuses /\ r.to # "not_submitted" /\ r.to # "under_review"
        /\ r.to # Null /\ r.read \in Employer!Statuses
    BY <1>5, EmployerNoRequest DEF Employer!Decisions, Employer!Statuses
  <1>7. \A s \in Submissions :
          /\ submission'[s] \in Employer!Row
          /\ submission'[s].files = submission[s].files
          /\ submission'[s].status = IF s = r.target THEN r.to ELSE submission[s].status
          /\ s # r.target => submission'[s] = submission[s]
    <2> SUFFICES ASSUME NEW s \in Submissions
                 PROVE  /\ submission'[s] \in Employer!Row
                        /\ submission'[s].files = submission[s].files
                        /\ submission'[s].status = IF s = r.target THEN r.to
                                                   ELSE submission[s].status
                        /\ s # r.target => submission'[s] = submission[s]
      OBVIOUS
    <2>1. submission[s] \in Employer!Row
      BY <1>3 DEF Employer!TypeOK
    <2>2. CASE s = r.target
      <3>1. submission'[s] = [submission[s] EXCEPT !.status = r.to]
        BY <1>2, <2>2
      <3>2. QED
        BY <1>6, <2>1, <2>2, <3>1 DEF Employer!Row
    <2>3. CASE s # r.target
      BY <1>2, <2>1, <2>3
    <2>4. QED
      BY <2>2, <2>3
  <1>8. submission' \in [Submissions -> Employer!Row]
    BY <1>2, <1>7
  <1>9. \A s \in Submissions : submission'[s].status = Null <=> submission[s].status = Null
    BY <1>5, <1>6, <1>7, EmployerNoRequest
  <1>10. profile'.type = profile.type
    BY <1>2, <1>3 DEF Employer!ApplyStatus, Employer!WithStatus, Employer!TypeOK,
       Employer!Profile
  <1>11. /\ Employer!EvidenceOnFile => Employer!EvidenceOnFile'
         /\ \A s \in Submissions : submission[s].status # Null =>
              \A f \in submission'[s].files : [g \in Ids |-> file'[g].purpose][f] # Null
    BY <1>3, <1>4, <1>7, <1>9, <1>10, EvidenceStays
  <1>12. Employer!EvidenceOnFile'
    BY <1>3, <1>5, <1>11 DEF Employer!SubmissionsOK
  <1>13. \A s \in Submissions :
           IF submission'[s].status = Null THEN submission'[s] = Employer!NoRow
           ELSE \A f \in submission'[s].files : [g \in Ids |-> file'[g].purpose][f] # Null
    <2>1. \A s \in Submissions : submission'[s].status = Null => submission'[s] = submission[s]
      BY <1>6, <1>7
    <2>2. QED
      BY <1>3, <1>9, <1>11, <2>1 DEF Employer!SubmissionsOK
  <1>14. Employer!Open' \subseteq Employer!Open
    BY <1>6, <1>7 DEF Employer!Open
  <1>15. (~review => Employer!Open' = {}) /\ Employer!OneOpenSubmission'
    BY <1>3, <1>4, <1>14 DEF Employer!SubmissionsOK, Employer!OneOpenSubmission
  <1>16. \A u \in Txns \ {t} :
           employerReq[u].op = "submit" /\ employerPc[u] \in Employer!Holding =>
             /\ submission'[employerReq[u].target].status = Null
             /\ review => Employer!Open' = {}
    <2> SUFFICES ASSUME NEW u \in Txns \ {t}, employerReq[u].op = "submit",
                        employerPc[u] \in Employer!Holding
                 PROVE  /\ submission'[employerReq[u].target].status = Null
                        /\ review => Employer!Open' = {}
      OBVIOUS
    <2>1. /\ employerReq[u].target \in Submissions
          /\ submission[employerReq[u].target].status = Null
          /\ review => Employer!Open = {}
      BY <1>3, EmployerTypes DEF Employer!RequestOK
    <2>2. QED
      BY <1>9, <1>14, <2>1
  <1>17. QED
    BY <1>2, <1>5, <1>6, <1>8, <1>9, <1>12, <1>13, <1>15, <1>16, EmployerApply

\* A form is saved, and what is derived from it; another type's form leaves the type.
LEMMA EmployerCommitUpsert ==
  ASSUME Employer!IInv, UNCHANGED files, NEW t \in Txns, Employer!CommitUpsert(t)
  PROVE  Employer!IInv'
  <1>1. PICK r : r = employerReq[t]
    OBVIOUS
  <1>2. PICK type : type = IF Employer!Exists THEN profile.type ELSE r.type
    OBVIOUS
  <1>3. PICK row : row = [profile EXCEPT !.type = type,
                                         !.filled = r.answers \cap Employer!EmployerColumns]
    OBVIOUS
  <1>4. PICK filled : filled = Employer!CompanyFilled'
    OBVIOUS
  <1>5. /\ employerPc[t] = "commit" /\ r.op = "upsert"
        /\ company' = IF r.type = "company" THEN r.answers \cap Employer!CompanyColumns
                      ELSE company
        /\ profile' = Employer!Derived(row, filled)
        /\ Employer!Finish(t) /\ UNCHANGED <<submission, history>>
    <2>1. [profile EXCEPT !.type = IF Employer!Exists THEN @ ELSE r.type,
                          !.filled = r.answers \cap Employer!EmployerColumns] = row
      BY <1>2, <1>3
    <2>2. QED
      BY <1>1, <1>4, <2>1 DEF Employer!CommitUpsert, Employer!Stored
  <1>6. /\ Employer!TypeOK /\ Employer!SubmissionsOK /\ Employer!InsertsApart
        /\ Employer!OneOpenSubmission /\ Employer!HistoryNamesStatus
        /\ \A u \in Txns : Employer!RequestOK(u)
    BY DEF Employer!IInv
  <1>7. /\ employerPc' \in [Txns -> EmployerPcs]
        /\ employerReq' \in [Txns -> Employer!Request]
        /\ employerPc'[t] = "idle" /\ employerReq'[t] = Employer!NoRequest
        /\ \A u \in Txns : u # t => employerPc'[u] = employerPc[u] /\ employerReq'[u] = employerReq[u]
        /\ UNCHANGED <<review, file>> /\ FilesStay
        /\ Employer!RequestOK(t)'
    BY <1>5, <1>6, EmployerFinished
  <1>8. type \in Employer!Types
    <2>1. r.type \in Employer!Types
      BY <1>1, <1>5, <1>6 DEF Employer!RequestOK
    <2>2. profile.type \in Employer!Types \cup {Null}
      BY <1>6, EmployerTypes
    <2>3. QED
      BY <1>2, <2>1, <2>2 DEF Employer!Exists
  <1>9. /\ row \in Employer!Profile /\ row.type = type /\ row.status = profile.status
        /\ row.stamped = profile.stamped
    BY <1>3, <1>6, <1>8 DEF Employer!TypeOK, Employer!Profile
  <1>10. /\ profile' \in Employer!Profile /\ profile'.percent <= 100
         /\ profile'.type = type /\ profile'.filled = row.filled
         /\ profile'.status = profile.status /\ profile'.stamped = profile.stamped
         /\ profile'.complete <=> profile'.percent = 100
    BY <1>5, <1>9, DerivedIs
  <1>11. Employer!TypeOK'
    <2>1. company' \in {Null} \cup SUBSET Employer!CompanyColumns
      BY <1>5, <1>6 DEF Employer!TypeOK
    <2>2. QED
      BY <1>5, <1>6, <1>7, <1>10, <2>1 DEF Employer!TypeOK, EmployerPcs
  <1>12. Employer!DerivedAgrees'
    <2>1. /\ Employer!Derived(row, filled).percent = Employer!Derived(profile', filled).percent
          /\ Employer!Derived(row, filled).complete = Employer!Derived(profile', filled).complete
      BY <1>9, <1>10, DerivedSame
    <2>2. QED
      BY <1>4, <1>5, <1>10, <2>1 DEF Employer!DerivedAgrees
  <1>13. Employer!Exists => Employer!Exists' /\ profile'.type = profile.type
    BY <1>2, <1>10 DEF Employer!Exists
  <1>14. EmployerStays
    BY <1>5, <1>7, <1>10, <1>13 DEF EmployerStays
  <1>15. Employer!Open' = Employer!Open
    BY <1>5 DEF Employer!Open
  <1>16. ASSUME NEW u \in Txns PROVE Employer!RequestOK(u)'
    <2>1. CASE u = t
      BY <1>7, <2>1
    <2>2. CASE u # t
      <3>1. employerReq[u].op = "submit" /\ employerPc[u] \in Employer!Holding =>
              /\ submission'[employerReq[u].target].status = Null
              /\ review => Employer!Open' = {}
        BY <1>5, <1>6, <1>15 DEF Employer!RequestOK
      <3>2. QED
        BY <1>6, <1>7, <1>14, <2>2, <3>1, EmployerOthers
    <2>3. QED
      BY <2>1, <2>2
  <1>17. Employer!InsertsApart'
    <2>1. employerReq'[t].op # "submit"
      BY <1>7, EmployerNoRequest DEF Employer!Ops
    <2>2. QED
      BY <1>6, <1>7, <2>1 DEF Employer!InsertsApart
  <1>18. Employer!SubmissionsOK'
    <2>1. profile'.status # "not_submitted" => Employer!Exists' /\ Employer!EvidenceOnFile'
      <3> SUFFICES ASSUME profile'.status # "not_submitted"
                   PROVE  Employer!Exists' /\ Employer!EvidenceOnFile'
        OBVIOUS
      <3>1. Employer!Exists /\ Employer!EvidenceOnFile
        BY <1>6, <1>10 DEF Employer!SubmissionsOK
      <3>2. Employer!EvidenceOnFile => Employer!EvidenceOnFile'
        BY <1>5, <1>6, <1>7, <1>13, <3>1, EvidenceStays
      <3>3. QED
        BY <1>13, <3>1, <3>2
    <2>2. [g \in Ids |-> file'[g].purpose] = [g \in Ids |-> file[g].purpose]
      BY <1>7
    <2>3. QED
      BY <1>5, <1>6, <1>7, <1>15, <2>1, <2>2 DEF Employer!SubmissionsOK
  <1>19. Employer!OneOpenSubmission' /\ Employer!HistoryNamesStatus'
    BY <1>5, <1>6, <1>7, <1>10, <1>15 DEF Employer!OneOpenSubmission,
       Employer!HistoryNamesStatus
  <1>20. QED
    BY <1>11, <1>12, <1>16, <1>17, <1>18, <1>19 DEF Employer!IInv

LEMMA EmployerNext ==
  ASSUME Employer!IInv, UNCHANGED files, Employer!Next
  PROVE  Employer!IInv'
  <1>1. PICK t \in Txns : \/ Employer!Upserting(t) \/ Employer!Submitting(t)
                          \/ Employer!Deciding(t) \/ Employer!Rollback(t)
    BY DEF Employer!Next
  <1>2. CASE Employer!Upserting(t)
    BY <1>2, EmployerBegins, EmployerLockRow, EmployerCommitUpsert DEF Employer!Upserting
  <1>3. CASE Employer!Submitting(t)
    BY <1>3, EmployerBegins, EmployerCheckFiles, EmployerInsert, EmployerCommitSubmit
    DEF Employer!Submitting
  <1>4. CASE Employer!Deciding(t)
    BY <1>4, EmployerBegins, EmployerTake, EmployerCommitDecide DEF Employer!Deciding
  <1>5. CASE Employer!Rollback(t)
    BY <1>5, EmployerRefuse DEF Employer!Rollback
  <1>6. QED
    BY <1>1, <1>2, <1>3, <1>4, <1>5

LEMMA EmployerInit == Employer!Init => Employer!IInv
  <1> SUFFICES ASSUME Employer!Init PROVE Employer!IInv
    OBVIOUS
  <1>1. /\ review \in BOOLEAN /\ submission = [s \in Submissions |-> Employer!NoRow]
        /\ history = << >>
        /\ employerPc = [t \in Txns |-> "idle"]
        /\ employerReq = [t \in Txns |-> Employer!NoRequest]
    BY DEF Employer!Init
  <1>2. Employer!NoRow \in Employer!Row /\ Employer!NoRow.status = Null
    BY DEF Employer!NoRow, Employer!Row
  <1>3. /\ Employer!NoProfile \in Employer!Profile /\ Employer!NoProfile.type = Null
        /\ Employer!NoProfile.status = "not_submitted" /\ Employer!NoProfile.stamped = FALSE
        /\ Employer!NoProfile.percent = 0
    BY DEF Employer!NoProfile, Employer!Profile, Employer!Statuses
  <1>4. /\ profile \in Employer!Profile /\ profile.percent <= 100
        /\ profile.status = "not_submitted" /\ profile.stamped = FALSE
        /\ company \in {Null} \cup SUBSET Employer!CompanyColumns
        /\ Employer!DerivedAgrees
    <2>1. CASE profile = Employer!NoProfile /\ company = Null
      BY <1>3, <2>1 DEF Employer!DerivedAgrees, Employer!Exists
    <2>2. ASSUME NEW type \in Employer!Types, NEW answers \in Answers, NEW columns, NEW row,
                 columns = answers \cap Employer!CompanyColumns,
                 row = [Employer!NoProfile EXCEPT !.type = type,
                          !.filled = answers \cap Employer!EmployerColumns],
                 IF type = "company"
                   THEN profile = Employer!Derived(row, columns) /\ company = columns
                   ELSE profile = Employer!Derived(row, {}) /\ company = Null
          PROVE  /\ profile \in Employer!Profile /\ profile.percent <= 100
                 /\ profile.status = "not_submitted" /\ profile.stamped = FALSE
                 /\ company \in {Null} \cup SUBSET Employer!CompanyColumns
                 /\ Employer!DerivedAgrees
      <3>1. /\ row \in Employer!Profile /\ row.type = type
            /\ row.status = "not_submitted" /\ row.stamped = FALSE
        BY <1>3, <2>2 DEF Employer!Profile
      <3>2. PICK filled : filled = IF type = "company" THEN columns ELSE {}
        OBVIOUS
      <3>3. profile = Employer!Derived(row, filled)
        BY <2>2, <3>2
      <3>4. company \in {Null} \cup SUBSET Employer!CompanyColumns
        BY <2>2
      <3>5. /\ profile \in Employer!Profile /\ profile.percent <= 100
            /\ profile.type = row.type /\ profile.filled = row.filled
            /\ profile.status = "not_submitted" /\ profile.stamped = FALSE
            /\ profile.complete <=> profile.percent = 100
        BY <3>1, <3>3, DerivedIs
      <3>6. /\ Employer!Derived(row, filled).percent = Employer!Derived(profile, filled).percent
            /\ Employer!Derived(row, filled).complete = Employer!Derived(profile, filled).complete
        BY <3>1, <3>5, DerivedSame
      <3>7. Employer!CompanyFilled = filled
        <4>1. columns # Null
          BY <2>2, NullAssumption
        <4>2. QED
          BY <2>2, <3>2, <4>1 DEF Employer!CompanyFilled
      <3>8. QED
        BY <3>3, <3>4, <3>5, <3>6, <3>7 DEF Employer!DerivedAgrees
    <2>3. QED
      BY <2>1, <2>2 DEF Employer!Init
  <1>5. \A t \in Txns : Employer!RequestOK(t)
    <2>1. /\ Employer!NoRequest.op # "submit" /\ Employer!NoRequest.op # "decide"
          /\ Employer!NoRequest.op # "upsert"
      BY EmployerNoRequest DEF Employer!Ops
    <2>2. QED
      BY <1>1, <2>1, EmployerNoRequest DEF Employer!RequestOK
  <1>6. Employer!TypeOK
    BY <1>1, <1>2, <1>4, EmployerNoRequest DEF Employer!TypeOK
  <1>7. Employer!Open = {}
    BY <1>1, <1>2, EmployerNoRequest DEF Employer!Open, Employer!Statuses
  <1>8. Employer!OneOpenSubmission /\ Employer!SubmissionsOK
    BY <1>1, <1>2, <1>4, <1>7 DEF Employer!OneOpenSubmission, Employer!SubmissionsOK
  <1>9. Employer!InsertsApart /\ Employer!HistoryNamesStatus
    BY <1>1, <1>4 DEF Employer!InsertsApart, Employer!Holding, Employer!HistoryNamesStatus
  <1>10. QED
    BY <1>4, <1>5, <1>6, <1>8, <1>9 DEF Employer!IInv

--------------------------------------------------------------------------------
(* The two together *)

LEMMA FilesOnlyStay ==
  ASSUME File!IInv, File!Next
  PROVE  FilesStay /\ arrived' \in {arrived, arrived + 1}
  <1>1. PICK t \in Txns : File!Uploading(t) \/ File!Using(t) \/ File!Die(t)
    BY DEF File!Next
  <1>2. File!TypeOK /\ File!RequestOK(t)
    BY DEF File!IInv
  <1>3. \A f \in Ids : file[f] \in File!Row
    BY <1>2, FileTypes
  <1>4. arrived' \in {arrived, arrived + 1}
    BY <1>1 DEF File!Uploading, File!Using, File!BeginUpload, File!BeginRead, File!Send,
       File!StartInsert, File!Publish, File!ListSlot, File!Retire, File!RemoveFile,
       File!Erase, File!Download, File!Die, File!Arrive, File!Finish, File!Continue, File!Goto
  <1>5. \/ UNCHANGED file
        \/ \E f \in Ids : File!SoftDelete(f)
        \/ File!Publish(t)
    <2>1. fileReq[t].retire \subseteq Ids
      BY <1>2, FileTypes
    <2>2. QED
      BY <1>1, <2>1 DEF File!Uploading, File!Using, File!BeginUpload, File!BeginRead,
         File!Send, File!StartInsert, File!ListSlot, File!Retire, File!RemoveFile,
         File!Erase, File!Download, File!Die, File!Arrive
  <1>6. CASE UNCHANGED file
    BY <1>4, <1>6 DEF FilesStay
  <1>7. CASE \E f \in Ids : File!SoftDelete(f)
    <2>1. PICK f \in Ids : File!SoftDelete(f)
      BY <1>7
    <2>2. file' = [file EXCEPT ![f] = [file[f] EXCEPT !.deleted = TRUE]]
      BY <2>1 DEF File!SoftDelete
    <2>3. \A g \in Ids : g # f => file'[g] = file[g]
      BY <1>2, <2>2 DEF File!TypeOK
    <2>4. file'[f] = [file[f] EXCEPT !.deleted = TRUE]
      BY <1>2, <2>2 DEF File!TypeOK
    <2>5. /\ file'[f].purpose = file[f].purpose /\ file'[f].message = file[f].message
          /\ file'[f].created = file[f].created /\ file'[f].deleted = TRUE
      BY <1>3, <2>4 DEF File!Row
    <2>6. QED
      BY <1>4, <2>3, <2>5 DEF FilesStay
  <1>8. CASE File!Publish(t)
    <2>1. PICK i : i = fileReq[t].id
      OBVIOUS
    <2>2. ~File!Exists(i) /\ file' = [file EXCEPT ![i] = File!RowOf(fileReq[t])]
      BY <1>2, <1>8, <2>1 DEF File!Publish, File!RequestOK
    <2>3. \A g \in Ids : g # i => file'[g] = file[g]
      BY <1>2, <2>2 DEF File!TypeOK
    <2>4. QED
      BY <1>4, <2>2, <2>3 DEF FilesStay
  <1>9. QED
    BY <1>5, <1>6, <1>7, <1>8

LEMMA EmployerArrives ==
  ASSUME Employer!Next
  PROVE  arrived' \in {arrived, arrived + 1}
  BY DEF Employer!Next, Employer!Upserting, Employer!Submitting, Employer!Deciding,
     Employer!BeginUpsert, Employer!LockRow, Employer!CommitUpsert, Employer!BeginSubmit,
     Employer!CheckFiles, Employer!InsertSubmission, Employer!CommitSubmit,
     Employer!BeginDecide, Employer!FindOpen, Employer!TakeOpen, Employer!CommitDecide,
     Employer!Rollback, Employer!Refuse, Employer!Arrive, Employer!Finish,
     Employer!Continue, Employer!Goto

\* The inductive invariant of the employer's records and its files: what the tables and
\* the chat hold, and what each request in flight relies on.
THEOREM Invariance == Spec => []IInv
  <1>1. Init => IInv
    BY FileInit, EmployerInit DEF Init, IInv
  <1>2. IInv /\ [Next]_vars => IInv'
    <2> SUFFICES ASSUME IInv, [Next]_vars PROVE IInv'
      OBVIOUS
    <2>1. Employer!IInv /\ File!IInv /\ arrived \in Nat
      BY DEF IInv
    <2>2. CASE UNCHANGED files /\ Employer!Next
      BY <2>1, <2>2, EmployerNext, FileUnchanged, EmployerArrives DEF IInv
    <2>3. CASE UNCHANGED employers /\ File!Next
      BY <2>1, <2>3, FilesOnlyStay, FileNext, EmployerOverFiles DEF IInv
    <2>4. CASE UNCHANGED vars
      <3>1. UNCHANGED files /\ UNCHANGED employers /\ FilesStay /\ UNCHANGED arrived
        BY <2>4 DEF vars, files, FilesStay
      <3>2. QED
        BY <2>1, <3>1, FileUnchanged, EmployerOverFiles DEF IInv
    <2>5. QED
      BY <2>2, <2>3, <2>4 DEF Next
  <1>3. QED
    BY <1>1, <1>2, PTL DEF Spec

\* The stored completeness, on which BR-03 stands, is that of the stored answers, and
\* under review at most one submission is open, whatever forms, submissions, decisions
\* and uploads race each other (EmployersService, VerificationService).
THEOREM EmployerAlwaysHolds == Spec => []EmployerHolds
  <1>1. IInv => EmployerHolds
    BY DEF IInv, EmployerHolds
  <1>2. QED
    BY <1>1, Invariance, PTL

\* An employer is verified only if a submission on record has the documents that its
\* type requires, even if its owner has removed or replaced them since.
THEOREM VerifiedAlwaysHasEvidence == Spec => []VerifiedHasEvidence
  <1>1. IInv => VerifiedHasEvidence
    BY DEF IInv, VerifiedHasEvidence, Employer!IInv, Employer!SubmissionsOK,
       Employer!VerifiedHasEvidence
  <1>2. QED
    BY <1>1, Invariance, PTL

\* BR-08: the last row of the verification history names the status of the profile.
THEOREM HistoryAlwaysNamesStatus == Spec => []HistoryNamesStatus
  <1>1. IInv => HistoryNamesStatus
    BY DEF IInv, HistoryNamesStatus, Employer!IInv
  <1>2. QED
    BY <1>1, Invariance, PTL

\* A file that can be read has its message in the chat, an upload retires only files
\* that newer ones of their slot outnumber, and no slot ends up over its limit unless an
\* upload died or was made outside the slot (FilesService, AttachmentsService).
THEOREM FilesAlwaysHold == Spec => []FilesHold
  <1>1. IInv => FilesHold
    BY SlotsHold DEF IInv, FilesHold
  <1>2. QED
    BY <1>1, Invariance, PTL

================================================================================
