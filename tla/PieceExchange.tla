--------------------------- MODULE PieceExchange ---------------------------
(***************************************************************************)
(* The core of torrent_client_co: the coroutines that run on the eight     *)
(* threads of Torrent::execute and share the members of class Torrent.     *)
(*                                                                         *)
(*   - one session per peer address, Torrent::downloadFromPeer with        *)
(*     selectPeace and releasePendingPieces, in the variables indexed by   *)
(*     Peers;                                                              *)
(*   - the writer, Torrent::storePieces, in the store variables;           *)
(*   - the part of Torrent::downloadCo that starts sessions (module        *)
(*     DhtSearch models the rest of it).                                   *)
(*                                                                         *)
(* The pc of a coroutine names the suspension point it is resumed from.    *)
(* Between two suspension points a coroutine touches at most one shared    *)
(* member, on that member's strand, so one action is one segment: it takes *)
(* the local work before the strand segment along with it.  The exceptions *)
(* are modelled where they are: rcvPiecesNum is read off its strand        *)
(* (CheckAll) and the queue is popped off its strand (StorePop).           *)
(*                                                                         *)
(* The remote peer is the environment.  It answers each request at most    *)
(* once, in the order of the requests, and only while it does not choke    *)
(* the client; it may corrupt a block, choke, announce pieces, send any    *)
(* other message, fall silent or close at any time.                        *)
(***************************************************************************)
EXTENDS TorrentGeometry, Sequences, FiniteSets, Functions

CONSTANTS
  Peers,            \* the peer addresses the DHT may return
  Length,           \* the torrent's length,
  PieceLength,      \*   its piece length,
  BlockSize,        \*   the client's block size (16384 in main)
  ParallelReqsNum,  \* requests a session keeps outstanding (5 in main)
  Bitfields,        \* the sets of pieces a peer may declare in BITFIELD
  ByteBits,         \* bits per byte of the bitfield: 8, scaled down for TLC
  MaxChokes,        \* bound: how often one peer chokes; 0 for peers that never do
  LateAnswers,      \* may it answer afterwards what was asked before it choked?
  Corruption        \* may a peer send a block with wrong content?

PiecesNum == PiecesNumOf(Length, PieceLength)
Pieces == 0 .. PiecesNum - 1
Blocks(i) == BlocksOf(Length, PieceLength, BlockSize, i)
BlockNums == 0 .. (PieceLength \div BlockSize) - 1
NoPiece == -1

ASSUME SizesAssumption ==
  /\ Length \in Nat \ {0}
  /\ PieceLength \in Nat \ {0}
  /\ BlockSize \in Nat \ {0}
  /\ ParallelReqsNum \in Nat \ {0}
ASSUME PeersAssumption == IsFiniteSet(Peers)
ASSUME BitfieldsAssumption == Bitfields \subseteq SUBSET Pieces
ASSUME ByteBitsAssumption == ByteBits \in Nat \ {0}
ASSUME BoundsAssumption ==
  MaxChokes \in Nat /\ LateAnswers \in BOOLEAN /\ Corruption \in BOOLEAN

VARIABLES
  \* members of class Torrent
  piecesStatus,     \* piece -> NOT_DOWNLOADED, DOWNLOADING or DOWNLOADED
  rcvPiecesNum,     \* pieces whose hash matched
  piecesQueue,      \* verified pieces on their way to the writer
  status,           \* the download's own status
  searching,        \* downloadCo still runs its loops
  \* the writer's locals and its file
  storePc, hand, storedPieces, file,
  \* a session's locals: Peer, BlocksBuffer and the flag availablePieces
  pc, peerStatus, pieceIndex, selectedPiece, availablePieces, available,
  num, index, blockStatus, data,
  \* the remote side of a session
  owed,             \* requests not answered yet, in order
  announced,        \* pieces it declared in BITFIELD and HAVE
  chokes            \* chokes so far

shared    == <<piecesStatus, rcvPiecesNum, piecesQueue, status>>
storeVars == <<storePc, hand, storedPieces, file>>
choice    == <<pieceIndex, selectedPiece, available>>
buffer    == <<num, index, blockStatus, data>>
line      == <<peerStatus, availablePieces, announced, chokes>>
vars == <<shared, searching, storeVars, pc, choice, buffer, line, owed>>

-----------------------------------------------------------------------------
(* Content of a block buffer: data[p][b] is the piece whose true b-th block *)
(* is at that place.                                                        *)

Filler == -1    \* fill bytes, or a block with wrong content
Moved  == -2    \* the vector was moved into a PieceBuffer

Fresh == [b \in BlockNums |-> Filler]
Requests(i, n) == [k \in 1 .. n |-> [piece |-> i, block |-> k - 1]]

\* blocks < parallelReqsNum ? blocks : parallelReqsNum
FirstRequests(i) == IF Blocks(i) < ParallelReqsNum THEN Blocks(i) ELSE ParallelReqsNum

HashMatches(i, content) ==
  /\ CanMatch(Length, PieceLength, BlockSize, i)
  /\ \A b \in 0 .. Blocks(i) - 1 : content[b] = i

\* Mutant of Wanted: pieceNotDownloaded is not tested.
WantedInAnyStatus(p) == availablePieces[p]

\* The pieces selectPeace may take for p, and how far its cyclic search is
\* from each of them.
Wanted(p) == {i \in availablePieces[p] : piecesStatus[i] = "NOT_DOWNLOADED"}
Distance(from, i) == IF i >= from THEN i - from ELSE i - from + PiecesNum

\* Mutant of NextPiece: the index does not wrap.
NextPieceUnwrapped(i) == i + 1

\* (++peer.pieceIndex) % piecesNum
NextPiece(i) == (i + 1) % PiecesNum

\* Mutant of AllReceived: off by one.
AllReceivedEarly == rcvPiecesNum + 1 >= PiecesNum

\* Mutant of AllReceived: the counter as it was before the session's own piece.
AllReceivedStale == rcvPiecesNum - 1 = PiecesNum

\* if (rcvPiecesNum == piecesNum)
AllReceived == rcvPiecesNum = PiecesNum

Suffixes(s) == {SubSeq(s, k, Len(s)) : k \in 1 .. Len(s) + 1}

Init ==
  /\ piecesStatus = [i \in Pieces |-> "NOT_DOWNLOADED"]
  /\ rcvPiecesNum = 0
  /\ piecesQueue = <<>>
  /\ status = "NOT_DOWNLOADED"
  /\ searching = TRUE
  /\ storePc = "open"
  /\ hand = NoPiece
  /\ storedPieces = 0
  /\ file = {}
  /\ pc = [p \in Peers |-> "off"]
  /\ peerStatus = [p \in Peers |-> "CHOKED"]
  /\ pieceIndex = [p \in Peers |-> 0]
  /\ selectedPiece = [p \in Peers |-> NoPiece]
  /\ availablePieces = [p \in Peers |-> {}]
  /\ available = [p \in Peers |-> FALSE]
  /\ num = [p \in Peers |-> 0]
  /\ index = [p \in Peers |-> 0]
  /\ blockStatus = [p \in Peers |-> {}]
  /\ data = [p \in Peers |-> Fresh]
  /\ owed = [p \in Peers |-> <<>>]
  /\ announced = [p \in Peers |-> {}]
  /\ chokes = [p \in Peers |-> 0]

-----------------------------------------------------------------------------
(* Helpers of the session actions.                                         *)

Goto(p, there) == pc' = [pc EXCEPT ![p] = there]
SetPiece(i, s) == piecesStatus' = [piecesStatus EXCEPT ![i] = s]

\* Mutant of ReleasePiece: the session forgets the piece, the table does not.
ReleaseForgets(p) ==
  /\ selectedPiece' = [selectedPiece EXCEPT ![p] = NoPiece]
  /\ UNCHANGED piecesStatus

\* `if (selectedPiece != -1)` of CHOKE and of releasePendingPieces.
ReleasePiece(p) ==
  /\ piecesStatus' = IF selectedPiece[p] = NoPiece
                     THEN piecesStatus
                     ELSE [piecesStatus EXCEPT ![selectedPiece[p]] = "NOT_DOWNLOADED"]
  /\ selectedPiece' = [selectedPiece EXCEPT ![p] = NoPiece]

\* Mutant of Opened: the status is set without looking at it.
OpenedAlways == "DOWNLOADING"

\* The download's status once a handshake succeeded.
Opened == IF status # "DOWNLOADING" /\ status # "DOWNLOADED" THEN "DOWNLOADING" ELSE status

\* Mutant of Masked: HAVE adds a bit, counted from the wrong end of the byte.
MaskedByOr(S, i) ==
  S \cup {j \in Pieces : /\ j \div ByteBits = i \div ByteBits
                         /\ j % ByteBits = ByteBits - 1 - (i % ByteBits)}

\* `availablePieces[byte] &= (1 << bit)`: of the byte that holds piece i only the
\* bit of value 1 << bit is kept, and bit 0 is the last piece of a byte.
Masked(S, i) == {j \in S : \/ j \div ByteBits # i \div ByteBits
                           \/ j % ByteBits = ByteBits - 1 - (i % ByteBits)}

-----------------------------------------------------------------------------
(* downloadCo starts a session for an address that has none; it ends when  *)
(* it sees DOWNLOADED at the bottom of its loops.                          *)

Spawn(p) ==
  /\ searching
  /\ pc[p] = "off"
  /\ Goto(p, "connect")
  /\ UNCHANGED <<shared, searching, storeVars, choice, buffer, line, owed>>

\* Mutant of SearchOver: any status but the first ends the search.
SearchOverEarly == status # "NOT_DOWNLOADED"

\* while (status != DOWNLOADED)
SearchOver == status = "DOWNLOADED"

SearchEnd ==
  /\ searching
  /\ SearchOver
  /\ searching' = FALSE
  /\ UNCHANGED <<shared, storeVars, pc, choice, buffer, line, owed>>

-----------------------------------------------------------------------------
(* A session opens: connect and handshake, then the segment on statusStd.  *)

Handshake(p) ==
  /\ pc[p] = "connect"
  /\ status' = Opened
  /\ Goto(p, "bitfield")
  /\ UNCHANGED <<piecesStatus, rcvPiecesNum, piecesQueue, searching, storeVars,
                 choice, buffer, line, owed>>

Bitfield(p) ==
  /\ pc[p] = "bitfield"
  /\ \E S \in Bitfields :
       /\ availablePieces' = [availablePieces EXCEPT ![p] = S]
       /\ announced' = [announced EXCEPT ![p] = S]
  /\ Goto(p, "loop")
  /\ UNCHANGED <<shared, searching, storeVars, choice, buffer, peerStatus,
                 chokes, owed>>

\* connect, handshake, BITFIELD or a send fails or times out: an exception
\* unwinds the coroutine to its catch handlers.
SessionFails(p) ==
  /\ pc[p] \in {"connect", "bitfield", "request"}
  /\ Goto(p, "release")
  /\ UNCHANGED <<shared, searching, storeVars, choice, buffer, line, owed>>

\* Mutant of KeepsOn: the loop does not look at the status.
KeepsOnAlways == TRUE

\* while (status == DOWNLOADING && !exit)
KeepsOn == status = "DOWNLOADING"

Loop(p) ==
  /\ pc[p] = "loop"
  /\ Goto(p, IF KeepsOn THEN "recv" ELSE "release")
  /\ UNCHANGED <<shared, searching, storeVars, choice, buffer, line, owed>>

-----------------------------------------------------------------------------
(* The message handlers.                                                   *)

\* UNCHOKE.  The peer drops the requests it has while it chokes.  Those that reach
\* it after it decided to unchoke are still to be answered: LateAnswers.
Unchoke(p) ==
  /\ pc[p] = "recv"
  /\ peerStatus[p] = "CHOKED"
  /\ peerStatus' = [peerStatus EXCEPT ![p] = "UNCHOKED"]
  /\ \E rest \in Suffixes(owed[p]) :
       (LateAnswers \/ rest = <<>>) /\ owed' = [owed EXCEPT ![p] = rest]
  /\ Goto(p, "select")
  /\ UNCHANGED <<shared, searching, storeVars, choice, buffer,
                 availablePieces, announced, chokes>>

Choke(p) ==
  /\ pc[p] = "recv"
  /\ peerStatus[p] = "UNCHOKED"
  /\ chokes[p] < MaxChokes
  /\ chokes' = [chokes EXCEPT ![p] = @ + 1]
  /\ peerStatus' = [peerStatus EXCEPT ![p] = "CHOKED"]
  /\ ReleasePiece(p)
  /\ Goto(p, "loop")
  /\ UNCHANGED <<rcvPiecesNum, piecesQueue, status, searching, storeVars,
                 pieceIndex, available, buffer, availablePieces, announced, owed>>

Have(p) ==
  /\ pc[p] = "recv"
  /\ \E i \in Pieces \ announced[p] :
       /\ announced' = [announced EXCEPT ![p] = @ \cup {i}]
       /\ availablePieces' = [availablePieces EXCEPT ![p] = Masked(@, i)]
  /\ Goto(p, IF ~available[p] /\ peerStatus[p] = "UNCHOKED" THEN "select" ELSE "loop")
  /\ UNCHANGED <<shared, searching, storeVars, choice, buffer, peerStatus, chokes, owed>>

\* EMPTY, or a receive or send that fails or times out after five seconds.
ReceiveFails(p) ==
  /\ pc[p] = "recv"
  /\ Goto(p, "release")
  /\ UNCHANGED <<shared, searching, storeVars, choice, buffer, line, owed>>

\* A message without a case, an UNCHOKE while unchoked, a CHOKE while choked.
ReceiveOther(p) ==
  /\ pc[p] = "recv"
  /\ Goto(p, "loop")
  /\ UNCHANGED <<shared, searching, storeVars, choice, buffer, line, owed>>

-----------------------------------------------------------------------------
(* PIECE: the peer answers the oldest request it still owes.               *)

Answers(p) ==
  /\ pc[p] = "recv"
  /\ peerStatus[p] = "UNCHOKED"
  /\ owed[p] # <<>>

\* The answer is for the piece the session is at, and its buffer is there.
\* (After the buffer was moved out, operator[] on the empty vector ends the
\* process: nothing follows.)
AnswersCurrent(p) ==
  /\ Answers(p)
  /\ Head(owed[p]).piece = pieceIndex[p]
  /\ \A b \in BlockNums : data[p][b] # Moved

Contents == IF Corruption THEN {TRUE, FALSE} ELSE {TRUE}

\* The buffer once the answered block was copied into it.
Filled(p, good) ==
  [data[p] EXCEPT ![Head(owed[p]).block] = IF good THEN pieceIndex[p] ELSE Filler]

\* if (peer.pieceIndex == index) is false
BlockIgnored(p) ==
  /\ Answers(p)
  /\ Head(owed[p]).piece # pieceIndex[p]
  /\ owed' = [owed EXCEPT ![p] = Tail(@)]
  /\ Goto(p, "loop")
  /\ UNCHANGED <<shared, searching, storeVars, choice, buffer, line>>

\* peer.blocksBuffer.index++, back to 0 at the end of the piece
NextIndex(p) ==
  IF index[p] + 1 >= Blocks(pieceIndex[p]) THEN 0 ELSE index[p] + 1

\* Mutant of AsksNext: the block's status is not tested.
AsksAlways(p) == peerStatus[p] = "UNCHOKED"

\* if (peer.status == UNCHOKED && status[index] == false), after the copy
AsksNext(p) ==
  /\ peerStatus[p] = "UNCHOKED"
  /\ NextIndex(p) \notin blockStatus[p] \cup {Head(owed[p]).block}

\* A block that does not complete the piece; the next one is requested.
BlockStored(p) ==
  /\ AnswersCurrent(p)
  /\ num[p] + 1 # Blocks(pieceIndex[p])
  /\ num' = [num EXCEPT ![p] = @ + 1]
  /\ \E good \in Contents : data' = [data EXCEPT ![p] = Filled(p, good)]
  /\ blockStatus' = [blockStatus EXCEPT ![p] = @ \cup {Head(owed[p]).block}]
  /\ index' = [index EXCEPT ![p] = NextIndex(p)]
  /\ owed' = [owed EXCEPT ![p] =
       IF AsksNext(p)
       THEN Append(Tail(@), [piece |-> pieceIndex[p], block |-> NextIndex(p)])
       ELSE Tail(@)]
  /\ Goto(p, "loop")
  /\ UNCHANGED <<shared, searching, storeVars, choice, line>>

\* The last block and the digest matches: the segment on pStatusStd, after
\* which the buffer is moved into a PieceBuffer.
PieceVerified(p) ==
  /\ AnswersCurrent(p)
  /\ num[p] + 1 = Blocks(pieceIndex[p])
  /\ \E good \in Contents : HashMatches(pieceIndex[p], Filled(p, good))
  /\ rcvPiecesNum' = rcvPiecesNum + 1
  /\ SetPiece(pieceIndex[p], "DOWNLOADED")
  /\ num' = [num EXCEPT ![p] = @ + 1]
  /\ data' = [data EXCEPT ![p] = [b \in BlockNums |-> Moved]]
  /\ blockStatus' = [blockStatus EXCEPT ![p] = @ \cup {Head(owed[p]).block}]
  /\ owed' = [owed EXCEPT ![p] = Tail(@)]
  /\ Goto(p, "enqueue")
  /\ UNCHANGED <<piecesQueue, status, searching, storeVars, choice, index, line>>

\* The last block and the digest differs: the piece is given back and the
\* search goes on after it.
PieceRejected(p) ==
  /\ AnswersCurrent(p)
  /\ num[p] + 1 = Blocks(pieceIndex[p])
  /\ \E good \in Contents :
       /\ ~ HashMatches(pieceIndex[p], Filled(p, good))
       /\ data' = [data EXCEPT ![p] = Filled(p, good)]
  /\ SetPiece(pieceIndex[p], "NOT_DOWNLOADED")
  /\ num' = [num EXCEPT ![p] = 0]
  /\ blockStatus' = [blockStatus EXCEPT ![p] = @ \cup {Head(owed[p]).block}]
  /\ owed' = [owed EXCEPT ![p] = Tail(@)]
  /\ pieceIndex' = [pieceIndex EXCEPT ![p] = NextPiece(@)]
  /\ Goto(p, "select")
  /\ UNCHANGED <<rcvPiecesNum, piecesQueue, status, searching, storeVars,
                 selectedPiece, available, index, line>>

\* pQueueStd: hand the piece to the writer.
Enqueue(p) ==
  /\ pc[p] = "enqueue"
  /\ piecesQueue' = Append(piecesQueue, pieceIndex[p])
  /\ Goto(p, "check")
  /\ UNCHANGED <<piecesStatus, rcvPiecesNum, status, searching, storeVars,
                 choice, buffer, line, owed>>

\* Reads rcvPiecesNum off pStatusStd; goes on to the next piece unless it
\* finds all pieces received.
CheckAll(p) ==
  /\ pc[p] = "check"
  /\ \/ /\ AllReceived
        /\ Goto(p, "finish")
        /\ UNCHANGED <<num, pieceIndex>>
     \/ /\ ~ AllReceived
        /\ num' = [num EXCEPT ![p] = 0]
        /\ pieceIndex' = [pieceIndex EXCEPT ![p] = NextPiece(@)]
        /\ Goto(p, "select")
  /\ UNCHANGED <<shared, searching, storeVars, selectedPiece, available, index,
                 blockStatus, data, line, owed>>

\* statusStd: the download is complete.
Finish(p) ==
  /\ pc[p] = "finish"
  /\ status' = "DOWNLOADED"
  /\ Goto(p, "loop")
  /\ UNCHANGED <<piecesStatus, rcvPiecesNum, piecesQueue, searching, storeVars,
                 choice, buffer, line, owed>>

-----------------------------------------------------------------------------
(* selectPeace: the search on pStatusStd, then the first requests.         *)

\* The nearest wanted piece is claimed; reset() gives it a fresh buffer but
\* leaves num alone.
SelectFound(p) ==
  /\ pc[p] = "select"
  /\ \E i \in Wanted(p) :
       /\ \A j \in Wanted(p) : Distance(pieceIndex[p], i) <= Distance(pieceIndex[p], j)
       /\ SetPiece(i, "DOWNLOADING")
       /\ pieceIndex' = [pieceIndex EXCEPT ![p] = i]
       /\ selectedPiece' = [selectedPiece EXCEPT ![p] = i]
  /\ available' = [available EXCEPT ![p] = TRUE]
  /\ blockStatus' = [blockStatus EXCEPT ![p] = {}]
  /\ data' = [data EXCEPT ![p] = Fresh]
  /\ Goto(p, "request")
  /\ UNCHANGED <<rcvPiecesNum, piecesQueue, status, searching, storeVars,
                 num, index, line, owed>>

\* "No piece found": the search came back to where it started.
SelectNone(p) ==
  /\ pc[p] = "select"
  /\ Wanted(p) = {}
  /\ selectedPiece' = [selectedPiece EXCEPT ![p] = NoPiece]
  /\ available' = [available EXCEPT ![p] = FALSE]
  /\ Goto(p, "loop")
  /\ UNCHANGED <<shared, searching, storeVars, pieceIndex, buffer, line, owed>>

Request(p) ==
  LET reqsNum == FirstRequests(pieceIndex[p]) IN
  /\ pc[p] = "request"
  /\ blockStatus' = [blockStatus EXCEPT ![p] = @ \cup 0 .. reqsNum - 1]
  /\ index' = [index EXCEPT ![p] = reqsNum - 1]
  /\ owed' = [owed EXCEPT ![p] = @ \o Requests(pieceIndex[p], reqsNum)]
  /\ Goto(p, "loop")
  /\ UNCHANGED <<shared, searching, storeVars, choice, num, data, line>>

-----------------------------------------------------------------------------
(* The end of a session: releasePendingPieces, then the address leaves     *)
(* threadsMap and the locals are gone.                                     *)

Release(p) ==
  /\ pc[p] = "release"
  /\ ReleasePiece(p)
  /\ Goto(p, "erase")
  /\ UNCHANGED <<rcvPiecesNum, piecesQueue, status, searching, storeVars,
                 pieceIndex, available, buffer, line, owed>>

Erase(p) ==
  /\ pc[p] = "erase"
  /\ Goto(p, "off")
  /\ peerStatus' = [peerStatus EXCEPT ![p] = "CHOKED"]
  /\ pieceIndex' = [pieceIndex EXCEPT ![p] = 0]
  /\ availablePieces' = [availablePieces EXCEPT ![p] = {}]
  /\ available' = [available EXCEPT ![p] = FALSE]
  /\ num' = [num EXCEPT ![p] = 0]
  /\ index' = [index EXCEPT ![p] = 0]
  /\ blockStatus' = [blockStatus EXCEPT ![p] = {}]
  /\ data' = [data EXCEPT ![p] = Fresh]
  /\ owed' = [owed EXCEPT ![p] = <<>>]
  /\ announced' = [announced EXCEPT ![p] = {}]
  /\ UNCHANGED <<shared, searching, storeVars, selectedPiece, chokes>>

-----------------------------------------------------------------------------
(* The writer: storePieces.                                                *)

\* The ofstream opens, or the exception ends the detached coroutine.
StoreOpen ==
  /\ storePc = "open"
  /\ storePc' \in {"poll", "failed"}
  /\ UNCHANGED <<shared, searching, hand, storedPieces, file,
                 pc, choice, buffer, line, owed>>

\* Mutant of Oldest: the other end of the queue.
Newest == piecesQueue[Len(piecesQueue)]

\* piecesQueue.front()
Oldest == Head(piecesQueue)

\* pQueueStd: the front element's content is moved out, the element stays.
StoreFront ==
  /\ storePc = "poll"
  /\ storedPieces < PiecesNum
  /\ piecesQueue # <<>>
  /\ hand' = Oldest
  /\ storePc' = "pop"
  /\ UNCHANGED <<shared, searching, storedPieces, file,
                 pc, choice, buffer, line, owed>>

\* The queue is empty: come back later.
StoreIdle ==
  /\ storePc = "poll"
  /\ storedPieces < PiecesNum
  /\ piecesQueue = <<>>
  /\ UNCHANGED vars

\* Mutant of Popped: the element stays in the queue.
PoppedNever == piecesQueue

\* piecesQueue.pop(): the log call before it has left pQueueStd.
Popped == Tail(piecesQueue)

StorePop ==
  /\ storePc = "pop"
  /\ piecesQueue' = Popped
  /\ storePc' = "write"
  /\ UNCHANGED <<piecesStatus, rcvPiecesNum, status, searching, hand, storedPieces,
                 file, pc, choice, buffer, line, owed>>

StoreWrite ==
  /\ storePc = "write"
  /\ file' = file \cup {hand}
  /\ storedPieces' = storedPieces + 1
  /\ hand' = NoPiece
  /\ storePc' = "poll"
  /\ UNCHANGED <<shared, searching, pc, choice, buffer, line, owed>>

\* "Store completed!!!"
StoreDone ==
  /\ storePc = "poll"
  /\ ~ (storedPieces < PiecesNum)
  /\ storePc' = "done"
  /\ UNCHANGED <<shared, searching, hand, storedPieces, file,
                 pc, choice, buffer, line, owed>>

\* io_context::run returns when no coroutine is left.
AllReturned ==
  /\ ~ searching
  /\ storePc \in {"done", "failed"}
  /\ \A p \in Peers : pc[p] = "off"
  /\ UNCHANGED vars

-----------------------------------------------------------------------------

Receive(p) ==
  \/ Unchoke(p) \/ Choke(p) \/ Have(p) \/ ReceiveFails(p) \/ ReceiveOther(p)
  \/ BlockIgnored(p) \/ BlockStored(p) \/ PieceVerified(p) \/ PieceRejected(p)

Session(p) ==
  \/ Handshake(p) \/ Bitfield(p) \/ SessionFails(p) \/ Loop(p)
  \/ Receive(p)
  \/ Enqueue(p) \/ CheckAll(p) \/ Finish(p)
  \/ SelectFound(p) \/ SelectNone(p) \/ Request(p)
  \/ Release(p) \/ Erase(p)

Store ==
  \/ StoreOpen \/ StoreFront \/ StoreIdle \/ StorePop \/ StoreWrite \/ StoreDone

Next ==
  \/ \E p \in Peers : Spawn(p) \/ Session(p)
  \/ SearchEnd
  \/ Store
  \/ AllReturned

Spec == Init /\ [][Next]_vars

-----------------------------------------------------------------------------
(* Fairness.  A coroutine that can run is run: eight threads serve the     *)
(* io_context, and a receive ends within five seconds one way or another.  *)

ClientFairness ==
  /\ \A p \in Peers : WF_vars(Session(p))
  /\ WF_vars(SearchEnd)
  /\ WF_vars(Store)

\* The environment of a download that can succeed.  The DHT keeps returning the
\* addresses.  A peer that has something to answer answers it at last, among
\* whatever else it sends.  From some moment on no session fails while an answer
\* is due, and every block is right; before it, anything may happen.
Answer(p) == Unchoke(p) \/ BlockIgnored(p) \/ BlockStored(p) \/ PieceVerified(p)

Fault(p) ==
  \/ SessionFails(p)
  \/ PieceRejected(p)
  \/ ReceiveFails(p) /\ (peerStatus[p] = "CHOKED" \/ owed[p] # <<>>)

PeerFairness ==
  /\ \A p \in Peers : WF_vars(Spawn(p)) /\ SF_vars(Answer(p))
  /\ <>[][\A p \in Peers : ~ Fault(p)]_vars

ClientSpec == Spec /\ ClientFairness

-----------------------------------------------------------------------------
(* Properties.                                                             *)

PcStates ==
  {"off", "connect", "bitfield", "loop", "recv", "select", "request", "enqueue",
   "check", "finish", "release", "erase"}

SharedType ==
  /\ piecesStatus \in [Pieces -> {"NOT_DOWNLOADED", "DOWNLOADING", "DOWNLOADED"}]
  /\ rcvPiecesNum \in Nat
  /\ piecesQueue \in Seq(Pieces)
  /\ status \in {"NOT_DOWNLOADED", "DOWNLOADING", "DOWNLOADED"}

StoreType ==
  /\ storePc \in {"open", "poll", "pop", "write", "done", "failed"}
  /\ hand \in Pieces \cup {NoPiece}
  /\ storePc \in {"pop", "write"} => hand \in Pieces
  /\ storedPieces \in Nat
  /\ file \in SUBSET Pieces

\* While the writer is about to pop, the front it took the content of is there.
FrontInHand == storePc = "pop" => piecesQueue # <<>> /\ hand = Head(piecesQueue)

ChoiceType ==
  /\ pieceIndex \in [Peers -> Pieces]
  /\ selectedPiece \in [Peers -> Pieces \cup {NoPiece}]
  /\ available \in [Peers -> BOOLEAN]

BufferType ==
  /\ num \in [Peers -> Nat]
  /\ index \in [Peers -> Nat \cup {-1}]
  /\ blockStatus \in [Peers -> SUBSET Int]
  /\ data \in [Peers -> [BlockNums -> Pieces \cup {Filler, Moved}]]

LineType ==
  /\ peerStatus \in [Peers -> {"CHOKED", "UNCHOKED"}]
  /\ availablePieces \in [Peers -> SUBSET Pieces]
  /\ announced \in [Peers -> SUBSET Pieces]
  /\ chokes \in [Peers -> Nat]

Requestable == [piece : Pieces, block : Nat]
OwedType == owed \in [Peers -> Seq(Requestable)]

TypeOK ==
  /\ SharedType /\ StoreType /\ ChoiceType /\ BufferType /\ LineType /\ OwedType
  /\ FrontInHand
  /\ searching \in BOOLEAN
  /\ pc \in [Peers -> PcStates]

\* Pieces between their hash check and the queue.
Pending == {p \in Peers : pc[p] = "enqueue"}
InHand == IF storePc \in {"pop", "write"} THEN {hand} ELSE {}

\* Every piece that was verified and is still somewhere.
Verified == {pieceIndex[p] : p \in Pending} \cup Range(piecesQueue) \cup InHand \cup file

\* No verified piece is lost or duplicated on its way from the hash check
\* through the queue to the file (Torrent.cpp:393-411 and 535-556): the shared
\* counter accounts for each one, wherever it is.
Conservation ==
  rcvPiecesNum = Cardinality(Pending) + Len(piecesQueue)
                   + (IF storePc = "write" THEN 1 ELSE 0) + storedPieces

\* A piece marked DOWNLOADING is held by a session that will finish or release
\* it (Torrent.cpp:226-228, 335-341, 503-514): no claim outlives its session.
ClaimHasOwner ==
  \A i \in Pieces : piecesStatus[i] = "DOWNLOADING" =>
    \E p \in Peers : pc[p] \notin {"off", "erase"} /\ selectedPiece[p] = i

\* While a choke ends what was asked before it, two sessions never download the
\* same piece (Torrent.cpp:217-240, 335-341).
ClaimsExclusive ==
  \A p, q \in Peers :
    (/\ pc[p] \in {"loop", "recv", "request"} /\ pc[q] \in {"loop", "recv", "request"}
     /\ selectedPiece[p] = selectedPiece[q] /\ selectedPiece[p] # NoPiece
     /\ status # "DOWNLOADED") => p = q

\* The download is declared complete (Torrent.cpp:414-417) only with every
\* piece verified.
CompletionSound == status = "DOWNLOADED" => Verified = Pieces

\* The last piece does not go unnoticed, although the counter is read off its
\* strand and by every session for itself (Torrent.cpp:393, 414-417): once every
\* piece is verified, the download is complete or a session will see that it is.
CompletionNoticed ==
  Verified = Pieces =>
    status = "DOWNLOADED" \/ \E p \in Peers : pc[p] \in {"enqueue", "check", "finish"}

\* "Store completed!!!" (Torrent.cpp:535-565) is reached only with every piece
\* in the file.
FileComplete == storePc = "done" => file = Pieces

\* A session asks for no more blocks than its piece still lacks, and keeps at
\* most parallelReqsNum requests outstanding (Torrent.cpp:246-259, 437-450).
RequestsBounded ==
  \A p \in Peers : pc[p] = "recv" /\ owed[p] # <<>> =>
    /\ num[p] + Len(owed[p]) <= Blocks(pieceIndex[p])
    /\ Len(owed[p]) <= ParallelReqsNum

\* A session only requests pieces its peer announced, whatever HAVE does to the
\* bitfield (Torrent.cpp:222, 294, 350-361).
RequestsAnnounced ==
  \A p \in Peers : \A k \in 1 .. Len(owed[p]) : owed[p][k].piece \in announced[p]

\* DOWNLOADED is final: no late handshake reopens the download
\* (Torrent.cpp:286-288 against 416-417).
StatusFinal == [][status = "DOWNLOADED" => status' = "DOWNLOADED"]_vars

\* Whatever the peers do, a verified piece is never lost again between the hash
\* check, the queue, the writer's hand and the file (Torrent.cpp:401-411, 535-556).
VerifiedKept == [][Verified \subseteq Verified']_vars

\* A piece leaves DOWNLOADED only when the download is over
\* (Torrent.cpp:394 against 338, 428 and 511).
VerifiedStays ==
  [][\A i \in Pieces :
       piecesStatus[i] = "DOWNLOADED" /\ piecesStatus'[i] # "DOWNLOADED"
         => status = "DOWNLOADED"]_vars

\* The exchange keeps the promises of PieceLedger.
Ledger == INSTANCE PieceLedger WITH
  verified <- Verified, stored <- file,
  complete <- status = "DOWNLOADED", closed <- storePc = "done"
LedgerSpec == Ledger!Spec

\* With the sessions in it, the search still keeps the promises of Discovery:
\* only a running session completes the download, and nothing reopens it once the
\* search may have ended (Torrent.cpp:176, 195-197, 287-288, 416-417, 496-499).
Found == INSTANCE Discovery WITH
  Addresses <- Peers,
  alive <- {p \in Peers : pc[p] # "off"},
  downloaded <- status = "DOWNLOADED"
DiscoverySpec == Found!Spec

Quiet == ~ searching /\ \A p \in Peers : pc[p] = "off"

\* Once the download is declared complete, the search and every session end
\* (Torrent.cpp:195-197, 303, 495-499).
DownloadEnds == (status = "DOWNLOADED") ~> Quiet

\* With peers that do not choke, between them have every piece and do their part,
\* the writer finishes the file (Torrent.cpp:523-567).
EventuallyStored == PeerFairness => ((storePc = "poll") ~> (storePc = "done"))

\* "All threads completed!!!" (Torrent.cpp:199) says that no session runs on.
AllThreadsCompleted == ~ searching => \A p \in Peers : pc[p] = "off"

=============================================================================
