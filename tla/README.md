# A TLA+ model of torrent_client_co

torrent_client_co is a BitTorrent client written with C++20 coroutines on Boost.Asio.  It
downloads one torrent: it reads the torrent file, asks the DHT for peers, runs one coroutine
per peer and one coroutine that writes verified pieces to the output file.  All of them run
on eight threads of one `io_context` and share the members of class `Torrent`, most of which
are guarded by strands.  The repository has no tests.

Line numbers below are those of `src/src/torrent/Torrent.cpp` unless another file is named.

## 1. Inventory

| component | code | state | operations | status |
|---|---|---|---|---|
| sessions | `downloadFromPeer` 268-501, `selectPeace` 208-266, `releasePendingPieces` 503-521 | `piecesStatus`, `rcvPiecesNum`, `status`; per session `Peer` and `BlocksBuffer` | open, handshake, BITFIELD, the handlers of UNCHOKE, CHOKE, HAVE, PIECE and EMPTY, selection, hash check, release | `PieceExchange` |
| writer | `storePieces` 523-567 | `piecesQueue`, `storedPieces`, the file | open, take the front, pop, write, stop | `PieceExchange`; the queue and its strand in `PieceQueue`; places in the file in `ParseTorrent` |
| discovery | `downloadCo` 143-206, `findPeers` in `Dht.cpp` | `dhtNodeStack`, `threadsMap` | ask a node, start sessions, push nodes, test the status | `DhtSearch` |
| torrent file | `parseTorrentFile` 66-93 and the size arithmetic at 212-213, 244-247, 364-366, 554 | `pieceLength`, `lastPieceLength`, `piecesNum` | parse, cut into pieces and blocks, place a piece | `TorrentGeometry`, `ParseTorrent` |
| process | `main`, constructor 95-106, `execute` 113-130, `download` 136-141, destructor 108-111 | the work guard, the worker and its pool | construct, spawn, wait, reset the guard, join | `TorrentClient` |
| peer wire | `PeerSession`, `Message` in `Message.cpp` | a TCP stream | open, handshake, send, receive, close | `PeerWire` |
| DHT wire | the query and the decoding in `Dht.cpp` | - | encode, decode | `DhtSearch`: what comes out only |
| bencode | `bencode.hpp` | - | decode, encode | `Bencode`: the types and functions the client uses |
| logger | `Logger.cpp` | the level | `log` goes to `printStd` and back to the coroutine's executor, or does nothing | `PieceQueue`: when it leaves the caller's strand |
| utilities, exceptions, `upload`, public header, build files | | | | not modelled |

How they interact.  `main` constructs a `Torrent`, whose constructor starts the worker thread,
and calls `download`, which spawns `downloadCo` and waits for it.  `downloadCo` parses the file,
spawns the writer and then, reply after reply of the DHT, one session per peer address that
has none in `threadsMap`.  A session claims a piece in `piecesStatus` (strand `pStatusStd`),
requests its blocks, checks its hash, counts it in `rcvPiecesNum` (`pStatusStd`), pushes it
on `piecesQueue` (`pQueueStd`), and declares the download complete when the count is full
(`status`, `statusStd`).  The writer takes pieces from the queue until it has `piecesNum` of
them.  Sessions and `downloadCo` look at `status` to end.

What is hard: every `co_await` is a point where any other coroutine may go on; claims must
be given back however a session ends; the counters and not the table decide about completion;
answers come late, after the claim they belong to is gone; two members are touched off
their strand (`rcvPiecesNum` at 414, the queue at 552); whether a coroutine keeps its strand over
a log call depends on the log level; detached coroutines lose their exceptions; results of
writes to the socket and to the file are ignored; a blocking wait sits on a thread of the pool (165).  `hazards` in `PROJECT.json` has
the full list, each at its line with the properties that would catch it going wrong.

What makes each component correct:

- sessions: one session per piece, no claim without a session, no request for a block twice or
  for a piece the peer did not announce, completion only with all pieces, completion is final;
- writer: no verified piece is lost or written twice, the file is closed only when whole, pieces
  leave the queue as they entered it;
- peer wire: messages arrive whole and in order, and no read waits for ever;
- bencode: the dictionary that is hashed is the one in the file, integers are read by their value;
- discovery: one session per address, the search ends with the download and not before;
- torrent file: bytes go where the torrent has them, and which sizes can complete at all;
- process: no coroutine is abandoned, the process exits, and not before the writer is through.

## 2. Modules

| module | what it is |
|---|---|
| `TorrentGeometry` | pure arithmetic of pieces and blocks, with the reference definitions `TrueLengthOf` and `CanMatch` |
| `PieceExchange` | sessions, writer and the start of sessions: the core |
| `PieceLedger` | abstract specification of the exchange: verify once, store once, complete and close only with every piece |
| `DhtSearch` | the loops of `downloadCo`, `threadsMap`, `findPeers` as an environment action |
| `Discovery` | abstract specification of the search |
| `ParseTorrent` | a torrent file's sizes in integers of `Width` bits, and where pieces are written |
| `TorrentClient` | main thread, worker, work guard, and the coroutines as far as these depend on them |
| `PieceExchangeInv` | inductive invariants of `PieceExchange` |
| `PieceExchangeProofs` | its proofs: what holds whatever the peers do, then while none chokes, then while a choke ends what was asked before it, with the refinements |
| `PieceQueue` | the queue between sessions and writer, opened up: strands, log calls, overlaps, a disk that fails |
| `PeerWire` | `PeerSession`: two streams of bytes, framing, handshake, timeouts, partial sends |
| `Channel` | abstract specification of a queue; `PieceQueue` and `PeerWire` implement it |
| `Bencode` | `do_decode`, and the digits of integers |
| `BencodeEncode` | `encode_to` of what was decoded; the one module with recursive operators |
| `DhtSearchProofs`, `TorrentClientProofs`, `PieceQueueProofs`, `ParseTorrentProofs`, `PeerWireProofs`, `BencodeProofs` | the proofs of the other components |
| `DivisionFacts` | lemmas about quotients and remainders for the last three |
| `MCPieceExchange`, `MCDhtSearch`, `MCPieceQueue`, `MCPeerWire`, `MCBencode` | instances for TLC |

How they fit together.  `PieceExchange` is the middle.  Its sessions start and end as `Discovery` promises,
which `DhtSearch` implements from the side of the search and `PieceExchange` from the side of the
sessions.  Its writer takes from a queue that is atomic there; `PieceQueue` opens the queue and shows when that
is justified.  Its messages come whole and in order; `PeerWire` shows until when that is so.  Its sizes come from
`TorrentGeometry`, and `ParseTorrent` says what they are for a given file.  `TorrentClient` has the
life of the whole.

### PieceExchange

Members of class `Torrent` are variables with their own names.  The locals of a session are
functions over `Peers`: `pieceIndex`, `peerStatus`, `availablePieces` (as a set of pieces), the
local flag of the same name as `available`, and the `BlocksBuffer` as `num`, `index`,
`blockStatus`, `data` and `selectedPiece`.  `owed`, `announced` and `chokes` belong to the
remote peer.  `data[p][b]` does not hold bytes but the piece whose true block is there, or
`Filler`, or `Moved` once the vector was moved into a `PieceBuffer`; a digest matches when the
blocks are the piece's own and cover the whole buffer.

`pc[p]` names the suspension point a session is resumed from:

| pc | code | actions that leave it |
|---|---|---|
| off | no session | `Spawn` (172-185) |
| connect | 283-289 | `Handshake`, `SessionFails` |
| bitfield | 291-301 | `Bitfield`, `SessionFails` |
| loop | 303 | `Loop` |
| recv | 305-455 | `Unchoke`, `Choke`, `Have`, `ReceiveFails` (EMPTY, exceptions), `ReceiveOther`, `BlockIgnored`, `BlockStored`, `PieceVerified`, `PieceRejected` |
| enqueue | 401-412 | `Enqueue` |
| check | 414-433 | `CheckAll` |
| finish | 416-422 | `Finish` |
| select | 217-240 | `SelectFound`, `SelectNone` |
| request | 242-260 | `Request`, `SessionFails` |
| release | 495 | `Release` |
| erase | 496-499 | `Erase` |

Between two suspension points a coroutine touches at most one shared member, on its strand,
so that one action is one strand segment together with the local work before it.  Segments on
one strand exclude each other and are atomic; whatever two coroutines do on different strands is
interleaved.  Two accesses are off their strand and are actions of their own: the read of
`rcvPiecesNum` (`CheckAll`) and the pop of the queue (`StorePop`).

The remote peer answers each request at most once, in order, and while it does not choke.  A
peer that chokes drops the requests it has; those that reach it after it unchoked again are
answered, so `Unchoke` keeps any suffix of `owed`.  The constant `LateAnswers` says whether there are such requests:
without them a choke ends what was asked before it.  The rest is free: corrupt blocks, any
bitfield, HAVE, other messages, silence, a closed connection.  Exceptions of `open`, `handshake`,
`send` and `receive` (their timeouts included) are `SessionFails` and `ReceiveFails`.  A peer
that answers what was not requested, or with another length, is left out.

### DhtSearch, ParseTorrent, TorrentClient

`DhtSearch` has one action per step of the loops: `PushBootstrap` (158), `AskTop` (161-164),
`FindPeers`, `NextPeer` (172-185), `PushNodes` (187-193), `InnerTest` (195), `OuterTest` (197).  The node
moved out of its variable at 158 is `Unnamed`, which `findPeers` cannot ask: once its stack has run empty the
search asks nobody any more, and goes round until a session it started before completes the download.  `ThreadFree` is the
pool: `future.get()` holds one of its eight threads.  Of the sessions it has the start, the completing
and the end; `PieceExchange` has these as `Spawn`, `Finish` and `Erase`.

`ParseTorrent` starts from any two sizes in the file, copies them modulo `2 ^ Width` as the
assignments to `unsigned int` do, and then writes pieces in any order at `index * pieceLength`
modulo `2 ^ Width`.  A piece is written only if its hash can match, which `Completes` decides from
the lengths.  `Width` is 4 in the run and 32 in the code; `MaxSize` is beyond `2 * 2 ^ Width` so
that truncation and wrapping happen, also for a piece length that was cut and has a second piece left.

`TorrentClient` composes the parts at the level of their lives: `main`, `pool`, `guard`, and for
`downloadCo`, `storePieces` and the sessions only where they are.  `Work` is what keeps
`io_context::run` from returning.  A session has a slot in `Sessions`.  With a piece it takes the steps of the code:
`CountPiece` (393), `Enqueue` (411), `CheckAll` (414) and `Finish` (417).  Which piece it is is left open, so that a piece may be counted twice
as in finding 1: the counter may pass `PiecesNum` before anybody tests it, and then nobody finds it equal and `downloadCo` goes on.

### PieceQueue

A session's push is `PushBegins` and `PushEnds` on `pQueueStd`; the writer's turn is `TakeFront` (535-544), `Verify`
(546-549), `PopBegins` and `PopEnds` (552), `Write` (553-558) or `Idle` (561).  `strand` is who is on
`pQueueStd`.  `Logger::log` goes to `printStd` and then back to the coroutine's own executor, but only
when it prints, so that `AfterLog` is the strand that is left to the writer: at DEBUG, which `main` passes, the
writer is off `pQueueStd` when it pops; at a higher level it never left.

A push that overlaps a pop is undefined behaviour of a `std::deque`.  The outcomes kept are those libstdc++
can produce: the two touch different ends and nothing happens; the push recentres the map of nodes under the pop, whose begin then
skips elements that nobody took (`Remaining`); the front the writer looks at next is an element
already destroyed (`Destroyed`, a moved-from `PieceBuffer`, for which storePieces logs "Corrupted piece:"); the
process dies.  A queue that lost elements may leave the writer polling for ever (`Starving`).  `DiskFails` lets a write fail; an `ofstream` that failed writes nothing more, and nobody looks.

### PeerWire

`inbound` and `outbound` are the bytes on their way.  The peer frames its messages as BitTorrent does.  The client's
`receive` is `ReadHeader` (five bytes) and `ReadPayload` (as many as the length says), with the length in a signed
integer (`AsInt`), `send` is `Send`, which puts any prefix of its buffer into the stream since `async_send` may and its result is
dropped.  `handshake` reads 68 bytes (`HandshakeBytes`) and compares none.  `Fail` is every exception: a timeout
of five seconds, an error, the end of the stream.  What the session does between is reduced to its calls: INTERESTED
first, then requests, then `receive` again, or `close`.  The handlers are in `PieceExchange`.  EMPTY, which
ends a session, has the value 9, which in BitTorrent is the id of PORT: a PORT message closes the connection.

### Bencode

`do_decode` is an action per turn of its loop; `state` is its stack of open containers, each with the key it will be
stored at.  Tokens instead of characters: `text` is what was taken.  `decode_digits` is a function of the digits with
the overflow checks of the code (`Accepts`, `Fits`), in base `Base` and with limits `MaxInteger` that
stand for 10 and those of `long long`.  `Values` is the loop over the digits; `Worth`, which `DigitsExact` compares it
with, adds up powers of the base.  A string's length is read as a `size_t` in the code; the model
uses the same limit for it.  `encode` in `BencodeEncode` is `encode_to` over the variant, with the keys in the order of `std::map`.

## 3. Runs

| run | instance | shows |
|---|---|---|
| `exchange_safe` | 2 peers that choke once each and drop what they were asked before (no `LateAnswers`), 2 pieces of 2 and 1 blocks, partial bitfields, HAVE | the type invariant, `ClaimsExclusive`, `CompletionSound`, `CompletionNoticed`, `FileComplete`, `RequestsAnnounced`, `StatusFinal`, `VerifiedStays`, and that `PieceLedger` is implemented |
| `exchange_choke` | 2 peers that choke once each and may answer late, 2 requests in flight, corrupt blocks | what survives: `Conservation`, `ClaimHasOwner`, `VerifiedKept`, and that `Discovery` is implemented |
| `exchange_live` | 2 peers, pieces of 3 and 1 blocks, 2 requests in flight, no corruption, `ClientSpec` | `RequestsBounded`, `DownloadEnds`, and `EventuallyStored` under `PeerFairness` |
| `dht_search` | 2 addresses, 1 node and the bootstrap node, 2 peers and 2 nodes per reply | `OneSessionPerAddress`, `PeersServed`, `Discovery` is implemented, `SearchStops`, `WaitEnds` |
| `torrent_sizes` | all sizes up to 40, 4-bit integers, blocks of 2 | `BytesInPlace`, `StoredIsWhole`, `CompletableSizes` |
| `client_life` | 3 pieces, 3 sessions at a time, at most 5 pieces counted | `NothingAbandoned`, `ExitAwaitsWriter`, `ProcessExits` |
| `peer_wire` | 4 messages of the peer (BITFIELD, UNCHOKE, PIECE, PORT, keep-alive), 2 of the client | `FramingSpec` (`Channel` is implemented until a keep-alive), `KeepAliveIsChoke`, `RequestsIntact`, `ReadsReturn` |
| `piece_queue` | 3 pieces, every log level, a disk that may fail | the type invariant, `PopAlone`, `LossHasCause`, `FifoSpec` (`Channel` is implemented until an overlap), `WriterEnds` (or an overlap lost elements, and it polls for ever) |
| `bencode` | texts of up to 6 tokens, every spelling of an integer of up to 4 digits | `InfoHashExact`, `DigitsExact` |
| `choke_file` | 2 peers that choke once each | violates `FileComplete` |
| `threads_completed` | 2 peers | violates `AllThreadsCompleted` |
| `download_completed` | 2 pieces | violates `PrintedIsStored` |

Why these bounds are enough to be of interest.  Two sessions are the smallest number that can
compete for a piece, and every conflict in the code is between two coroutines.  Two pieces let a
session go on to a second piece while the other still has the first, and the last piece is shorter
than the others.  `ParallelReqsNum = 1` leaves a request to be sent from the PIECE handler; the wrap
of `index` needs more blocks than requests, which `exchange_live` has.  `ByteBits = 2` makes the
two pieces share a byte of the bitfield, so that HAVE masks one of them; peers start with nothing, with the
first piece or with both (`SomeBitfields`).  `exchange_safe` has no corrupt blocks, but it has pieces that fail
their hash check: a choke in mid-piece leaves `num` (55), and the next piece is checked with a block missing.  Sessions may start any number of
times, and nothing but `MaxChokes` is bounded in `PieceExchange`.  In `DhtSearch` replies repeat
addresses and nodes up to the stack's bound `MaxStack`.  In `TorrentClient` `MaxReceived` bounds what is
counted: two more than there are pieces, so that a piece counted twice can meet the test at 414 from either side.

`PieceQueue` has no bound but the number of pieces; three let a third session push while the queue
holds more than the front in the writer's hand.  In `PeerWire` bytes have ten values instead of 256, so that
the length of a PIECE needs two of them; four messages are enough for a bitfield, a keep-alive, the message
it damages and the one that is read out of step after it.  `Cuts` = {3} cuts a send inside its length field; the
handshake is two bytes long instead of 68.  In `Bencode` digits are of base 3 and integers from -14 to
13, so that the last digit that may or may not fit exists on both sides, and four digits are two more
than always fit; inside containers numbers are spelt as 0 or 1 only (`Plain`), with the strings empty or of
one character.

In `torrent_sizes` a piece length that was cut leaves a last piece that can still verify.  The smallest
file that has one is of 21 bytes in pieces of 19, of which the client keeps 5 and 3 and writes the last two bytes at 3;
sizes up to 40 are cut once and twice.

`torrent_sizes` runs with `CHECK_DEADLOCK FALSE`: a file that fails to parse, and one whose pieces
cannot complete, have nothing left to do.  So does `peer_wire`: a session that is over does nothing more.

Every property has a mutant in `PROJECT.json`: a definition of the model changed as a plausible
bug would change the code, under which TLC finds the property violated.

### Fairness

`ClientFairness`: a coroutine that can go on does.  Eight threads run the `io_context`, its
queue is served in order, and every wait for a peer ends within five seconds.  This is all that
`DownloadEnds` needs.  `PeerFairness` is an assumption about the swarm, not about the client, and only
`EventuallyStored` uses it: the DHT keeps returning the addresses (which this client does not
itself ensure: see 158), a peer that is able to answer again and again does, and
failures cease at some time.  `DhtSearch` assumes that `findPeers` returns, which its
500 ms timeout gives.  `TorrentClient` assumes that a session goes on after a piece and that its waits end.  `PieceQueue` assumes that the writer
goes on when it can (weak fairness), and strong fairness for each push: a strand serves its handlers in the order they
were posted, so that a push that finds it free again and again gets it.  `PeerWire` assumes weak fairness of
the session, which its timers justify: `Fail` is always possible, and that a read ends one way or the other is
all that is claimed.

### Findings

1. `choke_file`: a session is choked after it sent requests; it gives its piece back
   (338) but keeps `pieceIndex` and the buffer.  Another session claims, downloads and verifies the
   piece.  The first is unchoked, finds no piece to claim, and receives the late answers: the
   handler only compares `pieceIndex` (371), so the piece is verified and counted again (393).
   The writer counts pieces (556) and logs "Store completed!!!" (565) with another piece missing.
   The late answers are all it takes, and nothing else about a choke does harm: with peers that choke as often as
   they like but drop what they were asked before, `CompleteFile` and the theorems beside it hold.
2. `threads_completed`: "All threads completed!!!" (199) is logged when `status` is DOWNLOADED, with
   sessions still running.
3. `download_completed`: "Download completed." (`TorrentClient.cpp:17`) is printed when the torrent
   could not be parsed, when the output file could not be opened, and before the writer has finished.

Some facts the properties come with are worth knowing too: `BytesInPlace` (with a piece length of
4 GiB or more the last piece may verify and be written to a wrong place, in a file that never completes); `StoredIsWhole` (a
length that is a multiple of 4 GiB is cut to zero, and the writer reports an empty file as stored: these torrents are left out);
`CompletableSizes` (sizes with which every piece can complete; a torrent whose length is a multiple of the piece length, or whose last piece is not whole
blocks, is not among them: it never completes in the model either), `RequestsAnnounced`, which holds although HAVE masks the bitfield
the wrong way (357): it only ever forgets pieces; `KeepAliveIsChoke` (a keep-alive is returned as a CHOKE, made of
the first byte of the next message, and what follows is read out of step); `PopAlone` and `LossHasCause` (at the log
level `main` sets, the pop races with pushes; a failed write goes unnoticed; nothing else loses a piece);
`InfoHashExact` (the info hash is right when the text of the info dictionary is canonical).

## 4. Proofs

All theorems hold for any finite set of peers, any positive sizes, any bitfields and any number of
requests in flight.  The constants' assumptions are the `ASSUME`s of the modules.  Most hold whatever the peers do.
Finding 1 shows that the safety of the exchange as a whole cannot: late answers break `FileComplete`, and with it
the invariant.  `SafetyInvariant` and its consequences (`ExclusiveClaims`, `SoundCompletion`, `LastPieceNoticed`,
`CompleteFile`, `ImplementsLedger`, `VerifiedForGood`) assume `Courteous`: peers may choke as often as they like, but
there are no `LateAnswers`, and the torrent has more than one piece; or no peer chokes (`NeverChokes`, `MaxChokes = 0`).
`BoundedRequests` needs `NeverChokes`.

- `TypeCorrect`: `TypeOK` is inductive.  Its one part that is more than a type, `FrontInHand`, says that the
  element the writer took is still at the front when it pops.
- `PiecesConserved`: `Conservation` is inductive with `TypeOK`; chokes and corruption allowed.
- `ClaimsOwned`: `ClaimInv` is the strengthening.  `SelectionInv` says where a session's
  `selectedPiece` can differ from `pieceIndex`, and that a session without a selection that starts one has
  given back or finished what it held; `HolderInv` gives each DOWNLOADING piece a session
  that holds it.  Both are needed since `selectedPiece` is not reset when a piece is verified.
- `NothingLost`: no step takes a piece out of `Verified`; from `TypeOK` alone, of which `FrontInHand` matters: the element that
  is popped is the one in the writer's hand.
- `SafetyInvariant`: `SafetyInv` is `ClaimInv`, `Conservation`, `NoticedInv` (a session that made the counter full
  will look at it), `StoredInv`, and three parts that depend on each other.  `TableInv`: DOWNLOADED marks exactly the verified
  pieces, and a claimed piece has one holder.  `CountInv`: `rcvPiecesNum` is the number of verified
  pieces.  `AnswersOwned`: an answer that passes the test at 371 finds the session still holding the piece.
  `TableInv` needs `AnswersOwned` for a verified piece to be a claimed one; `CountInv` needs `TableInv` for a piece to be
  verified once only.
- `AnswersOwned` is where the peers matter.  It rests on `LineInv`, which is inductive with `ClaimInv`.  A session that
  finished or was refused a piece may still have requests of it on the line (after a choke it counts blocks
  from the old `num`, so that a piece ends before its last answer), and `LineInv` says that these are of
  one piece other than the session's, and come before those of its own.  That the next piece is another one
  needs a second piece: `selectPeace` starts looking behind the last one.  A torrent of one piece comes back to the same,
  and its theorems use `IdleInv` and `WindowInv` and assume `NeverChokes`.
- `BoundedRequests`: `IdleInv` (a selection starts with nothing owed and `num = 0`) and `WindowInv` (the
  requested blocks are the first `num + Len(owed)` of the piece, and where `index` is then).  Both fail with chokes, where
  `num` is stale.
- `ExclusiveClaims`, `SoundCompletion`, `LastPieceNoticed` and `CompleteFile` follow from `SafetyInv`, the last with a
  counting argument over the pieces in the file.
- `ImplementsLedger`: initial states map to initial states, and every step to a step of
  `PieceLedger` or a stutter.  `FinalStatus` needs no invariant.
- `AnnouncedOnly`: from `AnnounceInv`, which follows the bitfield from the handshake through HAVE to the
  selection and the requests; chokes allowed.
- `VerifiedForGood`: from `SafetyInv` before and after a step.
- `PieceExchangeProofs!ImplementsDiscovery`: every step maps to a step of `Discovery` or a stutter, whatever
  the peers do.
- `QueueInvariant`: `SharedInv` is inductive.  `StrandInv`: one push at a time, on the strand.  `WriterInv`: above DEBUG
  the writer with an element in hand is on the strand.  `DamageInv`: overlaps and what they leave exist only at
  DEBUG or below.  `QueueInv`: without damage, the queue is what was pushed and not taken, behind the front the
  writer holds.  `PopIsAlone`, `PieceQueueProofs!TypeCorrect` and `ImplementsFifo` follow.
- `OnlyCauses`: `LossInv` adds that every piece is pushed at most once (`OnceInv`), that the writer took
  the pieces in the order they were pushed (`TakenInv`), and that while disk and queue are sound the file has
  `storedPieces` different pieces (`FileInv`): the writer stops at as many as there are, hence with all of them.
- `SearchInvariant`, `OneSession`, `DhtSearchProofs!ImplementsDiscovery`, `DhtSearchProofs!TypeCorrect`: the invariant has the place of `downloadCo`
  in its loops, and that an address has an entry exactly while it has a session.
- `CoroutinesFinish`, `ExitAfterWriter`, `TorrentClientProofs!TypeCorrect`: from `LifeInv`, which says that whenever the pool has
  returned there was no work left, and that until `downloadCo` has ended there is some.
  They hold however often pieces are counted, and say nothing of which pieces are in the file: that is `CompleteFile` and `OnlyCauses`.
- `InPlace`, `WholeFile`, `CompletableTorrents`: any width of the integers, any block size, any two sizes in the file; for `WholeFile` the
  length must not be a multiple of `2 ^ Width`, of which the client keeps nothing.
  `FileInv` is the invariant: `SizesInv` (the client's sizes are the file's cut to `Width` bits), `WrittenInv` (a byte
  that was written lies in a stored piece) and `StoredInv` (a stored piece completed, and all its bytes were
  written).  No product of an index and the piece length wraps, because it is less than `length`, which was
  cut already (`PlaceOf`).  A piece that is not the last completes only if the piece length was not cut (`FullPiece`):
  the only other length its hash can stand for is that of the file's own last piece, and then the file would
  be a multiple of what is left of the piece length.  So a file with every piece either has an uncut piece length or
  one piece.
- `RequestsArrive`: from `OutboundInv`.  While every send is whole, the stream is the frames of the messages not yet
  taken, each standing at its position (`Stands`), and what was taken is what was asked up to there.  That
  the peer finds the next frame rests on `NumberOfFourBytes`: the four bytes of a number say that number.
- `KeepAliveChokes`, `ImplementsChannel`: from `InboundInv`, the same for the messages of the peer up to its first
  keep-alive, together with what the session has of the next message (`PositionInv`).  They assume that the
  peer's messages are well formed and shorter than 16 MiB (`MessagesAssumption`): the byte that is read as the id of a
  keep-alive is the first of the next length.  For a longer message `KeepAliveIsChoke` would be false.
- `DigitsRead`: any base above one, any limit of the integers, any spellings, the empty one and zeros in front included.
  `AccumulatedIsWorth`: the loop, which multiplies and adds from the left with the sign in every digit, comes to the
  sum of the digits' powers of the base.  `FitsExact`: `check_over_underflow`, which
  compares with a tenth of the limit and its last digit, truncated towards zero, is exact on both sides.  `AcceptsExact`: with
  `digits10` digits the value always fits (`Digits10`), with one more `Fits` decides, and with two more it is too large unless the first
  is a zero.  The recursive functions are reasoned about by induction on a set of naturals (`SetInduction`), which is
  derived from the well-foundedness of `<` and takes no operator as a parameter.  `Reading` is the invariant of `do_decode`: outside a
  container the loop has taken nothing, so an integer alone is the root.

Not proved: the six theorems after `SafetyInvariant` for a torrent of one piece whose peers choke.  There `AnswersOwned` is not
true: a rejected session that comes back to the piece may lose it to another one and still take the last answers for it.
They are too few to make the count full, which is another argument than that of `SafetyInv`; TLC found the six properties
kept on instances of 3 and 4 blocks, 2 and 3 requests in flight and one or two chokes.

Only model-checked: `InfoHashExact`, since `encode` is a recursive operator over nested values; and all liveness
(`DownloadEnds`, `EventuallyStored`, `SearchStops`, `PeersServed`, `WaitEnds`, `ProcessExits`, `WriterEnds`, `ReadsReturn`), since fairness and `ENABLED` are out of the prover's reach.

## 5. Not modelled

- The wire format of the DHT: the query of `findPeers`, and the addresses of 26 and 6 bytes in a reply.  `DhtSearch`
  takes any peers and nodes as the result.  A reply whose nodes are not a multiple of 26 bytes is read beyond its end.
- Writes beyond a buffer (an answer with a `begin` or a length that was not asked for) and into
  a buffer that was moved away: the process may end or go on with anything.
- Messages of other lengths than the protocol has, and a payload too large to be allocated: `receive` throws
  READ_ERROR then, as `Fail` does.  Messages of the peer that ask for data: the client ignores them.
- What `bencode.hpp` has beyond the client's use: views, boost variants, `decode_some`, encoding of other containers,
  and reads of the character behind the end of a text.
- SHA-1 and the random node id (`Utils.cpp`): pure functions; a digest matches when the content does.
- `Common.hpp`: which error code an exception carries.  All handlers treat them alike, and WRITE_ERROR is never used.
- `upload` (an empty function), the public header, which declares an interface that is gone, formatting and
  the text of the log.

## 6. Plan

Done: every part of the inventory except those above, with `PieceLedger`, `Discovery` and `Channel` as abstract
specifications, and the proofs of section 4.  What could follow:

1. The safety theorems for torrents of one piece whose peers choke.
2. The decoding of DHT replies.
