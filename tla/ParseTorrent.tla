---------------------------- MODULE ParseTorrent ----------------------------
(***************************************************************************)
(* What becomes of the sizes in a torrent file: parseTorrentFile copies    *)
(* them into unsigned ints, the sessions cut pieces and blocks out of them *)
(* and storePieces turns a piece index back into a place in the file.      *)
(* Integers have Width bits where the code has 32.                         *)
(*                                                                         *)
(* The order in which pieces complete is left open, as PieceExchange       *)
(* leaves it; here it matters which pieces can complete at all and where   *)
(* their bytes go.                                                         *)
(***************************************************************************)
EXTENDS TorrentGeometry

CONSTANTS
  Width,       \* bits of an unsigned int: 32, scaled down for TLC
  MaxSize,     \* bound: the largest size in a torrent file
  BlockSize    \* the client's block size

ASSUME WidthAssumption == Width \in Nat /\ 2 ^ Width \in Nat \ {0}
ASSUME BlockSizeAssumption == BlockSize \in Nat \ {0}
ASSUME MaxSizeAssumption == MaxSize \in Nat

VARIABLES
  phase,            \* "file", "parsed", "failed" or "killed"
  fileLength,       \* the file's "length",
  filePieceLength,  \*   its "piece length"
  length,           \* the client's copies
  pieceLength,
  lastPieceLength,
  piecesNum,
  stored,           \* pieces that completed and were written
  written           \* place in the output file -> piece it was written for

torrentFile == <<fileLength, filePieceLength>>
sizes == <<length, pieceLength, lastPieceLength, piecesNum>>
vars == <<phase, torrentFile, sizes, stored, written>>

Nowhere == -1
Places == 0 .. 2 * MaxSize

Init ==
  /\ phase = "file"
  /\ fileLength \in 0 .. MaxSize
  /\ filePieceLength \in 0 .. MaxSize
  /\ length = 0 /\ pieceLength = 0 /\ lastPieceLength = 0 /\ piecesNum = 0
  /\ stored = {}
  /\ written = [o \in Places |-> Nowhere]

-----------------------------------------------------------------------------
(* The arithmetic.                                                         *)

UnsignedInt(n) == n % (2 ^ Width)

\* Mutant of PiecesNumber: the last, shorter piece is forgotten.
FullPiecesOnly(l, pl) == l \div pl

PiecesNumber(l, pl) == PiecesNumOf(l, pl)

LastLength(l, pl) == LastPieceLengthOf(l, pl)

\* Mutant of BufferLength: the last piece is taken to be as long as the others.
BufferLengthSame(i) == pieceLength

\* The buffer of piece i and the blocks asked for.
BufferLength(i) == IF i = piecesNum - 1 THEN lastPieceLength ELSE pieceLength
BlocksCount(i) == BufferLength(i) \div BlockSize

\* The bytes of the torrent the i-th hash stands for.
TrueLength(i) == TrueLengthOf(fileLength, filePieceLength, i)

\* The buffer matches the hash: it has the piece's length and every byte of it
\* was asked for.
Completes(i) ==
  /\ BlocksCount(i) > 0
  /\ BlocksCount(i) * BlockSize = BufferLength(i)
  /\ BufferLength(i) = TrueLength(i)

\* Mutant of Place: pieces are placed by their own length.
PlaceByOwnLength(i) == UnsignedInt(i * BufferLength(i))

\* seekp(pieceBuffer.index * pieceLength), a product of two unsigned ints
Place(i) == UnsignedInt(i * pieceLength)

-----------------------------------------------------------------------------

\* A piece length that is zero in 32 bits kills the process at the first `%`.
Parse ==
  /\ phase = "file"
  /\ UnsignedInt(filePieceLength) # 0
  /\ length' = UnsignedInt(fileLength)
  /\ pieceLength' = UnsignedInt(filePieceLength)
  /\ lastPieceLength' = LastLength(length', pieceLength')
  /\ piecesNum' = PiecesNumber(length', pieceLength')
  /\ phase' = "parsed"
  /\ UNCHANGED <<torrentFile, stored, written>>

DivideByZero ==
  /\ phase = "file"
  /\ UnsignedInt(filePieceLength) = 0
  /\ phase' = "killed"
  /\ UNCHANGED <<torrentFile, sizes, stored, written>>

\* The file is missing, is not bencoded or lacks a key: PARSE_FAILED.
ParseFails ==
  /\ phase = "file"
  /\ phase' = "failed"
  /\ UNCHANGED <<torrentFile, sizes, stored, written>>

\* storePieces writes a piece that a session completed.
StorePiece(i) ==
  /\ phase = "parsed"
  /\ i \in (0 .. piecesNum - 1) \ stored
  /\ Completes(i)
  /\ stored' = stored \cup {i}
  /\ written' = [o \in Places |->
       IF Place(i) <= o /\ o < Place(i) + BufferLength(i) THEN i ELSE written[o]]
  /\ UNCHANGED <<phase, torrentFile, sizes>>

Next ==
  \/ Parse \/ DivideByZero \/ ParseFails
  \/ \E i \in 0 .. MaxSize : StorePiece(i)

Spec == Init /\ [][Next]_vars

-----------------------------------------------------------------------------
(* Properties.                                                             *)

\* A piece length that fits the integer: every byte of the output stands where
\* the torrent has it, in whatever order the pieces arrive, and no product of an
\* index wraps (Torrent.cpp:78-80, 554-555).  Pieces of 4 GiB and more do not
\* keep this: the last one can verify and is written to a wrong place.
BytesInPlace ==
  filePieceLength = pieceLength =>
    \A o \in Places : written[o] # Nowhere =>
      o < fileLength /\ written[o] = o \div filePieceLength

AllStored == phase = "parsed" /\ stored = 0 .. piecesNum - 1

\* When every piece was stored the output is the whole torrent, byte for byte,
\* also where the sizes lost their upper bits.  A length that lost all it had, a
\* multiple of 4 GiB, is left out: the client sees no pieces then, and an empty
\* file passes for complete (Torrent.cpp:75-80, 535, 554-555).
StoredIsWhole ==
  AllStored /\ UnsignedInt(fileLength) # 0 =>
    \A o \in 0 .. fileLength - 1 : written[o] = o \div filePieceLength

\* Sizes the client keeps as they are (a piece length only has to stay above the
\* length of a torrent of one piece), pieces of whole blocks, and a last piece that
\* is a remainder of whole blocks.
FittingSizes ==
  /\ fileLength = length
  /\ filePieceLength = pieceLength \/ fileLength < pieceLength
  /\ fileLength % filePieceLength # 0
  /\ (fileLength % filePieceLength) % BlockSize = 0
  /\ fileLength > filePieceLength => filePieceLength % BlockSize = 0

\* With such sizes every piece can complete: it is asked for in full, and what is
\* asked for is what its hash stands for.  Nothing is claimed of other sizes
\* (Torrent.cpp:75-80, 212-213, 244-247, 380-388).
CompletableSizes ==
  phase = "parsed" /\ FittingSizes => \A i \in 0 .. piecesNum - 1 : Completes(i)

=============================================================================
