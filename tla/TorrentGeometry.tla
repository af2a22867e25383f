-------------------------- MODULE TorrentGeometry --------------------------
(***************************************************************************)
(* How a torrent's length is cut into pieces and blocks: the arithmetic of *)
(* Torrent::parseTorrentFile, and of the places of selectPeace and         *)
(* downloadFromPeer that recompute the number of blocks of a piece.        *)
(* The operators are pure; ParseTorrent runs them on the 32-bit fields of  *)
(* the class and PieceExchange uses them with constants.                   *)
(***************************************************************************)
EXTENDS Integers

\* Torrent.cpp:80
PiecesNumOf(length, pieceLength) ==
  length \div pieceLength + (IF length % pieceLength > 0 THEN 1 ELSE 0)

\* Torrent.cpp:78.  Zero when the pieces divide the length exactly.
LastPieceLengthOf(length, pieceLength) == length % pieceLength

\* The size of the buffer a piece is collected in (Torrent.cpp:245, 247).
BufferLengthOf(length, pieceLength, i) ==
  IF i = PiecesNumOf(length, pieceLength) - 1
  THEN LastPieceLengthOf(length, pieceLength)
  ELSE pieceLength

\* The blocks asked for, rounded down (Torrent.cpp:212-213, 244 and 364-366).
BlocksOf(length, pieceLength, blockSize, i) ==
  BufferLengthOf(length, pieceLength, i) \div blockSize

-----------------------------------------------------------------------------
(* Reference definitions: what the torrent file means by a piece.          *)

\* The bytes the i-th hash of the torrent file is the digest of.
TrueLengthOf(length, pieceLength, i) ==
  IF (i + 1) * pieceLength <= length
  THEN pieceLength
  ELSE length - i * pieceLength

\* The digest of the buffer can match the torrent's only when the blocks asked
\* for are exactly the bytes of the piece: the rest of the buffer keeps the
\* filler of BlocksBuffer::reset.
CanMatch(length, pieceLength, blockSize, i) ==
  /\ BufferLengthOf(length, pieceLength, i) = TrueLengthOf(length, pieceLength, i)
  /\ BlocksOf(length, pieceLength, blockSize, i) * blockSize
       = BufferLengthOf(length, pieceLength, i)

=============================================================================
