-------------------------- MODULE MCPieceExchange --------------------------
(***************************************************************************)
(* Small instances of PieceExchange: two peers, and a torrent of three     *)
(* bytes in a piece of two one-byte blocks and a last piece of one block.  *)
(***************************************************************************)
EXTENDS PieceExchangeInv, TLC

CONSTANTS a, b

OnePeer == {a}
TwoPeers == {a, b}
Symmetry == Permutations(TwoPeers)

\* Peers that have everything, nothing yet, or only the first piece.
SomeBitfields == {{}, {0}, Pieces}
FullBitfield == {Pieces}
=============================================================================
