----------------------------- MODULE MCPeerWire -----------------------------
(***************************************************************************)
(* PeerWire with a bitfield of one byte, blocks of one byte and bytes of   *)
(* ten values, so that the length of a PIECE takes two of them.            *)
(***************************************************************************)
EXTENDS PeerWire

Bitfield == [length |-> 2, id |-> BITFIELD, payload |-> <<3>>]
Unchoke == [length |-> 1, id |-> 1, payload |-> <<>>]
Piece == [length |-> 10, id |-> 7, payload |-> <<0, 0, 0, 1, 0, 0, 1, 2, 8>>]
Port == [length |-> 3, id |-> EMPTY, payload |-> <<6, 8>>]

AnyMessage == {Bitfield, Unchoke, Piece, Port, KeepAlive}
TwoAsks == {[index |-> 1, begin |-> 0], [index |-> 1, begin |-> 12]}
=============================================================================
