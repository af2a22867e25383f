---------------------------- MODULE MCPieceQueue ----------------------------
(***************************************************************************)
(* PieceQueue with three pieces, so that the queue holds more than the     *)
(* front while a third session pushes, at every log level.                 *)
(***************************************************************************)
EXTENDS PieceQueue

CONSTANTS a, b, c

ThreePieces == {a, b, c}
AnyLevel == ALL .. OFF
=============================================================================
