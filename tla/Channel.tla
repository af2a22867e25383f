------------------------------ MODULE Channel ------------------------------
(***************************************************************************)
(* What a queue between two parties promises: what comes out is what went  *)
(* in, in that order, each element once.  PeerWire implements it with the  *)
(* messages of a peer, PieceQueue with the verified pieces.                *)
(***************************************************************************)
EXTENDS Naturals, Sequences

CONSTANT Elements

VARIABLES
  sent,       \* everything that was put in
  delivered   \* everything that was taken out

channelVars == <<sent, delivered>>

Init == sent = <<>> /\ delivered = <<>>

Send(e) ==
  /\ sent' = Append(sent, e)
  /\ UNCHANGED delivered

Deliver ==
  /\ Len(delivered) < Len(sent)
  /\ delivered' = Append(delivered, sent[Len(delivered) + 1])
  /\ UNCHANGED sent

Next == Deliver \/ \E e \in Elements : Send(e)

Spec == Init /\ [][Next]_channelVars

=============================================================================
