------------------------- MODULE PieceExchangeInv -------------------------
(***************************************************************************)
(* The inductive invariants behind the safety properties of PieceExchange. *)
(* ClaimInv, NoticedInv and StoredInv hold whatever the peers do.          *)
(* TableInv, CountInv and AnswersOwned hold while a choke ends what was    *)
(* asked before it, which LineInv makes of use; IdleInv and WindowInv hold *)
(* while no peer chokes.                                                   *)
(***************************************************************************)
EXTENDS PieceExchange

\* The states in which a session works on the piece it selected, or still has
\* to give it back.
Holds(p) ==
  /\ pc[p] \in {"loop", "recv", "request", "release"}
  /\ selectedPiece[p] # NoPiece

\* When selectPeace runs, the session has given back or finished what it held.
SelectionInv ==
  \A p \in Peers :
    /\ peerStatus[p] = "CHOKED" \/ ~ available[p] => selectedPiece[p] = NoPiece
    /\ pc[p] \in {"off", "connect", "bitfield", "erase"} => selectedPiece[p] = NoPiece
    /\ pc[p] \in {"loop", "recv", "request", "enqueue", "check", "finish"}
         => selectedPiece[p] \in {NoPiece, pieceIndex[p]}
    /\ pc[p] \in {"select", "enqueue", "check", "finish"} => peerStatus[p] = "UNCHOKED"

\* Every claim has a holder.
HolderInv ==
  \A i \in Pieces : piecesStatus[i] = "DOWNLOADING" =>
    \E p \in Peers : Holds(p) /\ selectedPiece[p] = i

ClaimInv == SelectionInv /\ HolderInv

\* Whoever made the counter full will look at it.
NoticedInv ==
  rcvPiecesNum = PiecesNum =>
    status = "DOWNLOADED" \/ \E p \in Peers : pc[p] \in {"enqueue", "check", "finish"}

\* The writer stops only after it counted every piece.
StoredInv == storePc = "done" => storedPieces >= PiecesNum

-----------------------------------------------------------------------------
(* Peers that drop what was asked before they choked.                      *)

\* Until the download is complete, DOWNLOADED marks exactly the verified pieces,
\* and a held piece is DOWNLOADING and has one holder.
TableInv ==
  status # "DOWNLOADED" =>
    /\ \A i \in Pieces : piecesStatus[i] = "DOWNLOADED" <=> i \in Verified
    /\ \A p \in Peers : Holds(p) => piecesStatus[selectedPiece[p]] = "DOWNLOADING"
    /\ \A p, q \in Peers :
         Holds(p) /\ Holds(q) /\ selectedPiece[p] = selectedPiece[q] => p = q

\* rcvPiecesNum counts the verified pieces, and DOWNLOADED finds them all there
\* and no session that still waits for a block of a piece it holds.
CountInv ==
  /\ rcvPiecesNum = Cardinality(Verified)
  /\ \A p \in Peers : pc[p] = "finish" => rcvPiecesNum = PiecesNum
  /\ status = "DOWNLOADED" =>
       /\ Verified = Pieces
       /\ \A p \in Peers : pc[p] = "recv" => selectedPiece[p] = NoPiece

\* An answer that the session takes for the piece it is at finds it still
\* holding that piece.
AnswersOwned ==
  \A p \in Peers :
    Answers(p) /\ Head(owed[p]).piece = pieceIndex[p] => selectedPiece[p] # NoPiece

SafetyInv ==
  /\ ClaimInv /\ Conservation /\ NoticedInv /\ StoredInv
  /\ TableInv /\ CountInv /\ AnswersOwned

\* Why: what a peer that does not choke still owes a session, oldest first.
OnlyOf(reqs, i) == \A k \in 1 .. Len(reqs) : reqs[k].piece = i
NoneOf(reqs, i) == \A k \in 1 .. Len(reqs) : reqs[k].piece # i
Alike(reqs) == \A j, k \in 1 .. Len(reqs) : reqs[j].piece = reqs[k].piece
OthersFirst(reqs, i) ==
  \A j, k \in 1 .. Len(reqs) : j < k /\ reqs[j].piece = i => reqs[k].piece = i

Unclaimed(p) ==
  \/ pc[p] = "select"
  \/ pc[p] \in {"loop", "recv"} /\ selectedPiece[p] = NoPiece

\* Requests left over from an earlier piece are all of one piece and not of the
\* one the session is at; once it requested that one, they come first.  This
\* needs a second piece: the piece after the only one is the same.
LineOf(p) ==
  LET i == pieceIndex[p]
  IN  /\ pc[p] \in {"off", "connect", "bitfield"} => owed[p] = <<>>
      /\ peerStatus[p] = "UNCHOKED" =>
           /\ Unclaimed(p) => Alike(owed[p]) /\ NoneOf(owed[p], i)
           /\ pc[p] = "request" => selectedPiece[p] = i /\ Alike(owed[p])
           /\ pc[p] \in {"enqueue", "check", "finish"}
                => selectedPiece[p] = i /\ OnlyOf(owed[p], i)
           /\ pc[p] \in {"loop", "recv"} /\ selectedPiece[p] # NoPiece
                => OthersFirst(owed[p], i)

LineInv == \A p \in Peers : LineOf(p)

-----------------------------------------------------------------------------
(* Peers that never choke.                                                 *)

\* Outside the message loop nothing is owed, and a new selection starts from
\* num = 0.
IdleInv ==
  \A p \in Peers :
    /\ pc[p] \notin {"loop", "recv", "release", "erase"} => owed[p] = <<>>
    /\ pc[p] \in {"off", "connect", "bitfield", "select", "request"} => num[p] = 0
    /\ pc[p] \in {"loop", "recv"} /\ selectedPiece[p] = NoPiece
         => num[p] = 0 /\ owed[p] = <<>>
    /\ pc[p] \in {"request", "enqueue", "check", "finish"}
         => selectedPiece[p] = pieceIndex[p]
    /\ pc[p] = "request" => blockStatus[p] = {}

\* The blocks requested so far are the first num + Len(owed) of the piece; the
\* window is full until the last one was requested, and only then does index
\* start again from the front, over blocks that were requested first.
WindowOf(p) ==
  LET i == pieceIndex[p]
      asked == num[p] + Len(owed[p])
  IN  /\ asked <= Blocks(i)
      /\ Len(owed[p]) <= FirstRequests(i)
      /\ \A k \in 1 .. Len(owed[p]) :
           owed[p][k].piece = i /\ owed[p][k].block \in 0 .. asked - 1
      /\ 0 .. FirstRequests(i) - 1 \subseteq blockStatus[p]
      /\ blockStatus[p] \subseteq 0 .. asked - 1
      /\ asked < Blocks(i) => Len(owed[p]) = FirstRequests(i) /\ index[p] = asked - 1
      /\ asked = Blocks(i) =>
           \/ Len(owed[p]) = FirstRequests(i) /\ index[p] = Blocks(i) - 1
           \/ index[p] = FirstRequests(i) - Len(owed[p]) - 1

WindowInv ==
  \A p \in Peers : pc[p] \in {"loop", "recv"} /\ owed[p] # <<>> => WindowOf(p)

=============================================================================
