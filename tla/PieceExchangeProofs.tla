------------------------ MODULE PieceExchangeProofs ------------------------
(***************************************************************************)
(* What TLAPS proves about PieceExchange for every set of peers, every     *)
(* torrent and every number of chokes: first what holds whatever the peers *)
(* do, then what holds while a choke ends what was asked before it or no   *)
(* peer chokes, and with it the abstract specifications.                   *)
(***************************************************************************)
EXTENDS PieceExchangeInv, FiniteSetTheorems, SequenceTheorems, TLAPS

\* A torrent has at least one piece, and NextPiece stays inside it.
LEMMA PiecesNumPositive == PiecesNum \in Nat \ {0}
<1>1. Length \div PieceLength \in Nat /\ Length % PieceLength \in Nat
  BY SizesAssumption
<1>2. Length % PieceLength = 0 => Length \div PieceLength > 0
  <2>1. Length = PieceLength * (Length \div PieceLength) + (Length % PieceLength)
    BY SizesAssumption
  <2>. QED  BY <1>1, <2>1, SizesAssumption
<1>. QED
  BY <1>1, <1>2 DEF PiecesNum, PiecesNumOf

LEMMA NextPieceType == \A i \in Pieces : NextPiece(i) \in Pieces
BY PiecesNumPositive DEF Pieces, NextPiece

LEMMA BlocksType == \A i \in Pieces : Blocks(i) \in Nat /\ FirstRequests(i) \in Nat
<1>. SUFFICES ASSUME NEW i \in Pieces PROVE Blocks(i) \in Nat
  BY SizesAssumption DEF FirstRequests
<1>. DEFINE len == BufferLengthOf(Length, PieceLength, i)
<1>1. len \in Nat
  BY SizesAssumption DEF BufferLengthOf, LastPieceLengthOf
<1>2. \A n \in Nat : n \div BlockSize \in Nat
  BY SizesAssumption
<1>3. Blocks(i) = len \div BlockSize
  BY DEF Blocks, BlocksOf
<1>. HIDE DEF len
<1>. QED  BY <1>1, <1>2, <1>3

LEMMA RequestsType ==
  \A i \in Pieces, n \in Nat : Requests(i, n) \in Seq(Requestable)
BY DEF Requests, Requestable

LEMMA FilledType ==
  ASSUME TypeOK, NEW p \in Peers, NEW good \in Contents
  PROVE  Filled(p, good) \in [BlockNums -> Pieces \cup {Filler, Moved}]
BY DEF TypeOK, ChoiceType, BufferType, Filled

LEMMA SuffixesType ==
  ASSUME NEW S, NEW s \in Seq(S), NEW t \in Suffixes(s)
  PROVE  t \in Seq(S)
<1>1. PICK k \in 1 .. Len(s) + 1 : t = SubSeq(s, k, Len(s))
  BY DEF Suffixes
<1>2. k \in Int /\ Len(s) \in Int /\ \A i \in k .. Len(s) : s[i] \in S
  OBVIOUS
<1>. QED  BY <1>1, <1>2, SubSeqProperties

\* The oldest request a peer owes, and the others.
LEMMA OldestOwed ==
  ASSUME OwedType, NEW p \in Peers, owed[p] # <<>>
  PROVE  /\ Head(owed[p]) \in Requestable
         /\ Head(owed[p]).piece \in Pieces /\ Head(owed[p]).block \in Nat
         /\ Tail(owed[p]) \in Seq(Requestable)
<1>1. owed[p] \in Seq(Requestable)
  BY DEF OwedType
<1>2. Head(owed[p]) \in Requestable /\ Tail(owed[p]) \in Seq(Requestable)
  BY <1>1, HeadTailProperties
<1>. QED  BY <1>2 DEF Requestable

-----------------------------------------------------------------------------
(* Type correctness.                                                       *)

LEMMA TypeInit == Init => TypeOK
BY PiecesNumPositive
   DEF Init, TypeOK, SharedType, StoreType, ChoiceType, BufferType, LineType, OwedType,
       FrontInHand, Pieces, NoPiece, PcStates, Fresh

\* The parts of TypeOK whose variables a step leaves alone.
LEMMA TypeUnchanged ==
  ASSUME TypeOK
  PROVE  /\ UNCHANGED shared => SharedType'
         /\ UNCHANGED storeVars => StoreType'
         /\ UNCHANGED choice => ChoiceType'
         /\ UNCHANGED buffer => BufferType'
         /\ UNCHANGED line => LineType'
         /\ UNCHANGED owed => OwedType'
         /\ UNCHANGED <<piecesQueue, storeVars>> => FrontInHand'
BY DEF TypeOK, FrontInHand, SharedType, StoreType, ChoiceType, BufferType, LineType, OwedType,
       shared, storeVars, choice, buffer, line

LEMMA TypeStep == TypeOK /\ [Next]_vars => TypeOK'
<1>. SUFFICES ASSUME TypeOK, [Next]_vars PROVE TypeOK'
  OBVIOUS
<1>0. /\ SharedType /\ StoreType /\ ChoiceType /\ BufferType /\ LineType /\ OwedType
      /\ FrontInHand /\ searching \in BOOLEAN /\ pc \in [Peers -> PcStates]
  BY DEF TypeOK
<1>s. ASSUME NEW p \in Peers, NEW there \in PcStates, Goto(p, there)
      PROVE  pc' \in [Peers -> PcStates]
  BY <1>0, <1>s DEF Goto
<1>t. /\ SharedType' /\ StoreType' /\ ChoiceType' /\ BufferType' /\ LineType' /\ OwedType'
      /\ FrontInHand' /\ searching' \in BOOLEAN /\ pc' \in [Peers -> PcStates]
      => TypeOK'
  BY DEF TypeOK
<1>1. ASSUME NEW p \in Peers, Spawn(p) \/ SessionFails(p) \/ Loop(p)
                                \/ ReceiveFails(p) \/ ReceiveOther(p)
      PROVE  TypeOK'
  <2>1. pc' \in [Peers -> PcStates]
    BY <1>1, <1>s DEF Spawn, SessionFails, Loop, ReceiveFails, ReceiveOther, PcStates
  <2>. QED
    BY <1>0, <1>1, <1>t, <2>1, TypeUnchanged
       DEF Spawn, SessionFails, Loop, ReceiveFails, ReceiveOther, shared
<1>2. ASSUME NEW p \in Peers, Handshake(p) PROVE TypeOK'
  <2>1. SharedType'
    BY <1>0, <1>2 DEF Handshake, Opened, SharedType
  <2>2. pc' \in [Peers -> PcStates]
    BY <1>2, <1>s DEF Handshake, PcStates
  <2>. QED  BY <1>0, <1>2, <1>t, <2>1, <2>2, TypeUnchanged DEF Handshake, shared
<1>3. ASSUME NEW p \in Peers, Bitfield(p) PROVE TypeOK'
  <2>1. LineType'
    BY <1>0, <1>3, BitfieldsAssumption DEF Bitfield, LineType
  <2>2. pc' \in [Peers -> PcStates]
    BY <1>3, <1>s DEF Bitfield, PcStates
  <2>. QED  BY <1>0, <1>3, <1>t, <2>1, <2>2, TypeUnchanged DEF Bitfield, shared
<1>4. ASSUME NEW p \in Peers, Unchoke(p) PROVE TypeOK'
  <2>1. LineType'
    BY <1>0, <1>4 DEF Unchoke, LineType
  <2>2. OwedType'
    <3>1. PICK rest \in Suffixes(owed[p]) : owed' = [owed EXCEPT ![p] = rest]
      BY <1>4 DEF Unchoke
    <3>2. rest \in Seq(Requestable)
      BY <1>0, SuffixesType DEF OwedType
    <3>. QED  BY <1>0, <3>1, <3>2 DEF OwedType
  <2>3. pc' \in [Peers -> PcStates]
    BY <1>4, <1>s DEF Unchoke, PcStates
  <2>. QED  BY <1>0, <1>4, <1>t, <2>1, <2>2, <2>3, TypeUnchanged DEF Unchoke, shared
<1>5. ASSUME NEW p \in Peers, Choke(p) PROVE TypeOK'
  <2>1. SharedType' /\ ChoiceType'
    BY <1>0, <1>5 DEF Choke, ReleasePiece, SharedType, ChoiceType, NoPiece
  <2>2. LineType'
    BY <1>0, <1>5 DEF Choke, LineType
  <2>3. pc' \in [Peers -> PcStates]
    BY <1>5, <1>s DEF Choke, PcStates
  <2>. QED  BY <1>0, <1>5, <1>t, <2>1, <2>2, <2>3, TypeUnchanged DEF Choke, shared
<1>6. ASSUME NEW p \in Peers, Have(p) PROVE TypeOK'
  <2>1. LineType'
    BY <1>0, <1>6 DEF Have, Masked, LineType
  <2>2. pc' \in [Peers -> PcStates]
    BY <1>6, <1>s DEF Have, PcStates
  <2>. QED  BY <1>0, <1>6, <1>t, <2>1, <2>2, TypeUnchanged DEF Have, shared
<1>7. ASSUME NEW p \in Peers, BlockIgnored(p) PROVE TypeOK'
  <2>1. OwedType'
    BY <1>0, <1>7, OldestOwed DEF BlockIgnored, Answers, OwedType
  <2>2. pc' \in [Peers -> PcStates]
    BY <1>7, <1>s DEF BlockIgnored, PcStates
  <2>. QED  BY <1>0, <1>7, <1>t, <2>1, <2>2, TypeUnchanged DEF BlockIgnored, shared
<1>8. ASSUME NEW p \in Peers, BlockStored(p) PROVE TypeOK'
  <2>1. owed[p] # <<>>
    BY <1>8 DEF BlockStored, AnswersCurrent, Answers
  <2>1a. NextIndex(p) \in Nat
    BY <1>0, BlocksType DEF NextIndex, ChoiceType, BufferType
  <2>2. BufferType'
    <3>1. PICK good \in Contents : data' = [data EXCEPT ![p] = Filled(p, good)]
      BY <1>8 DEF BlockStored
    <3>2. Filled(p, good) \in [BlockNums -> Pieces \cup {Filler, Moved}]
      BY FilledType
    <3>. QED
      BY <1>0, <1>8, <2>1, <2>1a, <3>1, <3>2, OldestOwed DEF BlockStored, BufferType
  <2>3. OwedType'
    <3>. DEFINE next == [piece |-> pieceIndex[p], block |-> NextIndex(p)]
    <3>1. next \in Requestable
      BY <1>0, <2>1a DEF Requestable, ChoiceType
    <3>2. Tail(owed[p]) \in Seq(Requestable) /\ Append(Tail(owed[p]), next) \in Seq(Requestable)
      BY <1>0, <2>1, <3>1, OldestOwed
    <3>. QED  BY <1>0, <1>8, <3>2 DEF BlockStored, OwedType
  <2>4. pc' \in [Peers -> PcStates]
    BY <1>8, <1>s DEF BlockStored, PcStates
  <2>. QED  BY <1>0, <1>8, <1>t, <2>2, <2>3, <2>4, TypeUnchanged DEF BlockStored, shared
<1>9. ASSUME NEW p \in Peers, PieceVerified(p) PROVE TypeOK'
  <2>1. owed[p] # <<>>
    BY <1>9 DEF PieceVerified, AnswersCurrent, Answers
  <2>2. SharedType'
    BY <1>0, <1>9 DEF PieceVerified, SetPiece, SharedType, ChoiceType
  <2>3. BufferType'
    BY <1>0, <1>9, <2>1, OldestOwed DEF PieceVerified, BufferType
  <2>4. OwedType'
    BY <1>0, <1>9, <2>1, OldestOwed DEF PieceVerified, OwedType
  <2>5. pc' \in [Peers -> PcStates]
    BY <1>9, <1>s DEF PieceVerified, PcStates
  <2>. QED  BY <1>0, <1>9, <1>t, <2>2, <2>3, <2>4, <2>5, TypeUnchanged DEF PieceVerified, shared
<1>10. ASSUME NEW p \in Peers, PieceRejected(p) PROVE TypeOK'
  <2>1. owed[p] # <<>>
    BY <1>10 DEF PieceRejected, AnswersCurrent, Answers
  <2>2. SharedType' /\ ChoiceType'
    BY <1>0, <1>10, NextPieceType DEF PieceRejected, SetPiece, SharedType, ChoiceType
  <2>3. BufferType'
    <3>1. PICK good \in Contents : data' = [data EXCEPT ![p] = Filled(p, good)]
      BY <1>10 DEF PieceRejected
    <3>2. Filled(p, good) \in [BlockNums -> Pieces \cup {Filler, Moved}]
      BY FilledType
    <3>. QED  BY <1>0, <1>10, <2>1, <3>1, <3>2, OldestOwed DEF PieceRejected, BufferType
  <2>4. OwedType'
    BY <1>0, <1>10, <2>1, OldestOwed DEF PieceRejected, OwedType
  <2>5. pc' \in [Peers -> PcStates]
    BY <1>10, <1>s DEF PieceRejected, PcStates
  <2>. QED  BY <1>0, <1>10, <1>t, <2>2, <2>3, <2>4, <2>5, TypeUnchanged DEF PieceRejected, shared
<1>11. ASSUME NEW p \in Peers, Enqueue(p) PROVE TypeOK'
  <2>1. piecesQueue' \in Seq(Pieces) /\ (storePc = "pop" => Head(piecesQueue') = Head(piecesQueue))
    BY <1>0, <1>11 DEF Enqueue, SharedType, ChoiceType, FrontInHand
  <2>2. SharedType' /\ FrontInHand'
    BY <1>0, <1>11, <2>1 DEF Enqueue, SharedType, ChoiceType, FrontInHand, storeVars
  <2>3. pc' \in [Peers -> PcStates]
    BY <1>11, <1>s DEF Enqueue, PcStates
  <2>. QED  BY <1>0, <1>11, <1>t, <2>2, <2>3, TypeUnchanged DEF Enqueue, shared
<1>20. ASSUME NEW p \in Peers, Finish(p) PROVE TypeOK'
  <2>1. SharedType'
    BY <1>0, <1>20 DEF Finish, SharedType
  <2>2. pc' \in [Peers -> PcStates]
    BY <1>20, <1>s DEF Finish, PcStates
  <2>. QED  BY <1>0, <1>20, <1>t, <2>1, <2>2, TypeUnchanged DEF Finish, shared
<1>12. ASSUME NEW p \in Peers, CheckAll(p) PROVE TypeOK'
  <2>1. ChoiceType' /\ BufferType'
    BY <1>0, <1>12, NextPieceType DEF CheckAll, ChoiceType, BufferType
  <2>2. pc' \in [Peers -> PcStates]
    BY <1>12, <1>s DEF CheckAll, PcStates
  <2>. QED  BY <1>0, <1>12, <1>t, <2>1, <2>2, TypeUnchanged DEF CheckAll, shared
<1>13. ASSUME NEW p \in Peers, SelectFound(p) PROVE TypeOK'
  <2>1. PICK i \in Wanted(p) :
          /\ SetPiece(i, "DOWNLOADING")
          /\ pieceIndex' = [pieceIndex EXCEPT ![p] = i]
          /\ selectedPiece' = [selectedPiece EXCEPT ![p] = i]
    BY <1>13 DEF SelectFound
  <2>2. i \in Pieces
    BY <1>0 DEF Wanted, LineType
  <2>3. SharedType' /\ ChoiceType'
    BY <1>0, <1>13, <2>1, <2>2 DEF SelectFound, SetPiece, SharedType, ChoiceType
  <2>4. BufferType'
    BY <1>0, <1>13 DEF SelectFound, BufferType, Fresh
  <2>5. pc' \in [Peers -> PcStates]
    BY <1>13, <1>s DEF SelectFound, PcStates
  <2>. QED  BY <1>0, <1>13, <1>t, <2>3, <2>4, <2>5, TypeUnchanged DEF SelectFound, shared
<1>14. ASSUME NEW p \in Peers, SelectNone(p) PROVE TypeOK'
  <2>1. ChoiceType'
    BY <1>0, <1>14 DEF SelectNone, ChoiceType
  <2>2. pc' \in [Peers -> PcStates]
    BY <1>14, <1>s DEF SelectNone, PcStates
  <2>. QED  BY <1>0, <1>14, <1>t, <2>1, <2>2, TypeUnchanged DEF SelectNone, shared
<1>15. ASSUME NEW p \in Peers, Request(p) PROVE TypeOK'
  <2>. DEFINE n == FirstRequests(pieceIndex[p])
  <2>1. n \in Nat /\ Requests(pieceIndex[p], n) \in Seq(Requestable)
    BY <1>0, BlocksType, RequestsType DEF ChoiceType
  <2>2. BufferType'
    BY <1>0, <1>15, <2>1 DEF Request, BufferType
  <2>3. OwedType'
    BY <1>0, <1>15, <2>1 DEF Request, OwedType
  <2>4. pc' \in [Peers -> PcStates]
    BY <1>15, <1>s DEF Request, PcStates
  <2>. QED  BY <1>0, <1>15, <1>t, <2>2, <2>3, <2>4, TypeUnchanged DEF Request, shared
<1>16. ASSUME NEW p \in Peers, Release(p) PROVE TypeOK'
  <2>1. SharedType' /\ ChoiceType'
    BY <1>0, <1>16 DEF Release, ReleasePiece, SharedType, ChoiceType, NoPiece
  <2>2. pc' \in [Peers -> PcStates]
    BY <1>16, <1>s DEF Release, PcStates
  <2>. QED  BY <1>0, <1>16, <1>t, <2>1, <2>2, TypeUnchanged DEF Release, shared
<1>17. ASSUME NEW p \in Peers, Erase(p) PROVE TypeOK'
  <2>1. ChoiceType'
    BY <1>0, <1>17, PiecesNumPositive DEF Erase, ChoiceType, Pieces
  <2>2. BufferType'
    BY <1>0, <1>17 DEF Erase, BufferType, Fresh
  <2>3. LineType' /\ OwedType'
    BY <1>0, <1>17 DEF Erase, LineType, OwedType
  <2>4. pc' \in [Peers -> PcStates]
    BY <1>17, <1>s DEF Erase, PcStates
  <2>. QED  BY <1>0, <1>17, <1>t, <2>1, <2>2, <2>3, <2>4, TypeUnchanged DEF Erase, shared
<1>18. CASE Store
  <2>1. CASE StoreOpen \/ StoreWrite \/ StoreDone
    <3>1. StoreType' /\ FrontInHand'
      BY <1>0, <2>1 DEF StoreOpen, StoreWrite, StoreDone, StoreType, FrontInHand, NoPiece
    <3>. QED  BY <1>0, <1>t, <2>1, <3>1, TypeUnchanged DEF StoreOpen, StoreWrite, StoreDone, shared
  <2>2. CASE StoreFront
    <3>1. Head(piecesQueue) \in Pieces
      BY <1>0, <2>2, HeadTailProperties DEF StoreFront, SharedType
    <3>2. StoreType' /\ FrontInHand'
      BY <1>0, <2>2, <3>1 DEF StoreFront, Oldest, StoreType, FrontInHand, shared
    <3>. QED  BY <1>0, <1>t, <2>2, <3>2, TypeUnchanged DEF StoreFront, shared
  <2>3. CASE StorePop
    <3>1. Tail(piecesQueue) \in Seq(Pieces)
      BY <1>0, <2>3, HeadTailProperties DEF StorePop, SharedType, FrontInHand
    <3>2. SharedType' /\ StoreType' /\ FrontInHand'
      BY <1>0, <2>3, <3>1 DEF StorePop, Popped, SharedType, StoreType, FrontInHand
    <3>. QED  BY <1>0, <1>t, <2>3, <3>2, TypeUnchanged DEF StorePop, shared
  <2>4. CASE StoreIdle
    BY <1>0, <1>t, <2>4, TypeUnchanged DEF StoreIdle, vars, storeVars, shared
  <2>. QED  BY <1>18, <2>1, <2>2, <2>3, <2>4 DEF Store
<1>19. CASE SearchEnd \/ AllReturned \/ UNCHANGED vars
  BY <1>0, <1>19, <1>t, TypeUnchanged DEF SearchEnd, AllReturned, vars, shared
<1>. QED
  BY <1>1, <1>2, <1>3, <1>4, <1>5, <1>6, <1>7, <1>8, <1>9, <1>10, <1>11, <1>12,
     <1>13, <1>14, <1>15, <1>16, <1>17, <1>18, <1>19, <1>20
     DEF Next, Session, Receive

\* Every variable keeps its type, for every number of chokes.
THEOREM TypeCorrect == Spec => []TypeOK
BY TypeInit, TypeStep, PTL DEF Spec

-----------------------------------------------------------------------------
(* Conservation.                                                           *)

LEMMA PendingFinite == IsFiniteSet(Pending) /\ Cardinality(Pending) \in Nat
<1>1. IsFiniteSet(Pending)
  BY PeersAssumption, FS_Subset DEF Pending
<1>. QED  BY <1>1, FS_CardinalityType

LEMMA ConservationInit == Init => Conservation
<1>. SUFFICES ASSUME Init PROVE Conservation
  OBVIOUS
<1>1. Pending = {}
  BY DEF Init, Pending
<1>. QED  BY <1>1, FS_EmptySet DEF Init, Conservation

\* The steps that move no piece.
LEMMA ConservationUnchanged ==
  ASSUME Conservation, UNCHANGED <<rcvPiecesNum, piecesQueue, storedPieces>>,
         storePc' = "write" <=> storePc = "write",
         \A q \in Peers : pc'[q] = "enqueue" <=> pc[q] = "enqueue"
  PROVE  Conservation'
<1>1. Pending' = Pending
  BY DEF Pending
<1>. QED  BY <1>1 DEF Conservation

LEMMA ConservationStep == TypeOK /\ Conservation /\ [Next]_vars => Conservation'
<1>. SUFFICES ASSUME TypeOK, Conservation, [Next]_vars PROVE Conservation'
  OBVIOUS
<1>0. /\ rcvPiecesNum \in Nat /\ storedPieces \in Nat /\ piecesQueue \in Seq(Pieces)
      /\ pc \in [Peers -> PcStates] /\ pieceIndex \in [Peers -> Pieces] /\ FrontInHand
  BY DEF TypeOK, SharedType, StoreType, ChoiceType
<1>1. ASSUME NEW p \in Peers,
             \/ Spawn(p) \/ Handshake(p) \/ Bitfield(p) \/ SessionFails(p) \/ Loop(p)
             \/ Unchoke(p) \/ Choke(p) \/ Have(p) \/ ReceiveFails(p) \/ ReceiveOther(p)
             \/ BlockIgnored(p) \/ BlockStored(p) \/ PieceRejected(p)
             \/ CheckAll(p) \/ Finish(p) \/ SelectFound(p) \/ SelectNone(p)
             \/ Request(p) \/ Release(p) \/ Erase(p)
      PROVE  Conservation'
  <2>1. UNCHANGED <<rcvPiecesNum, piecesQueue, storedPieces, storePc>>
    BY <1>1 DEF Spawn, Handshake, Bitfield, SessionFails, Loop, Unchoke, Choke, Have,
         ReceiveFails, ReceiveOther, BlockIgnored, BlockStored, PieceRejected, CheckAll,
         Finish, SelectFound, SelectNone, Request, Release, Erase, shared, storeVars
  <2>2. \A q \in Peers : pc'[q] = "enqueue" <=> pc[q] = "enqueue"
    BY <1>0, <1>1 DEF Spawn, Handshake, Bitfield, SessionFails, Loop, Unchoke, Choke, Have,
         ReceiveFails, ReceiveOther, BlockIgnored, BlockStored, PieceRejected, CheckAll,
         Finish, SelectFound, SelectNone, Request, Release, Erase, Goto,
         AnswersCurrent, Answers
  <2>. QED  BY <2>1, <2>2, ConservationUnchanged
<1>2. ASSUME NEW p \in Peers, PieceVerified(p) PROVE Conservation'
  <2>1. p \notin Pending /\ Pending' = Pending \cup {p}
    BY <1>0, <1>2 DEF PieceVerified, AnswersCurrent, Answers, Pending, Goto
  <2>2. Cardinality(Pending') = Cardinality(Pending) + 1
    BY <2>1, PendingFinite, FS_AddElement
  <2>. QED
    BY <1>0, <1>2, <2>2, PendingFinite DEF PieceVerified, Conservation, storeVars
<1>3. ASSUME NEW p \in Peers, Enqueue(p) PROVE Conservation'
  <2>1. p \in Pending /\ Pending' = Pending \ {p}
    BY <1>0, <1>3 DEF Enqueue, Pending, Goto
  <2>2. Cardinality(Pending') = Cardinality(Pending) - 1
    BY <2>1, PendingFinite, FS_RemoveElement
  <2>3. Len(piecesQueue') = Len(piecesQueue) + 1
    BY <1>0, <1>3 DEF Enqueue
  <2>. QED
    BY <1>0, <1>3, <2>2, <2>3, PendingFinite DEF Enqueue, Conservation, storeVars
<1>4. CASE StoreOpen \/ StoreFront \/ StoreIdle \/ StoreDone
  <2>. QED
    BY <1>4, ConservationUnchanged
       DEF StoreOpen, StoreFront, StoreIdle, StoreDone, vars, shared, storeVars
<1>5. CASE StorePop
  <2>1. Pending' = Pending
    BY <1>5 DEF StorePop, Pending
  <2>2. Len(piecesQueue') = Len(piecesQueue) - 1
    BY <1>0, <1>5, HeadTailProperties DEF StorePop, Popped, FrontInHand
  <2>. QED
    BY <1>0, <1>5, <2>1, <2>2, PendingFinite DEF StorePop, Conservation
<1>6. CASE StoreWrite
  <2>1. Pending' = Pending
    BY <1>6 DEF StoreWrite, Pending
  <2>. QED
    BY <1>0, <1>6, <2>1, PendingFinite DEF StoreWrite, Conservation, shared
<1>7. CASE SearchEnd \/ AllReturned \/ UNCHANGED vars
  BY <1>7, ConservationUnchanged DEF SearchEnd, AllReturned, vars, shared, storeVars
<1>. QED
  BY <1>1, <1>2, <1>3, <1>4, <1>5, <1>6, <1>7 DEF Next, Session, Receive, Store

\* No verified piece is lost or duplicated between its hash check and the file.
THEOREM PiecesConserved == Spec => []Conservation
BY ConservationInit, ConservationStep, TypeCorrect, PTL DEF Spec

-----------------------------------------------------------------------------
(* Claims.                                                                 *)

LEMMA ClaimInit == Init => ClaimInv
BY PiecesNumPositive DEF Init, ClaimInv, SelectionInv, HolderInv

\* A step that touches no claim keeps the holder of every claim.
LEMMA SelectionStep == TypeOK /\ SelectionInv /\ [Next]_vars => SelectionInv'
<1>. SUFFICES ASSUME TypeOK, SelectionInv, [Next]_vars PROVE SelectionInv'
  OBVIOUS
<1>0. /\ pc \in [Peers -> PcStates]
      /\ peerStatus \in [Peers -> {"CHOKED", "UNCHOKED"}]
      /\ ChoiceType
  BY DEF TypeOK, LineType
<1>. USE <1>0 DEF SelectionInv, Goto, ChoiceType, NoPiece, choice, line
<1>1. ASSUME NEW p \in Peers,
             Spawn(p) \/ Handshake(p) \/ Bitfield(p) \/ SessionFails(p) \/ Loop(p)
      PROVE  SelectionInv'
  BY <1>1 DEF Spawn, Handshake, Bitfield, SessionFails, Loop
<1>2. ASSUME NEW p \in Peers,
             Unchoke(p) \/ Have(p) \/ ReceiveFails(p) \/ ReceiveOther(p)
      PROVE  SelectionInv'
  BY <1>2 DEF Unchoke, Have, ReceiveFails, ReceiveOther
<1>3. ASSUME NEW p \in Peers, Choke(p) PROVE SelectionInv'
  BY <1>3 DEF Choke, ReleasePiece
<1>4. ASSUME NEW p \in Peers,
             BlockIgnored(p) \/ BlockStored(p) \/ PieceVerified(p) \/ PieceRejected(p)
      PROVE  SelectionInv'
  BY <1>4 DEF BlockIgnored, BlockStored, PieceVerified, PieceRejected, AnswersCurrent, Answers
<1>5. ASSUME NEW p \in Peers, Enqueue(p) \/ CheckAll(p) \/ Finish(p) PROVE SelectionInv'
  BY <1>5 DEF Enqueue, CheckAll, Finish
<1>6. ASSUME NEW p \in Peers, SelectFound(p) PROVE SelectionInv'
  BY <1>6 DEF SelectFound
<1>7. ASSUME NEW p \in Peers, SelectNone(p) \/ Request(p) PROVE SelectionInv'
  BY <1>7 DEF SelectNone, Request
<1>8. ASSUME NEW p \in Peers, Release(p) \/ Erase(p) PROVE SelectionInv'
  BY <1>8 DEF Release, ReleasePiece, Erase
<1>9. CASE Store
  BY <1>9 DEF Store, StoreOpen, StoreFront, StoreIdle, StorePop, StoreWrite, StoreDone, vars
<1>10. CASE SearchEnd \/ AllReturned \/ UNCHANGED vars
  BY <1>10 DEF SearchEnd, AllReturned, vars
<1>. QED
  BY <1>1, <1>2, <1>3, <1>4, <1>5, <1>6, <1>7, <1>8, <1>9, <1>10 DEF Next, Session, Receive

LEMMA HolderStep == TypeOK /\ ClaimInv /\ [Next]_vars => HolderInv'
<1>. SUFFICES ASSUME TypeOK, ClaimInv, [Next]_vars PROVE HolderInv'
  OBVIOUS
<1>0. /\ pc \in [Peers -> PcStates] /\ ChoiceType
      /\ piecesStatus \in [Pieces -> {"NOT_DOWNLOADED", "DOWNLOADING", "DOWNLOADED"}]
      /\ SelectionInv /\ HolderInv
      /\ \A p \in Peers : availablePieces[p] \subseteq Pieces
  BY DEF TypeOK, LineType, SharedType, ClaimInv
<1>. DEFINE Kept ==
       \A i \in Pieces : piecesStatus'[i] = "DOWNLOADING" =>
         /\ piecesStatus[i] = "DOWNLOADING"
         /\ \A q \in Peers : Holds(q) /\ selectedPiece[q] = i
              => Holds(q)' /\ selectedPiece'[q] = i
<1>k. Kept => HolderInv'
  BY <1>0 DEF HolderInv
<1>1. ASSUME NEW p \in Peers,
             \/ Spawn(p) \/ Handshake(p) \/ Bitfield(p) \/ SessionFails(p) \/ Loop(p)
             \/ Unchoke(p) \/ Have(p) \/ ReceiveFails(p) \/ ReceiveOther(p)
      PROVE  HolderInv'
  <2>1. Kept
    BY <1>0, <1>1 DEF Spawn, Handshake, Bitfield, SessionFails, Loop, Unchoke, Have,
         ReceiveFails, ReceiveOther, Holds, SelectionInv, Goto, shared, choice
  <2>. QED  BY <2>1, <1>k
<1>2. ASSUME NEW p \in Peers, Choke(p) \/ Release(p) PROVE HolderInv'
  <2>1. Kept
    BY <1>0, <1>2 DEF Choke, Release, ReleasePiece, Holds, ChoiceType, NoPiece, Goto
  <2>. QED  BY <2>1, <1>k
<1>3. ASSUME NEW p \in Peers, BlockIgnored(p) \/ BlockStored(p) \/ Request(p)
      PROVE  HolderInv'
  <2>1. Kept
    BY <1>0, <1>3 DEF BlockIgnored, BlockStored, Request, AnswersCurrent, Answers, Holds,
         Goto, shared, choice
  <2>. QED  BY <2>1, <1>k
<1>4. ASSUME NEW p \in Peers, PieceVerified(p) \/ PieceRejected(p) PROVE HolderInv'
  <2>1. pc[p] = "recv" /\ selectedPiece[p] \in {NoPiece, pieceIndex[p]}
    BY <1>0, <1>4 DEF PieceVerified, PieceRejected, AnswersCurrent, Answers, SelectionInv
  <2>2. Kept
    BY <1>0, <1>4, <2>1 DEF PieceVerified, PieceRejected, SetPiece, Holds, ChoiceType,
         NoPiece, Goto, choice
  <2>. QED  BY <2>2, <1>k
<1>5. ASSUME NEW p \in Peers, Enqueue(p) \/ CheckAll(p) \/ Finish(p) PROVE HolderInv'
  <2>1. Kept
    BY <1>0, <1>5 DEF Enqueue, CheckAll, Finish, Holds, Goto, shared, choice
  <2>. QED  BY <2>1, <1>k
<1>6. ASSUME NEW p \in Peers, SelectFound(p) PROVE HolderInv'
  <2>1. PICK i \in Wanted(p) :
          /\ SetPiece(i, "DOWNLOADING")
          /\ pieceIndex' = [pieceIndex EXCEPT ![p] = i]
          /\ selectedPiece' = [selectedPiece EXCEPT ![p] = i]
    BY <1>6 DEF SelectFound
  <2>2. i \in Pieces
    BY <1>0 DEF Wanted
  <2>3. Holds(p)' /\ selectedPiece'[p] = i
    BY <1>0, <1>6, <2>1, <2>2 DEF SelectFound, Holds, Goto, ChoiceType, NoPiece, Pieces
  <2>4. \A q \in Peers : q # p /\ Holds(q) => Holds(q)' /\ selectedPiece'[q] = selectedPiece[q]
    BY <1>0, <1>6, <2>1 DEF SelectFound, Holds, Goto, ChoiceType
  <2>5. ~ Holds(p)
    BY <1>6 DEF SelectFound, Holds
  <2>6. ASSUME NEW j \in Pieces, piecesStatus'[j] = "DOWNLOADING", j # i
        PROVE  \E q \in Peers : Holds(q)' /\ selectedPiece'[q] = j
    <3>1. piecesStatus[j] = "DOWNLOADING"
      BY <1>0, <2>1, <2>2, <2>6 DEF SetPiece
    <3>2. PICK q \in Peers : Holds(q) /\ selectedPiece[q] = j
      BY <1>0, <3>1 DEF HolderInv
    <3>. QED  BY <2>4, <2>5, <3>2
  <2>. QED  BY <2>3, <2>6 DEF HolderInv
<1>7. ASSUME NEW p \in Peers, SelectNone(p) \/ Erase(p) PROVE HolderInv'
  <2>1. Kept
    BY <1>0, <1>7 DEF SelectNone, Erase, Holds, ChoiceType, Goto, shared
  <2>. QED  BY <2>1, <1>k
<1>8. CASE Store
  <2>1. Kept
    BY <1>8 DEF Store, StoreOpen, StoreFront, StoreIdle, StorePop, StoreWrite, StoreDone,
         vars, Holds, shared, choice
  <2>. QED  BY <2>1, <1>k
<1>9. CASE SearchEnd \/ AllReturned \/ UNCHANGED vars
  <2>1. Kept
    BY <1>9 DEF SearchEnd, AllReturned, vars, Holds, shared, choice
  <2>. QED  BY <2>1, <1>k
<1>. QED
  BY <1>1, <1>2, <1>3, <1>4, <1>5, <1>6, <1>7, <1>8, <1>9 DEF Next, Session, Receive

THEOREM ClaimInvariant == Spec => []ClaimInv
<1>1. TypeOK /\ ClaimInv /\ [Next]_vars => ClaimInv'
  BY SelectionStep, HolderStep DEF ClaimInv
<1>. QED  BY <1>1, ClaimInit, TypeCorrect, PTL DEF Spec

\* A piece marked DOWNLOADING always has a running session that selected it.
THEOREM ClaimsOwned == Spec => []ClaimHasOwner
<1>1. ClaimInv => ClaimHasOwner
  BY DEF ClaimInv, HolderInv, Holds, ClaimHasOwner
<1>. QED  BY <1>1, ClaimInvariant, PTL

-----------------------------------------------------------------------------
(* Requests are for pieces the peer announced.                             *)

Announced(p) == [piece : announced[p], block : Nat]

\* Across the session's life: it selects what is available, which was announced,
\* and nothing is owed before a bitfield replaces what was announced.
AskedInv(p) ==
  /\ availablePieces[p] \subseteq announced[p]
  /\ owed[p] \in Seq(Announced(p))
  /\ pc[p] = "request" => pieceIndex[p] \in announced[p]
  /\ pc[p] \in {"off", "connect", "bitfield"} => owed[p] = <<>>

AnnounceInv == \A p \in Peers : AskedInv(p)

LEMMA SeqSuperset ==
  ASSUME NEW S, NEW T, S \subseteq T, NEW s \in Seq(S)
  PROVE  s \in Seq(T)
OBVIOUS

LEMMA AppendIn ==
  ASSUME NEW S, NEW s \in Seq(S), NEW e \in S
  PROVE  Append(s, e) \in Seq(S)
OBVIOUS

LEMMA RequestsOf ==
  ASSUME NEW T, NEW i \in T, NEW n \in Nat
  PROVE  Requests(i, n) \in Seq([piece : T, block : Nat])
BY DEF Requests

LEMMA AnnounceInit == Init => AnnounceInv
<1>. SUFFICES ASSUME Init, NEW p \in Peers PROVE AskedInv(p)
  BY DEF AnnounceInv
<1>. QED  BY DEF Init, AskedInv, Announced

\* A step of one session leaves the others alone.
LEMMA OthersKeep ==
  ASSUME TypeOK, AnnounceInv, NEW p \in Peers, Spawn(p) \/ Session(p),
         NEW q \in Peers, q # p
  PROVE  AskedInv(q)'
<1>0. pc \in [Peers -> PcStates] /\ ChoiceType /\ LineType /\ OwedType
  BY DEF TypeOK
<1>. DEFINE Same == /\ pc'[q] = pc[q] /\ pieceIndex'[q] = pieceIndex[q] /\ owed'[q] = owed[q]
                    /\ availablePieces'[q] = availablePieces[q] /\ announced'[q] = announced[q]
<1>1. CASE Spawn(p) \/ Handshake(p) \/ Bitfield(p) \/ SessionFails(p) \/ Loop(p)
  BY <1>0, <1>1 DEF Spawn, Handshake, Bitfield, SessionFails, Loop, Goto, choice, line,
     ChoiceType, LineType, OwedType, AnnounceInv, AskedInv, Announced
<1>2. CASE Unchoke(p) \/ Choke(p) \/ Have(p) \/ ReceiveFails(p) \/ ReceiveOther(p)
  <2>1. Same
    BY <1>0, <1>2 DEF Unchoke, Choke, Have, ReceiveFails, ReceiveOther, Goto, choice, line,
       ChoiceType, LineType, OwedType
  <2>. QED  BY <2>1 DEF AnnounceInv, AskedInv, Announced
<1>3. CASE BlockIgnored(p) \/ BlockStored(p) \/ PieceVerified(p) \/ PieceRejected(p)
  <2>1. Same
    BY <1>0, <1>3 DEF BlockIgnored, BlockStored, PieceVerified, PieceRejected, Goto, choice,
       line, ChoiceType, LineType, OwedType
  <2>. QED  BY <2>1 DEF AnnounceInv, AskedInv, Announced
<1>4. CASE Enqueue(p) \/ CheckAll(p) \/ Finish(p) \/ SelectFound(p) \/ SelectNone(p)
           \/ Request(p) \/ Release(p) \/ Erase(p)
  <2>1. Same
    BY <1>0, <1>4 DEF Enqueue, CheckAll, Finish, SelectFound, SelectNone, Request, Release,
       Erase, Goto, choice, line, ChoiceType, LineType, OwedType
  <2>. QED  BY <2>1 DEF AnnounceInv, AskedInv, Announced
<1>. QED  BY <1>1, <1>2, <1>3, <1>4 DEF Session, Receive

LEMMA AnnouncerStep ==
  ASSUME TypeOK, NEW p \in Peers, AskedInv(p), Spawn(p) \/ Session(p)
  PROVE  AskedInv(p)'
<1>0. pc \in [Peers -> PcStates] /\ ChoiceType /\ LineType /\ OwedType
  BY DEF TypeOK
<1>. DEFINE Rest == UNCHANGED <<announced, availablePieces>>
<1>t. ASSUME owed[p] # <<>>
      PROVE  Tail(owed[p]) \in Seq(Announced(p)) /\ Head(owed[p]).piece \in announced[p]
  <2>1. Head(owed[p]) \in Announced(p)
    BY <1>t DEF AskedInv
  <2>. QED  BY <1>t, <2>1 DEF AskedInv, Announced
<1>1. CASE Spawn(p) \/ Handshake(p) \/ SessionFails(p) \/ Loop(p) \/ Choke(p)
           \/ ReceiveFails(p) \/ ReceiveOther(p) \/ Enqueue(p) \/ CheckAll(p) \/ Finish(p)
           \/ SelectNone(p) \/ Release(p)
  <2>1. Rest /\ owed' = owed
    BY <1>1 DEF Spawn, Handshake, SessionFails, Loop, Choke, ReceiveFails, ReceiveOther,
       Enqueue, CheckAll, Finish, SelectNone, Release, line
  <2>2. /\ pc'[p] # "request"
        /\ pc'[p] \in {"off", "connect", "bitfield"} => pc[p] \in {"off", "connect", "bitfield"}
    BY <1>0, <1>1 DEF Spawn, Handshake, SessionFails, Loop, Choke, ReceiveFails, ReceiveOther,
       Enqueue, CheckAll, Finish, SelectNone, Release, Goto
  <2>. QED  BY <2>1, <2>2 DEF AskedInv, Announced
<1>2. CASE Bitfield(p)
  <2>1. /\ availablePieces'[p] = announced'[p] /\ owed' = owed /\ owed[p] = <<>>
        /\ pc'[p] = "loop"
    BY <1>0, <1>2 DEF Bitfield, Goto, LineType, AskedInv
  <2>. QED  BY <2>1 DEF AskedInv, Announced
<1>3. CASE Have(p)
  <2>1. /\ announced[p] \subseteq announced'[p]
        /\ availablePieces'[p] \subseteq availablePieces[p]
        /\ owed' = owed /\ pc'[p] \in {"select", "loop"}
    BY <1>0, <1>3 DEF Have, Goto, LineType, Masked
  <2>2. Announced(p) \subseteq Announced(p)'
    BY <2>1 DEF Announced
  <2>3. owed[p] \in Seq(Announced(p)')
    BY <2>2, SeqSuperset DEF AskedInv
  <2>. QED  BY <2>1, <2>3 DEF AskedInv
<1>4. CASE Unchoke(p)
  <2>1. PICK rest \in Suffixes(owed[p]) : owed' = [owed EXCEPT ![p] = rest]
    BY <1>4 DEF Unchoke
  <2>2. rest \in Seq(Announced(p))
    BY SuffixesType DEF AskedInv
  <2>3. owed'[p] = rest /\ Rest /\ pc'[p] = "select"
    BY <1>0, <1>4, <2>1 DEF Unchoke, Goto, OwedType
  <2>. QED  BY <2>2, <2>3 DEF AskedInv, Announced
<1>5. CASE BlockIgnored(p) \/ PieceVerified(p) \/ PieceRejected(p)
  <2>1. /\ owed[p] # <<>> /\ owed'[p] = Tail(owed[p]) /\ Rest
        /\ pc'[p] \in {"loop", "enqueue", "select"}
    BY <1>0, <1>5 DEF BlockIgnored, PieceVerified, PieceRejected, AnswersCurrent, Answers, Goto,
       line, OwedType
  <2>. QED  BY <1>t, <2>1 DEF AskedInv, Announced
<1>6. CASE BlockStored(p)
  <2>1. /\ owed[p] # <<>> /\ Rest /\ pc'[p] = "loop"
        /\ pieceIndex[p] = Head(owed[p]).piece
    BY <1>0, <1>6 DEF BlockStored, AnswersCurrent, Answers, Goto, line
  <2>2. NextIndex(p) \in Nat
    BY <1>0, BlocksType DEF NextIndex, TypeOK, BufferType, ChoiceType
  <2>3. [piece |-> pieceIndex[p], block |-> NextIndex(p)] \in Announced(p)
    BY <1>t, <2>1, <2>2 DEF Announced
  <2>4. owed'[p] \in {Tail(owed[p]),
                      Append(Tail(owed[p]), [piece |-> pieceIndex[p], block |-> NextIndex(p)])}
    BY <1>0, <1>6 DEF BlockStored, OwedType
  <2>5. owed'[p] \in Seq(Announced(p))
    BY <1>t, <2>1, <2>3, <2>4, AppendIn
  <2>. QED  BY <2>1, <2>5 DEF AskedInv, Announced
<1>7. CASE SelectFound(p)
  <2>1. pieceIndex'[p] \in availablePieces[p]
    BY <1>0, <1>7 DEF SelectFound, Wanted, ChoiceType
  <2>2. Rest /\ owed' = owed /\ pc'[p] = "request"
    BY <1>0, <1>7 DEF SelectFound, Goto, line
  <2>. QED  BY <2>1, <2>2 DEF AskedInv, Announced
<1>8. CASE Request(p)
  <2>1. pieceIndex[p] \in announced[p] /\ pieceIndex[p] \in Pieces
    BY <1>0, <1>8 DEF Request, AskedInv, ChoiceType
  <2>2. Requests(pieceIndex[p], FirstRequests(pieceIndex[p])) \in Seq(Announced(p))
    <3>1. FirstRequests(pieceIndex[p]) \in Nat
      BY <2>1, BlocksType
    <3>. QED  BY <2>1, <3>1, RequestsOf DEF Announced
  <2>3. /\ owed'[p] = owed[p] \o Requests(pieceIndex[p], FirstRequests(pieceIndex[p]))
        /\ Rest /\ pc'[p] = "loop"
    BY <1>0, <1>8 DEF Request, Goto, line, OwedType
  <2>4. owed'[p] \in Seq(Announced(p))
    BY <2>2, <2>3 DEF AskedInv
  <2>. QED  BY <2>3, <2>4 DEF AskedInv, Announced
<1>9. CASE Erase(p)
  BY <1>0, <1>9 DEF Erase, Goto, LineType, OwedType, AskedInv, Announced
<1>. QED
  BY <1>1, <1>2, <1>3, <1>4, <1>5, <1>6, <1>7, <1>8, <1>9 DEF Session, Receive

\* A session asks its peer only for pieces the peer announced.
THEOREM AnnouncedOnly == Spec => []RequestsAnnounced
<1>1. TypeOK /\ AnnounceInv /\ [Next]_vars => AnnounceInv'
  <2>. SUFFICES ASSUME TypeOK, AnnounceInv, [Next]_vars, NEW q \in Peers PROVE AskedInv(q)'
    BY DEF AnnounceInv
  <2>1. ASSUME NEW p \in Peers, Spawn(p) \/ Session(p) PROVE AskedInv(q)'
    BY <2>1, OthersKeep, AnnouncerStep DEF AnnounceInv
  <2>2. CASE Store \/ SearchEnd \/ AllReturned \/ UNCHANGED vars
    <3>1. UNCHANGED <<pc, pieceIndex, owed, availablePieces, announced>>
      BY <2>2 DEF Store, StoreOpen, StoreFront, StoreIdle, StorePop, StoreWrite, StoreDone,
         SearchEnd, AllReturned, vars, choice, line
    <3>. QED  BY <3>1 DEF AnnounceInv, AskedInv, Announced
  <2>. QED  BY <2>1, <2>2 DEF Next
<1>2. TypeOK /\ AnnounceInv => RequestsAnnounced
  <2>. SUFFICES ASSUME AnnounceInv, NEW p \in Peers, NEW k \in 1 .. Len(owed[p])
                PROVE  owed[p][k].piece \in announced[p]
    BY DEF RequestsAnnounced
  <2>1. owed[p][k] \in Announced(p)
    BY DEF AnnounceInv, AskedInv
  <2>. QED  BY <2>1 DEF Announced
<1>. QED  BY <1>1, <1>2, AnnounceInit, TypeCorrect, PTL DEF Spec

-----------------------------------------------------------------------------
(* The set of verified pieces.                                             *)

LEMMA QueueAppend ==
  ASSUME NEW q \in Seq(Pieces), NEW i \in Pieces
  PROVE  Range(Append(q, i)) = Range(q) \cup {i}
<1>1. Append(q, i) \in Seq(Pieces) /\ Len(Append(q, i)) = Len(q) + 1
  OBVIOUS
<1>2. \A k \in 1 .. Len(q) + 1 : Append(q, i)[k] = IF k <= Len(q) THEN q[k] ELSE i
  OBVIOUS
<1>3. /\ Range(q) = {q[k] : k \in 1 .. Len(q)}
      /\ Range(Append(q, i)) = {Append(q, i)[k] : k \in 1 .. Len(q) + 1}
  BY <1>1, RangeEquality
<1>. QED  BY <1>2, <1>3

LEMMA QueueTail ==
  ASSUME NEW q \in Seq(Pieces), q # <<>>
  PROVE  Range(q) = {Head(q)} \cup Range(Tail(q))
<1>1. /\ Tail(q) \in Seq(Pieces) /\ Len(Tail(q)) = Len(q) - 1
      /\ \A k \in 1 .. Len(q) - 1 : Tail(q)[k] = q[k + 1]
  BY HeadTailProperties
<1>2. /\ Range(q) = {q[k] : k \in 1 .. Len(q)}
      /\ Range(Tail(q)) = {Tail(q)[k] : k \in 1 .. Len(q) - 1}
  BY <1>1, RangeEquality
<1>3. Head(q) = q[1] /\ Len(q) >= 1
  OBVIOUS
<1>4. ASSUME NEW k \in 1 .. Len(q) PROVE q[k] \in {Head(q)} \cup Range(Tail(q))
  <2>1. CASE k = 1
    BY <1>3, <2>1
  <2>2. CASE k > 1
    <3>1. k - 1 \in 1 .. Len(q) - 1 /\ Tail(q)[k - 1] = q[(k - 1) + 1]
      BY <1>1, <2>2
    <3>. QED  BY <1>2, <3>1
  <2>. QED  BY <2>1, <2>2
<1>5. ASSUME NEW k \in 1 .. Len(q) - 1 PROVE Tail(q)[k] \in Range(q)
  <2>1. k + 1 \in 1 .. Len(q) /\ Tail(q)[k] = q[k + 1]
    BY <1>1
  <2>. QED  BY <1>2, <2>1
<1>. QED  BY <1>2, <1>3, <1>4, <1>5

LEMMA VerifiedBound ==
  ASSUME TypeOK
  PROVE  /\ Verified \subseteq Pieces /\ IsFiniteSet(Verified)
         /\ Cardinality(Verified) \in Nat /\ Cardinality(Verified) <= PiecesNum
         /\ Cardinality(Verified) = PiecesNum => Verified = Pieces
<1>1. Verified \subseteq Pieces
  <2>1. Range(piecesQueue) \subseteq Pieces
    BY RangeOfSeq DEF TypeOK, SharedType
  <2>. QED
    BY <2>1 DEF TypeOK, StoreType, ChoiceType, Verified, Pending, InHand
<1>2. IsFiniteSet(Pieces) /\ Cardinality(Pieces) = PiecesNum
  BY PiecesNumPositive, FS_Interval DEF Pieces
<1>. QED  BY <1>1, <1>2, FS_Subset, FS_CardinalityType

LEMMA VerifiedBoundNext ==
  (TypeOK => /\ Verified \subseteq Pieces /\ Cardinality(Verified) <= PiecesNum
             /\ Cardinality(Verified) = PiecesNum => Verified = Pieces)'
<1>1. TypeOK => /\ Verified \subseteq Pieces /\ Cardinality(Verified) <= PiecesNum
                /\ Cardinality(Verified) = PiecesNum => Verified = Pieces
  BY VerifiedBound
<1>. QED  BY <1>1, PTL

\* Only the hash check adds to the verified pieces, and no step takes one away.
LEMMA VerifiedStep ==
  ASSUME TypeOK, [Next]_vars
  PROVE  \/ Verified' = Verified /\ rcvPiecesNum' = rcvPiecesNum
         \/ \E p \in Peers :
              /\ PieceVerified(p)
              /\ Verified' = Verified \cup {pieceIndex[p]}
              /\ rcvPiecesNum' = rcvPiecesNum + 1
<1>0. /\ piecesQueue \in Seq(Pieces) /\ pc \in [Peers -> PcStates]
      /\ pieceIndex \in [Peers -> Pieces] /\ FrontInHand
  BY DEF TypeOK, SharedType, ChoiceType
<1>. DEFINE Bound == {pieceIndex[p] : p \in Pending}
<1>1. ASSUME NEW p \in Peers,
             \/ Spawn(p) \/ Handshake(p) \/ Bitfield(p) \/ SessionFails(p) \/ Loop(p)
             \/ Unchoke(p) \/ Choke(p) \/ Have(p) \/ ReceiveFails(p) \/ ReceiveOther(p)
             \/ BlockIgnored(p) \/ BlockStored(p) \/ PieceRejected(p)
             \/ CheckAll(p) \/ Finish(p) \/ SelectFound(p) \/ SelectNone(p)
             \/ Request(p) \/ Release(p) \/ Erase(p)
      PROVE  Verified' = Verified /\ rcvPiecesNum' = rcvPiecesNum
  <2>1. UNCHANGED <<rcvPiecesNum, piecesQueue, storeVars>>
    BY <1>1 DEF Spawn, Handshake, Bitfield, SessionFails, Loop, Unchoke, Choke, Have,
         ReceiveFails, ReceiveOther, BlockIgnored, BlockStored, PieceRejected, CheckAll,
         Finish, SelectFound, SelectNone, Request, Release, Erase, shared
  <2>2. \A q \in Peers : /\ pc'[q] = "enqueue" <=> pc[q] = "enqueue"
                         /\ pc[q] = "enqueue" => pieceIndex'[q] = pieceIndex[q]
    BY <1>0, <1>1 DEF Spawn, Handshake, Bitfield, SessionFails, Loop, Unchoke, Choke, Have,
         ReceiveFails, ReceiveOther, BlockIgnored, BlockStored, PieceRejected, CheckAll,
         Finish, SelectFound, SelectNone, Request, Release, Erase, Goto,
         AnswersCurrent, Answers, choice
  <2>3. Bound' = Bound
    BY <2>2 DEF Pending
  <2>. QED  BY <2>1, <2>3 DEF Verified, InHand, storeVars
<1>2. ASSUME NEW p \in Peers, PieceVerified(p)
      PROVE  Verified' = Verified \cup {pieceIndex[p]} /\ rcvPiecesNum' = rcvPiecesNum + 1
  <2>1. Pending' = Pending \cup {p} /\ pieceIndex' = pieceIndex
    BY <1>0, <1>2 DEF PieceVerified, AnswersCurrent, Answers, Pending, Goto, choice
  <2>2. Bound' = Bound \cup {pieceIndex[p]}
    BY <2>1
  <2>. QED  BY <1>2, <2>2 DEF PieceVerified, Verified, InHand, storeVars
<1>3. ASSUME NEW p \in Peers, Enqueue(p)
      PROVE  Verified' = Verified /\ rcvPiecesNum' = rcvPiecesNum
  <2>1. Pending' = Pending \ {p} /\ p \in Pending /\ pieceIndex' = pieceIndex
    BY <1>0, <1>3 DEF Enqueue, Pending, Goto, choice
  <2>2. Bound = Bound' \cup {pieceIndex[p]}
    BY <2>1
  <2>3. Range(piecesQueue') = Range(piecesQueue) \cup {pieceIndex[p]}
    BY <1>0, <1>3, QueueAppend DEF Enqueue
  <2>. QED  BY <1>3, <2>2, <2>3 DEF Enqueue, Verified, InHand, storeVars
<1>4. CASE StoreOpen \/ StoreIdle \/ StoreDone \/ SearchEnd \/ AllReturned \/ UNCHANGED vars
  <2>1. /\ UNCHANGED <<rcvPiecesNum, piecesQueue, hand, file, pc, pieceIndex>>
        /\ InHand' = InHand
    BY <1>4 DEF StoreOpen, StoreIdle, StoreDone, SearchEnd, AllReturned, vars, shared,
         storeVars, choice, InHand
  <2>2. Bound' = Bound
    BY <2>1 DEF Pending
  <2>. QED  BY <2>1, <2>2 DEF Verified
<1>5. CASE StoreFront \/ StorePop \/ StoreWrite
  <2>1. UNCHANGED <<rcvPiecesNum, pc, pieceIndex>>
    BY <1>5 DEF StoreFront, StorePop, StoreWrite, shared, choice
  <2>2. Bound' = Bound
    BY <2>1 DEF Pending
  <2>3. CASE StoreFront
    <3>1. InHand = {} /\ InHand' = {Head(piecesQueue)} /\ UNCHANGED <<piecesQueue, file>>
      BY <2>3 DEF StoreFront, Oldest, InHand, shared
    <3>2. Head(piecesQueue) \in Range(piecesQueue)
      BY <1>0, <2>3, QueueTail DEF StoreFront
    <3>. QED  BY <2>1, <2>2, <3>1, <3>2 DEF Verified
  <2>4. CASE StorePop
    <3>1. Range(piecesQueue) = {hand} \cup Range(piecesQueue')
      BY <1>0, <2>4, QueueTail DEF StorePop, Popped, FrontInHand
    <3>. QED  BY <2>1, <2>2, <2>4, <3>1 DEF StorePop, Verified, InHand
  <2>5. CASE StoreWrite
    BY <2>1, <2>2, <2>5 DEF StoreWrite, Verified, InHand, shared
  <2>. QED  BY <1>5, <2>3, <2>4, <2>5
<1>. QED
  BY <1>1, <1>2, <1>3, <1>4, <1>5 DEF Next, Session, Receive, Store

\* Whatever the peers do, no step takes a verified piece away.
THEOREM NothingLost == Spec => VerifiedKept
<1>1. TypeOK /\ [Next]_vars => [Verified \subseteq Verified']_vars
  BY VerifiedStep
<1>. QED  BY <1>1, TypeCorrect, PTL DEF Spec, VerifiedKept

-----------------------------------------------------------------------------
(* Counters and the steps of one session.                                  *)

\* A session's locals change only in its own steps.
SameSession(q) ==
  /\ pc'[q] = pc[q] /\ owed'[q] = owed[q] /\ peerStatus'[q] = peerStatus[q]
  /\ pieceIndex'[q] = pieceIndex[q] /\ selectedPiece'[q] = selectedPiece[q]

LEMMA OwnStep ==
  ASSUME TypeOK, [Next]_vars, NEW q \in Peers
  PROVE  Spawn(q) \/ Session(q) \/ SameSession(q)
<1>0. /\ pc \in [Peers -> PcStates] /\ owed \in [Peers -> Seq(Requestable)]
      /\ peerStatus \in [Peers -> {"CHOKED", "UNCHOKED"}] /\ ChoiceType
  BY DEF TypeOK, OwedType, LineType
<1>1. ASSUME NEW p \in Peers, p # q,
             \/ Spawn(p) \/ Handshake(p) \/ Bitfield(p) \/ SessionFails(p) \/ Loop(p)
             \/ Enqueue(p) \/ CheckAll(p) \/ Finish(p) \/ SelectFound(p) \/ SelectNone(p)
             \/ Request(p) \/ Release(p) \/ Erase(p)
      PROVE  SameSession(q)
  BY <1>0, <1>1 DEF Spawn, Handshake, Bitfield, SessionFails, Loop, Enqueue, CheckAll,
     Finish, SelectFound, SelectNone, Request, Release, ReleasePiece, Erase, Goto, choice,
     line, ChoiceType, SameSession
<1>2. ASSUME NEW p \in Peers, p # q, Receive(p) PROVE SameSession(q)
  BY <1>0, <1>2 DEF Receive, Unchoke, Choke, ReleasePiece, Have, ReceiveFails, ReceiveOther,
     BlockIgnored, BlockStored, PieceVerified, PieceRejected, Goto, choice, line, ChoiceType,
     SameSession
<1>3. CASE Store \/ SearchEnd \/ AllReturned \/ UNCHANGED vars
  BY <1>3 DEF Store, StoreOpen, StoreFront, StoreIdle, StorePop, StoreWrite, StoreDone,
     SearchEnd, AllReturned, vars, choice, line, SameSession
<1>. QED  BY <1>1, <1>2, <1>3 DEF Next, Session

LEMMA StoredStep == TypeOK /\ StoredInv /\ [Next]_vars => StoredInv'
<1>. SUFFICES ASSUME TypeOK, StoredInv, [Next]_vars PROVE StoredInv'
  OBVIOUS
<1>1. CASE storePc' = "done" /\ storePc # "done"
  <2>1. StoreDone
    BY <1>1, ZenonT(60) DEF Next, Session, Receive, Store, Spawn, Handshake, Bitfield,
       SessionFails, Loop, Unchoke, Choke, Have, ReceiveFails, ReceiveOther, BlockIgnored,
       BlockStored, PieceVerified, PieceRejected, Enqueue, CheckAll, Finish, SelectFound,
       SelectNone, Request, Release, Erase, SearchEnd, StoreOpen, StoreFront, StoreIdle,
       StorePop, StoreWrite, AllReturned, vars, storeVars
  <2>. QED
    BY <2>1, PiecesNumPositive DEF StoreDone, StoredInv, TypeOK, StoreType
<1>2. CASE storePc' = "done" /\ storePc = "done"
  <2>1. storedPieces' = storedPieces
    BY <1>2, ZenonT(60) DEF Next, Session, Receive, Store, Spawn, Handshake, Bitfield,
       SessionFails, Loop, Unchoke, Choke, Have, ReceiveFails, ReceiveOther, BlockIgnored,
       BlockStored, PieceVerified, PieceRejected, Enqueue, CheckAll, Finish, SelectFound,
       SelectNone, Request, Release, Erase, SearchEnd, StoreOpen, StoreFront, StoreIdle,
       StorePop, StoreWrite, StoreDone, AllReturned, vars, storeVars
  <2>. QED  BY <1>2, <2>1 DEF StoredInv
<1>. QED  BY <1>1, <1>2 DEF StoredInv

\* The session that makes the counter full looks at it after it handed its piece
\* to the writer, and completes the download.
LEMMA NoticedStep == TypeOK /\ NoticedInv /\ [Next]_vars => NoticedInv'
<1>. SUFFICES ASSUME TypeOK, NoticedInv, [Next]_vars, rcvPiecesNum' = PiecesNum,
                     status' # "DOWNLOADED"
              PROVE  \E p \in Peers : pc'[p] \in {"enqueue", "check", "finish"}
  BY DEF NoticedInv
<1>0. pc \in [Peers -> PcStates] /\ rcvPiecesNum \in Nat
  BY DEF TypeOK, SharedType
<1>1. ASSUME NEW p \in Peers, PieceVerified(p) PROVE pc'[p] = "enqueue"
  BY <1>0, <1>1 DEF PieceVerified, Goto
<1>2. CASE rcvPiecesNum' = rcvPiecesNum
  <2>1. status # "DOWNLOADED"
    BY ZenonT(60) DEF Next, Session, Receive, Store, Spawn, Handshake, Bitfield, SessionFails, Loop,
       Unchoke, Choke, Have, ReceiveFails, ReceiveOther, BlockIgnored, BlockStored,
       PieceVerified, PieceRejected, Enqueue, CheckAll, Finish, SelectFound, SelectNone,
       Request, Release, Erase, SearchEnd, StoreOpen, StoreFront, StoreIdle, StorePop,
       StoreWrite, StoreDone, AllReturned, Opened, vars, shared
  <2>2. PICK p \in Peers : pc[p] \in {"enqueue", "check", "finish"}
    BY <1>2, <2>1 DEF NoticedInv
  <2>3. CASE Spawn(p) \/ Session(p)
    <3>1. Enqueue(p) \/ CheckAll(p) \/ Finish(p)
      BY <2>2, <2>3 DEF Session, Receive, Spawn, Handshake, Bitfield, SessionFails, Loop,
         Unchoke, Choke, Have, ReceiveFails, ReceiveOther, BlockIgnored, BlockStored,
         PieceVerified, PieceRejected, AnswersCurrent, Answers, SelectFound, SelectNone,
         Request, Release, Erase
    <3>. QED  BY <1>0, <1>2, <3>1 DEF Enqueue, CheckAll, AllReceived, Finish, Goto
  <2>. QED  BY <2>2, <2>3, OwnStep DEF SameSession
<1>. QED  BY <1>1, <1>2, VerifiedStep

-----------------------------------------------------------------------------
(* Peers that never choke: the window of requests.                         *)

NeverChokes == MaxChokes = 0

\* Peers with which a choke ends what was asked before it.  A torrent of a single
\* piece is left to peers that never choke.
Courteous == NeverChokes \/ (~ LateAnswers /\ PiecesNum > 1)

LEMMA IdleInit == Init => IdleInv /\ WindowInv
BY DEF Init, IdleInv, WindowInv

\* A session that receives a block holds the piece the block belongs to.
LEMMA AnswersFirst ==
  ASSUME TypeOK, SelectionInv, IdleInv, WindowInv, NEW p \in Peers, Answers(p)
  PROVE  /\ selectedPiece[p] # NoPiece /\ selectedPiece[p] = pieceIndex[p]
         /\ WindowOf(p) /\ Head(owed[p]).piece = pieceIndex[p]
<1>1. pc[p] = "recv" /\ owed[p] # <<>>
  BY DEF Answers
<1>2. selectedPiece[p] # NoPiece /\ selectedPiece[p] = pieceIndex[p]
  BY <1>1 DEF IdleInv, SelectionInv
<1>3. WindowOf(p)
  BY <1>1 DEF WindowInv
<1>4. Head(owed[p]).piece = pieceIndex[p]
  <2>1. owed[p] \in Seq(Requestable)
    BY DEF TypeOK, OwedType
  <2>2. 1 \in 1 .. Len(owed[p]) /\ Head(owed[p]) = owed[p][1]
    BY <1>1, <2>1
  <2>. QED  BY <1>3, <2>2 DEF WindowOf
<1>. QED  BY <1>2, <1>3, <1>4

LEMMA NothingToKeep == ASSUME NEW t \in Suffixes(<<>>) PROVE t = <<>>
<1>1. PICK k \in 1 .. Len(<<>>) + 1 : t = SubSeq(<<>>, k, Len(<<>>))
  BY DEF Suffixes
<1>2. k = 1 /\ Len(<<>>) = 0
  OBVIOUS
<1>. QED  BY <1>1, <1>2, SubSeqEmpty

\* After the last block of a piece nothing is owed.
LEMMA LastBlock ==
  ASSUME TypeOK, NEW p \in Peers, WindowOf(p), owed[p] # <<>>,
         num[p] + 1 = Blocks(pieceIndex[p])
  PROVE  Tail(owed[p]) = <<>>
<1>1. num[p] \in Nat /\ owed[p] \in Seq(Requestable) /\ Len(owed[p]) \in Nat
  BY DEF TypeOK, BufferType, OwedType
<1>2. num[p] + Len(owed[p]) <= Blocks(pieceIndex[p])
  BY DEF WindowOf
<1>3. Len(owed[p]) <= 1
  BY <1>1, <1>2
<1>4. Tail(owed[p]) \in Seq(Requestable) /\ Len(Tail(owed[p])) = Len(owed[p]) - 1
  BY <1>1, HeadTailProperties
<1>. QED  BY <1>1, <1>3, <1>4, EmptySeq

LEMMA IdleStep ==
  ASSUME NeverChokes, TypeOK, SelectionInv, IdleInv, WindowInv, [Next]_vars
  PROVE  IdleInv'
<1>0. /\ pc \in [Peers -> PcStates] /\ ChoiceType /\ IdleInv /\ SelectionInv
      /\ num \in [Peers -> Nat] /\ blockStatus \in [Peers -> SUBSET Int]
      /\ owed \in [Peers -> Seq(Requestable)]
  BY DEF TypeOK, BufferType, OwedType
<1>. USE <1>0 DEF IdleInv, Goto, choice, buffer, line
<1>1. ASSUME NEW p \in Peers,
             Spawn(p) \/ Handshake(p) \/ Bitfield(p) \/ SessionFails(p) \/ Loop(p)
      PROVE  IdleInv'
  <2>1. CASE Spawn(p)
    BY <2>1 DEF Spawn, SelectionInv
  <2>2. CASE Handshake(p)
    BY <2>2 DEF Handshake, SelectionInv
  <2>3. CASE Bitfield(p)
    BY <2>3 DEF Bitfield, SelectionInv
  <2>4. CASE SessionFails(p)
    BY <2>4 DEF SessionFails, SelectionInv
  <2>5. CASE Loop(p)
    BY <2>5 DEF Loop, SelectionInv
  <2>. QED  BY <1>1, <2>1, <2>2, <2>3, <2>4, <2>5
<1>2. ASSUME NEW p \in Peers, Unchoke(p) PROVE IdleInv'
  <2>1. selectedPiece[p] = NoPiece /\ num[p] = 0 /\ owed[p] = <<>>
    BY <1>2 DEF Unchoke, SelectionInv
  <2>2. owed' = owed
    BY <1>2, <2>1, NothingToKeep DEF Unchoke
  <2>. QED  BY <1>2, <2>1, <2>2 DEF Unchoke
<1>3. ASSUME NEW p \in Peers, Have(p) \/ ReceiveFails(p) \/ ReceiveOther(p) PROVE IdleInv'
  <2>1. CASE Have(p)
    <3>1. /\ UNCHANGED <<num, selectedPiece, pieceIndex, blockStatus, owed>>
          /\ pc[p] = "recv"
          /\ \/ pc' = [pc EXCEPT ![p] = "select"] /\ ~ available[p]
             \/ pc' = [pc EXCEPT ![p] = "loop"]
      BY <2>1 DEF Have
    <3>2. ~ available[p] => selectedPiece[p] = NoPiece
      BY DEF SelectionInv
    <3>. QED  BY <3>1, <3>2
  <2>2. CASE ReceiveFails(p)
    BY <2>2 DEF ReceiveFails, SelectionInv
  <2>3. CASE ReceiveOther(p)
    BY <2>3 DEF ReceiveOther
  <2>. QED  BY <1>3, <2>1, <2>2, <2>3
<1>4. ASSUME NEW p \in Peers, Choke(p) PROVE IdleInv'
  BY <1>4 DEF Choke, NeverChokes, TypeOK, LineType
<1>5. ASSUME NEW p \in Peers, BlockIgnored(p) PROVE IdleInv'
  BY <1>5, AnswersFirst DEF BlockIgnored
<1>6. ASSUME NEW p \in Peers, BlockStored(p) PROVE IdleInv'
  <2>1. selectedPiece[p] # NoPiece /\ pc[p] = "recv"
    BY <1>6, AnswersFirst DEF BlockStored, AnswersCurrent, Answers
  <2>. QED  BY <1>6, <2>1 DEF BlockStored
<1>7. ASSUME NEW p \in Peers, PieceVerified(p) \/ PieceRejected(p) PROVE IdleInv'
  <2>1. /\ Answers(p) /\ owed[p] # <<>> /\ pc[p] = "recv"
        /\ num[p] + 1 = Blocks(pieceIndex[p])
        /\ owed' = [owed EXCEPT ![p] = Tail(@)]
    BY <1>7 DEF PieceVerified, PieceRejected, AnswersCurrent, Answers
  <2>2. WindowOf(p) /\ selectedPiece[p] = pieceIndex[p]
    BY <2>1, AnswersFirst
  <2>3. owed' = [owed EXCEPT ![p] = <<>>]
    BY <2>1, <2>2, LastBlock
  <2>4. CASE PieceVerified(p)
    BY <2>1, <2>2, <2>3, <2>4 DEF PieceVerified, ChoiceType
  <2>5. CASE PieceRejected(p)
    BY <2>1, <2>3, <2>5 DEF PieceRejected, ChoiceType
  <2>. QED  BY <1>7, <2>4, <2>5
<1>8. ASSUME NEW p \in Peers, Enqueue(p) \/ CheckAll(p) \/ Finish(p) PROVE IdleInv'
  <2>1. selectedPiece[p] # NoPiece
    BY <1>8, PiecesNumPositive DEF Enqueue, CheckAll, Finish, ChoiceType, NoPiece, Pieces
  <2>2. CASE Enqueue(p)
    BY <2>2 DEF Enqueue
  <2>3. CASE CheckAll(p)
    <3>1. UNCHANGED <<selectedPiece, owed, blockStatus>> /\ owed[p] = <<>>
      BY <2>3 DEF CheckAll
    <3>2. CASE AllReceived
      BY <2>3, <3>1, <3>2 DEF CheckAll
    <3>3. CASE ~ AllReceived
      <4>1. /\ num' = [num EXCEPT ![p] = 0] /\ pc' = [pc EXCEPT ![p] = "select"]
            /\ pieceIndex' = [pieceIndex EXCEPT ![p] = NextPiece(@)]
        BY <2>3, <3>3 DEF CheckAll
      <4>. QED  BY <3>1, <4>1 DEF ChoiceType
    <3>. QED  BY <3>2, <3>3
  <2>4. CASE Finish(p)
    BY <2>1, <2>4 DEF Finish
  <2>. QED  BY <1>8, <2>2, <2>3, <2>4
<1>9. ASSUME NEW p \in Peers, SelectFound(p) PROVE IdleInv'
  BY <1>9 DEF SelectFound, ChoiceType
<1>10. ASSUME NEW p \in Peers, SelectNone(p) PROVE IdleInv'
  BY <1>10 DEF SelectNone, ChoiceType
<1>11. ASSUME NEW p \in Peers, Request(p) PROVE IdleInv'
  BY <1>11 DEF Request, ChoiceType, NoPiece, Pieces
<1>12. ASSUME NEW p \in Peers, Release(p) PROVE IdleInv'
  BY <1>12 DEF Release, ReleasePiece, ChoiceType
<1>13. ASSUME NEW p \in Peers, Erase(p) PROVE IdleInv'
  BY <1>13 DEF Erase
<1>14. CASE Store
  BY <1>14 DEF Store, StoreOpen, StoreFront, StoreIdle, StorePop, StoreWrite, StoreDone, vars
<1>15. CASE SearchEnd \/ AllReturned \/ UNCHANGED vars
  BY <1>15 DEF SearchEnd, AllReturned, vars
<1>. QED
  BY <1>1, <1>2, <1>3, <1>4, <1>5, <1>6, <1>7, <1>8, <1>9, <1>10, <1>11, <1>12, <1>13,
     <1>14, <1>15 DEF Next, Session, Receive

\* The first requests of a piece fill the window.
LEMMA RequestWindow ==
  ASSUME TypeOK, IdleInv, NEW p \in Peers, Request(p), owed'[p] # <<>>
  PROVE  WindowOf(p)'
<1>. DEFINE i == pieceIndex[p]
            F == FirstRequests(i)
<1>1. i \in Pieces /\ Blocks(i) \in Nat /\ F \in Nat /\ F <= Blocks(i)
  BY BlocksType, SizesAssumption DEF TypeOK, ChoiceType, FirstRequests
<1>2. owed[p] = <<>> /\ num[p] = 0 /\ blockStatus[p] = {}
  BY DEF IdleInv, Request
<1>3. /\ pieceIndex'[p] = i /\ num'[p] = 0
      /\ blockStatus'[p] = 0 .. F - 1 /\ index'[p] = F - 1
      /\ owed'[p] = <<>> \o Requests(i, F)
  BY <1>2 DEF TypeOK, BufferType, OwedType, Request, choice
<1>4. Requests(i, F) \in Seq(Requestable) /\ Len(Requests(i, F)) = F
  <2>1. Requests(i, F) \in Seq(Requestable)
    BY <1>1, RequestsType
  <2>2. DOMAIN Requests(i, F) = 1 .. F
    BY DEF Requests
  <2>3. /\ DOMAIN Requests(i, F) = 1 .. Len(Requests(i, F))
        /\ Len(Requests(i, F)) \in Nat
    BY <2>1, LenProperties
  <2>. QED  BY <1>1, <2>1, <2>2, <2>3
<1>5. owed'[p] = Requests(i, F)
  BY <1>3, <1>4
<1>6. \A k \in 1 .. F : owed'[p][k].piece = i /\ owed'[p][k].block = k - 1
  BY <1>5 DEF Requests
<1>. QED
  BY <1>1, <1>3, <1>4, <1>5, <1>6 DEF WindowOf, FirstRequests

\* A block that does not complete its piece keeps the window as it was, or
\* lets it shrink once the last block was requested.
LEMMA BlockWindow ==
  ASSUME TypeOK, SelectionInv, IdleInv, WindowInv, NEW p \in Peers, BlockStored(p)
  PROVE  WindowOf(p)'
<1>. DEFINE i == pieceIndex[p]
            F == FirstRequests(i)
            B == Blocks(i)
            n == num[p]
            L == Len(owed[p])
            h == Head(owed[p]).block
            next == NextIndex(p)
<1>1. i \in Pieces /\ B \in Nat /\ F \in Nat /\ F <= B
  BY BlocksType, SizesAssumption DEF TypeOK, ChoiceType, FirstRequests
<1>2. /\ owed[p] \in Seq(Requestable) /\ owed[p] # <<>> /\ L \in Nat /\ L >= 1
      /\ n \in Nat /\ index[p] \in Int /\ blockStatus[p] \subseteq Int
  BY DEF TypeOK, OwedType, BufferType, BlockStored, AnswersCurrent, Answers
<1>3. WindowOf(p)
  BY AnswersFirst DEF BlockStored, AnswersCurrent
<1>a. n + L <= B /\ L <= F /\ n + L \in Nat
  BY <1>1, <1>2, <1>3 DEF WindowOf
<1>b. \A k \in 1 .. L : owed[p][k].piece = i /\ owed[p][k].block \in 0 .. n + L - 1
  BY <1>1, <1>2, <1>3 DEF WindowOf
<1>c. 0 .. F - 1 \subseteq blockStatus[p] /\ blockStatus[p] \subseteq 0 .. n + L - 1
  BY <1>1, <1>2, <1>3 DEF WindowOf
<1>d. n + L < B => L = F /\ index[p] = n + L - 1
  BY <1>1, <1>2, <1>3 DEF WindowOf
<1>e. n + L = B => (L = F /\ index[p] = B - 1) \/ index[p] = F - L - 1
  BY <1>1, <1>2, <1>3 DEF WindowOf
<1>5. h \in 0 .. n + L - 1
  <2>1. Head(owed[p]) = owed[p][1] /\ 1 \in 1 .. L
    BY <1>2
  <2>. QED  BY <1>b, <2>1
<1>6. /\ Tail(owed[p]) \in Seq(Requestable) /\ Len(Tail(owed[p])) = L - 1
      /\ \A k \in 1 .. L - 1 : Tail(owed[p])[k] = owed[p][k + 1]
  BY <1>2, HeadTailProperties
<1>7. \A k \in 1 .. L - 1 :
        Tail(owed[p])[k].piece = i /\ Tail(owed[p])[k].block \in 0 .. n + L - 1
  <2>. SUFFICES ASSUME NEW k \in 1 .. L - 1
                PROVE  Tail(owed[p])[k].piece = i
                       /\ Tail(owed[p])[k].block \in 0 .. n + L - 1
    OBVIOUS
  <2>1. k + 1 \in 1 .. L /\ Tail(owed[p])[k] = owed[p][k + 1]
    BY <1>2, <1>6
  <2>. QED  BY <1>b, <2>1
<1>8. /\ pieceIndex'[p] = i /\ num'[p] = n + 1 /\ index'[p] = next
      /\ blockStatus'[p] = blockStatus[p] \cup {h}
      /\ owed'[p] = IF AsksNext(p)
                    THEN Append(Tail(owed[p]), [piece |-> i, block |-> next])
                    ELSE Tail(owed[p])
  BY DEF TypeOK, BufferType, OwedType, BlockStored, choice
<1>9. blockStatus'[p] \subseteq 0 .. n + L - 1 /\ 0 .. F - 1 \subseteq blockStatus'[p]
  BY <1>c, <1>5, <1>8
<1>10. CASE n + L < B
  <2>1. next = n + L
    <3>1. index[p] = n + L - 1 /\ B \in Nat /\ n \in Nat /\ L \in Nat /\ n + L < B
      BY <1>1, <1>2, <1>d, <1>10
    <3>2. next = IF index[p] + 1 >= B THEN 0 ELSE index[p] + 1
      BY DEF NextIndex
    <3>. HIDE DEF next, B, L, n
    <3>. QED  BY <3>1, <3>2
  <2>2. AsksNext(p)
    BY <1>2, <1>c, <1>5, <2>1 DEF AsksNext, BlockStored, AnswersCurrent, Answers
  <2>. DEFINE req == [piece |-> i, block |-> n + L]
  <2>3. owed'[p] = Append(Tail(owed[p]), req)
    BY <1>8, <2>1, <2>2
  <2>4. req \in Requestable
    BY <1>1, <1>2 DEF Requestable
  <2>5. /\ Len(owed'[p]) = L
        /\ \A k \in 1 .. L : owed'[p][k] = IF k <= L - 1 THEN Tail(owed[p])[k] ELSE req
    BY <1>2, <1>6, <2>3, <2>4
  <2>6. ASSUME NEW k \in 1 .. L
        PROVE  owed'[p][k].piece = i /\ owed'[p][k].block \in 0 .. n + L
    <3>1. CASE k <= L - 1
      <4>1. k \in 1 .. L - 1 /\ owed'[p][k] = Tail(owed[p])[k]
        BY <1>2, <2>5, <3>1
      <4>2. Tail(owed[p])[k].piece = i /\ Tail(owed[p])[k].block \in 0 .. n + L - 1
        BY <1>7, <4>1
      <4>. QED  BY <1>2, <4>1, <4>2
    <3>2. CASE k > L - 1
      <4>1. owed'[p][k] = req
        BY <1>2, <2>5, <3>2
      <4>. QED  BY <1>2, <4>1
    <3>. QED  BY <1>2, <3>1, <3>2
  <2>7. n + 1 + L \in Nat /\ n + 1 + L <= B /\ (n + 1 + L) - 1 = n + L /\ L = F
    BY <1>1, <1>2, <1>a, <1>d, <1>10
  <2>8. blockStatus'[p] \subseteq 0 .. n + L
    BY <1>2, <1>9
  <2>9. /\ pieceIndex'[p] = i /\ num'[p] + Len(owed'[p]) = n + 1 + L /\ Len(owed'[p]) = F
        /\ index'[p] = n + L
    BY <1>1, <1>2, <1>8, <2>1, <2>5, <2>7
  <2>. QED
    BY <1>1, <1>9, <2>6, <2>7, <2>8, <2>9 DEF WindowOf, FirstRequests
<1>11. CASE n + L = B
  <2>1. next = F - L
    BY <1>1, <1>2, <1>a, <1>e, <1>11 DEF NextIndex
  <2>2. ~ AsksNext(p)
    <3>1. F - L \in 0 .. F - 1
      BY <1>1, <1>2, <1>a
    <3>. QED  BY <1>c, <2>1, <3>1 DEF AsksNext
  <2>3. owed'[p] = Tail(owed[p])
    BY <1>8, <2>2
  <2>4. (n + 1) + (L - 1) = B /\ L - 1 <= F /\ F - (L - 1) - 1 = F - L
    BY <1>1, <1>2, <1>a, <1>11
  <2>5. /\ pieceIndex'[p] = i /\ num'[p] + Len(owed'[p]) = B /\ Len(owed'[p]) = L - 1
        /\ index'[p] = F - L /\ F - Len(owed'[p]) - 1 = F - L
    BY <1>1, <1>2, <1>6, <1>8, <2>1, <2>3, <2>4
  <2>6. \A k \in 1 .. L - 1 : owed'[p][k].piece = i /\ owed'[p][k].block \in 0 .. B - 1
    BY <1>1, <1>2, <1>7, <1>11, <2>3
  <2>7. blockStatus'[p] \subseteq 0 .. B - 1
    BY <1>1, <1>2, <1>9, <1>11
  <2>. QED
    BY <1>1, <1>9, <2>4, <2>5, <2>6, <2>7 DEF WindowOf, FirstRequests
<1>. QED  BY <1>1, <1>2, <1>a, <1>10, <1>11

LEMMA WindowStep ==
  ASSUME NeverChokes, TypeOK, SelectionInv, IdleInv, WindowInv, [Next]_vars
  PROVE  WindowInv'
<1>0. /\ pc \in [Peers -> PcStates] /\ ChoiceType /\ IdleInv /\ WindowInv
      /\ num \in [Peers -> Nat] /\ blockStatus \in [Peers -> SUBSET Int]
      /\ index \in [Peers -> Nat \cup {-1}]
      /\ owed \in [Peers -> Seq(Requestable)]
  BY DEF TypeOK, BufferType, OwedType
<1>. DEFINE Same(q) == /\ pieceIndex'[q] = pieceIndex[q] /\ num'[q] = num[q]
                       /\ index'[q] = index[q] /\ blockStatus'[q] = blockStatus[q]
                       /\ owed'[q] = owed[q]
            Waits(q) == pc[q] \in {"loop", "recv"} /\ owed[q] # <<>>
<1>k. ASSUME NEW q \in Peers, WindowOf(q), Same(q) PROVE WindowOf(q)'
  BY <1>k DEF WindowOf, FirstRequests
<1>u. ASSUME \A q \in Peers : Waits(q)' => Waits(q) /\ Same(q) PROVE WindowInv'
  BY <1>0, <1>u, <1>k DEF WindowInv
<1>1. ASSUME NEW p \in Peers,
             \/ Spawn(p) \/ Handshake(p) \/ Bitfield(p) \/ SessionFails(p) \/ Loop(p)
             \/ Unchoke(p) \/ Have(p) \/ ReceiveFails(p) \/ ReceiveOther(p)
             \/ PieceVerified(p) \/ PieceRejected(p)
             \/ Enqueue(p) \/ CheckAll(p) \/ Finish(p)
             \/ SelectFound(p) \/ SelectNone(p) \/ Release(p) \/ Erase(p)
      PROVE  WindowInv'
  <2>1. ASSUME NEW q \in Peers, q # p PROVE Waits(q)' => Waits(q) /\ Same(q)
    BY <1>0, <1>1, <2>1 DEF Spawn, Handshake, Bitfield, SessionFails, Loop, Unchoke, Have,
       ReceiveFails, ReceiveOther, PieceVerified, PieceRejected, Enqueue, CheckAll, Finish,
       SelectFound, SelectNone, Release, Erase, Goto, choice, buffer, ChoiceType
  <2>2. Waits(p)' => Waits(p) /\ Same(p)
    BY <1>0, <1>1 DEF Spawn, Handshake, Bitfield, SessionFails, Loop, Unchoke, Have,
       ReceiveFails, ReceiveOther, PieceVerified, PieceRejected, Enqueue, CheckAll, Finish,
       SelectFound, SelectNone, Release, Erase, Goto, choice, buffer, IdleInv
  <2>. QED  BY <2>1, <2>2, <1>u
<1>2. ASSUME NEW p \in Peers, Choke(p) PROVE WindowInv'
  BY <1>2 DEF Choke, NeverChokes, TypeOK, LineType
<1>3. ASSUME NEW p \in Peers, BlockIgnored(p) PROVE WindowInv'
  BY <1>3, AnswersFirst DEF BlockIgnored
<1>4. ASSUME NEW p \in Peers, BlockStored(p) PROVE WindowInv'
  <2>1. \A q \in Peers : q # p => (Waits(q)' => Waits(q) /\ Same(q))
    BY <1>0, <1>4 DEF BlockStored, Goto, choice, ChoiceType
  <2>2. WindowOf(p)'
    BY <1>4, BlockWindow
  <2>. QED  BY <1>0, <1>k, <2>1, <2>2 DEF WindowInv
<1>5. ASSUME NEW p \in Peers, Request(p) PROVE WindowInv'
  <2>1. \A q \in Peers : q # p => (Waits(q)' => Waits(q) /\ Same(q))
    BY <1>0, <1>5 DEF Request, Goto, choice, ChoiceType
  <2>2. Waits(p)' => WindowOf(p)'
    BY <1>0, <1>5, RequestWindow
  <2>. QED  BY <1>0, <1>k, <2>1, <2>2 DEF WindowInv
<1>6. CASE Store \/ SearchEnd \/ AllReturned \/ UNCHANGED vars
  <2>1. UNCHANGED <<pc, choice, buffer, owed>>
    BY <1>6 DEF Store, StoreOpen, StoreFront, StoreIdle, StorePop, StoreWrite, StoreDone,
       SearchEnd, AllReturned, vars
  <2>. QED  BY <2>1, <1>u DEF choice, buffer
<1>. QED
  BY <1>1, <1>2, <1>3, <1>4, <1>5, <1>6 DEF Next, Session, Receive

LEMMA WindowInvariant == ASSUME NeverChokes PROVE Spec => [](IdleInv /\ WindowInv)
<1>1. TypeOK /\ SelectionInv /\ IdleInv /\ WindowInv /\ [Next]_vars => IdleInv' /\ WindowInv'
  BY IdleStep, WindowStep
<1>2. ClaimInv => SelectionInv
  BY DEF ClaimInv
<1>. QED  BY <1>1, <1>2, IdleInit, TypeCorrect, ClaimInvariant, PTL DEF Spec

\* While no peer chokes, a session never asks for more blocks than its piece
\* lacks, nor for more than parallelReqsNum at a time.
THEOREM BoundedRequests == ASSUME NeverChokes PROVE Spec => []RequestsBounded
<1>1. TypeOK /\ WindowInv => RequestsBounded
  <2>. SUFFICES ASSUME TypeOK, WindowInv, NEW p \in Peers, pc[p] = "recv", owed[p] # <<>>
                PROVE  /\ num[p] + Len(owed[p]) <= Blocks(pieceIndex[p])
                       /\ Len(owed[p]) <= ParallelReqsNum
    BY DEF RequestsBounded
  <2>1. num[p] + Len(owed[p]) <= Blocks(pieceIndex[p])
        /\ Len(owed[p]) <= FirstRequests(pieceIndex[p])
    BY DEF WindowInv, WindowOf
  <2>2. pieceIndex[p] \in Pieces /\ Len(owed[p]) \in Nat
    BY DEF TypeOK, ChoiceType, OwedType
  <2>3. FirstRequests(pieceIndex[p]) <= ParallelReqsNum
    BY <2>2, BlocksType, SizesAssumption DEF FirstRequests
  <2>. QED  BY <2>1, <2>2, <2>3, BlocksType, SizesAssumption
<1>. QED  BY <1>1, WindowInvariant, TypeCorrect, PTL

-----------------------------------------------------------------------------
(* Peers with which a choke ends what was asked before it: what is left over*)
(* from an earlier piece is never taken for the piece a session is at.     *)

LEMMA NextPieceMoves == ASSUME PiecesNum > 1, NEW i \in Pieces PROVE NextPiece(i) # i
<1>1. PiecesNum \in Nat /\ i \in Nat /\ i < PiecesNum
  BY PiecesNumPositive DEF Pieces
<1>2. CASE i + 1 < PiecesNum
  BY <1>1, <1>2 DEF NextPiece
<1>3. CASE i + 1 = PiecesNum
  BY <1>1, <1>3 DEF NextPiece
<1>. QED  BY <1>1, <1>2, <1>3

LEMMA LineTail ==
  ASSUME NEW reqs \in Seq(Requestable), reqs # <<>>, NEW i
  PROVE  /\ Alike(reqs) => Alike(Tail(reqs))
         /\ NoneOf(reqs, i) => NoneOf(Tail(reqs), i) /\ Head(reqs).piece # i
         /\ OthersFirst(reqs, i) => OthersFirst(Tail(reqs), i)
         /\ OthersFirst(reqs, i) /\ Head(reqs).piece = i => OnlyOf(Tail(reqs), i)
<1>1. /\ Len(reqs) \in Nat /\ Len(reqs) >= 1 /\ Len(Tail(reqs)) = Len(reqs) - 1
      /\ \A k \in 1 .. Len(reqs) - 1 : Tail(reqs)[k] = reqs[k + 1]
      /\ Head(reqs) = reqs[1]
  BY HeadTailProperties
<1>2. \A k \in 1 .. Len(reqs) - 1 : k + 1 \in 1 .. Len(reqs) /\ 1 < k + 1
  BY <1>1
<1>3. 1 \in 1 .. Len(reqs)
  BY <1>1
<1>4. \A j, k \in 1 .. Len(reqs) - 1 : j < k => j + 1 < k + 1
  BY <1>1
<1>. QED  BY <1>1, <1>2, <1>3, <1>4 DEF Alike, NoneOf, OthersFirst, OnlyOf

LEMMA LineOnly ==
  ASSUME NEW reqs, NEW i, OnlyOf(reqs, i)
  PROVE  Alike(reqs) /\ OthersFirst(reqs, i) /\ \A j : j # i => NoneOf(reqs, j)
BY DEF OnlyOf, Alike, OthersFirst, NoneOf

LEMMA LineAppend ==
  ASSUME NEW reqs \in Seq(Requestable), NEW i, OnlyOf(reqs, i),
         NEW e \in Requestable, e.piece = i
  PROVE  OthersFirst(Append(reqs, e), i)
<1>1. /\ Len(reqs) \in Nat /\ Len(Append(reqs, e)) = Len(reqs) + 1
      /\ \A k \in 1 .. Len(reqs) + 1 : Append(reqs, e)[k] = IF k <= Len(reqs) THEN reqs[k] ELSE e
  OBVIOUS
<1>2. ASSUME NEW k \in 1 .. Len(reqs) + 1 PROVE Append(reqs, e)[k].piece = i
  <2>1. CASE k <= Len(reqs)
    <3>1. k \in 1 .. Len(reqs) /\ Append(reqs, e)[k] = reqs[k]
      BY <1>1, <2>1
    <3>. QED  BY <3>1 DEF OnlyOf
  <2>2. CASE ~ (k <= Len(reqs))
    BY <1>1, <2>2
  <2>. QED  BY <2>1, <2>2
<1>. QED  BY <1>1, <1>2 DEF OthersFirst

LEMMA LineRequests ==
  ASSUME NEW reqs \in Seq(Requestable), Alike(reqs), NEW i \in Pieces, NEW n \in Nat
  PROVE  OthersFirst(reqs \o Requests(i, n), i)
<1>. DEFINE new == Requests(i, n)
            all == reqs \o new
<1>1. new \in Seq(Requestable) /\ \A k \in 1 .. Len(new) : new[k].piece = i
  <2>1. new \in Seq(Requestable)
    BY RequestsType
  <2>2. DOMAIN new = 1 .. n /\ DOMAIN new = 1 .. Len(new)
    BY <2>1, LenProperties DEF Requests
  <2>3. \A k \in 1 .. n : new[k].piece = i
    BY DEF Requests
  <2>. QED  BY <2>1, <2>2, <2>3
<1>. HIDE DEF new
<1>2. /\ Len(reqs) \in Nat /\ Len(new) \in Nat /\ Len(all) = Len(reqs) + Len(new)
      /\ \A k \in 1 .. Len(reqs) + Len(new) :
           all[k] = IF k <= Len(reqs) THEN reqs[k] ELSE new[k - Len(reqs)]
  BY <1>1
<1>3. ASSUME NEW k \in 1 .. Len(reqs) + Len(new), k > Len(reqs) PROVE all[k].piece = i
  <2>1. k - Len(reqs) \in 1 .. Len(new) /\ all[k] = new[k - Len(reqs)]
    BY <1>2, <1>3
  <2>. QED  BY <1>1, <2>1
<1>. HIDE DEF all
<1>4. ASSUME NEW j \in 1 .. Len(all), NEW k \in 1 .. Len(all), j < k, all[j].piece = i
      PROVE  all[k].piece = i
  <2>1. CASE k > Len(reqs)
    BY <1>2, <1>3, <2>1
  <2>2. CASE k <= Len(reqs)
    <3>1. /\ j \in 1 .. Len(reqs) /\ k \in 1 .. Len(reqs)
          /\ all[j] = reqs[j] /\ all[k] = reqs[k]
      BY <1>2, <1>4, <2>2
    <3>. QED  BY <1>4, <3>1 DEF Alike
  <2>. QED  BY <1>2, <2>1, <2>2
<1>5. OthersFirst(all, i)
  BY <1>4 DEF OthersFirst
<1>. QED  BY <1>5 DEF all, new

LEMMA LineEmpty == \A i : Alike(<<>>) /\ NoneOf(<<>>, i)
BY DEF Alike, NoneOf

LEMMA LineInit == Init => LineInv
<1>. SUFFICES ASSUME Init, NEW p \in Peers PROVE LineOf(p)
  BY DEF LineInv
<1>. QED  BY DEF Init, LineOf

\* One step of a session, for a choke that ends what was asked before it.
LEMMA LineOwnStep ==
  ASSUME PiecesNum > 1, TypeOK, SelectionInv, NEW p \in Peers, LineOf(p),
         Spawn(p) \/ Session(p), ~ LateAnswers
  PROVE  LineOf(p)'
<1>0. /\ pc \in [Peers -> PcStates] /\ owed \in [Peers -> Seq(Requestable)]
      /\ peerStatus \in [Peers -> {"CHOKED", "UNCHOKED"}] /\ ChoiceType /\ OwedType
      /\ pieceIndex[p] \in Pieces /\ owed[p] \in Seq(Requestable)
  BY DEF TypeOK, LineType, OwedType, ChoiceType
<1>. USE DEF LineOf, Unclaimed, Goto
<1>1. CASE Spawn(p) \/ Handshake(p) \/ SessionFails(p) \/ Loop(p)
  BY <1>0, <1>1 DEF Spawn, Handshake, SessionFails, Loop, choice, line
<1>2. CASE Bitfield(p)
  <2>1. owed'[p] = <<>> /\ pc'[p] = "loop" /\ selectedPiece'[p] = NoPiece
    BY <1>0, <1>2 DEF Bitfield, choice, SelectionInv
  <2>. QED  BY <2>1, LineEmpty
<1>3. CASE Unchoke(p)
  <2>1. pc'[p] = "select" /\ peerStatus[p] = "CHOKED" /\ peerStatus'[p] = "UNCHOKED"
    BY <1>0, <1>3 DEF Unchoke
  <2>2. owed'[p] = <<>>
    BY <1>0, <1>3 DEF Unchoke
  <2>. QED  BY <2>1, <2>2, LineEmpty
<1>4. CASE Choke(p)
  BY <1>0, <1>4 DEF Choke
<1>5. CASE Have(p) \/ ReceiveFails(p) \/ ReceiveOther(p)
  <2>1. UNCHANGED <<choice, owed, peerStatus>> /\ pc[p] = "recv"
    BY <1>5 DEF Have, ReceiveFails, ReceiveOther, line
  <2>2. /\ pc'[p] \in {"loop", "select", "release"}
        /\ pc'[p] = "select" => selectedPiece[p] = NoPiece
    BY <1>0, <1>5 DEF Have, ReceiveFails, ReceiveOther, SelectionInv
  <2>. QED  BY <2>1, <2>2 DEF choice
<1>6. CASE BlockIgnored(p)
  <2>1. /\ pc[p] = "recv" /\ peerStatus[p] = "UNCHOKED" /\ owed[p] # <<>>
        /\ UNCHANGED <<choice, peerStatus>> /\ pc'[p] = "loop" /\ owed'[p] = Tail(owed[p])
    BY <1>0, <1>6 DEF BlockIgnored, Answers, line
  <2>. QED  BY <1>0, <2>1, LineTail DEF choice
<1>7. ASSUME AnswersCurrent(p)
      PROVE  /\ pc[p] = "recv" /\ peerStatus[p] = "UNCHOKED" /\ owed[p] # <<>>
             /\ selectedPiece[p] = pieceIndex[p] /\ selectedPiece[p] # NoPiece
             /\ OnlyOf(Tail(owed[p]), pieceIndex[p])
  <2>1. /\ pc[p] = "recv" /\ peerStatus[p] = "UNCHOKED" /\ owed[p] # <<>>
        /\ Head(owed[p]).piece = pieceIndex[p]
    BY <1>7 DEF AnswersCurrent, Answers
  <2>2. selectedPiece[p] # NoPiece
    BY <1>0, <2>1, LineTail
  <2>. QED  BY <1>0, <2>1, <2>2, LineTail DEF SelectionInv
<1>8. CASE BlockStored(p)
  <2>. DEFINE next == [piece |-> pieceIndex[p], block |-> NextIndex(p)]
  <2>1. /\ UNCHANGED <<choice, peerStatus>> /\ pc'[p] = "loop"
        /\ owed'[p] \in {Tail(owed[p]), Append(Tail(owed[p]), next)}
        /\ selectedPiece[p] # NoPiece /\ OnlyOf(Tail(owed[p]), pieceIndex[p])
    BY <1>0, <1>7, <1>8 DEF BlockStored, line
  <2>2. Tail(owed[p]) \in Seq(Requestable) /\ next \in Requestable
    <3>1. NextIndex(p) \in Nat
      <4>1. index[p] \in Nat \cup {-1} /\ Blocks(pieceIndex[p]) \in Nat
        BY <1>0, BlocksType DEF TypeOK, BufferType
      <4>. QED  BY <4>1 DEF NextIndex
    <3>. QED  BY <1>0, <1>7, <1>8, <3>1, OldestOwed DEF BlockStored, Requestable
  <2>3. OthersFirst(owed'[p], pieceIndex[p])
    <3>1. next.piece = pieceIndex[p]
      OBVIOUS
    <3>2. OthersFirst(Append(Tail(owed[p]), next), pieceIndex[p])
      BY <2>1, <2>2, <3>1, LineAppend
    <3>. QED  BY <2>1, <3>2, LineOnly
  <2>. QED  BY <2>1, <2>3 DEF choice
<1>9. CASE PieceVerified(p)
  <2>1. /\ UNCHANGED <<choice, peerStatus>> /\ pc'[p] = "enqueue" /\ owed'[p] = Tail(owed[p])
        /\ selectedPiece[p] = pieceIndex[p] /\ OnlyOf(Tail(owed[p]), pieceIndex[p])
    BY <1>0, <1>7, <1>9 DEF PieceVerified, line
  <2>. QED  BY <2>1 DEF choice
<1>10. CASE PieceRejected(p)
  <2>1. /\ pc'[p] = "select" /\ owed'[p] = Tail(owed[p])
        /\ pieceIndex'[p] = NextPiece(pieceIndex[p])
        /\ OnlyOf(Tail(owed[p]), pieceIndex[p])
    BY <1>0, <1>7, <1>10 DEF PieceRejected, ChoiceType
  <2>2. Alike(Tail(owed[p])) /\ NoneOf(Tail(owed[p]), NextPiece(pieceIndex[p]))
    BY <1>0, <2>1, LineOnly, NextPieceMoves
  <2>. QED  BY <2>1, <2>2
<1>11. CASE Enqueue(p)
  BY <1>0, <1>11 DEF Enqueue, choice, line
<1>12. CASE CheckAll(p)
  <2>1. /\ pc[p] = "check" /\ UNCHANGED <<selectedPiece, owed, peerStatus>>
        /\ peerStatus[p] = "UNCHOKED"
    BY <1>12 DEF CheckAll, line, SelectionInv
  <2>2. OnlyOf(owed[p], pieceIndex[p]) /\ selectedPiece[p] = pieceIndex[p]
    BY <2>1
  <2>3. CASE pc'[p] = "finish" /\ pieceIndex'[p] = pieceIndex[p]
    BY <2>1, <2>2, <2>3
  <2>4. CASE pc'[p] = "select" /\ pieceIndex'[p] = NextPiece(pieceIndex[p])
    <3>1. Alike(owed[p]) /\ NoneOf(owed[p], NextPiece(pieceIndex[p]))
      BY <1>0, <2>2, LineOnly, NextPieceMoves
    <3>. QED  BY <2>1, <2>4, <3>1
  <2>. QED  BY <1>0, <1>12, <2>3, <2>4 DEF CheckAll, ChoiceType
<1>13. CASE Finish(p)
  <2>1. /\ pc[p] = "finish" /\ UNCHANGED <<choice, owed, peerStatus>>
        /\ peerStatus[p] = "UNCHOKED" /\ pc'[p] = "loop"
    BY <1>0, <1>13 DEF Finish, line, SelectionInv
  <2>2. OnlyOf(owed[p], pieceIndex[p]) /\ selectedPiece[p] = pieceIndex[p]
    BY <2>1
  <2>3. selectedPiece[p] # NoPiece
    BY <1>0, <2>2, PiecesNumPositive DEF Pieces, NoPiece
  <2>. QED  BY <2>1, <2>2, <2>3, LineOnly DEF choice
<1>14. CASE SelectFound(p)
  <2>1. /\ pc[p] = "select" /\ UNCHANGED <<owed, peerStatus>> /\ pc'[p] = "request"
        /\ selectedPiece'[p] = pieceIndex'[p]
    BY <1>0, <1>14 DEF SelectFound, line, ChoiceType
  <2>. QED  BY <2>1
<1>15. CASE SelectNone(p)
  <2>1. /\ pc[p] = "select" /\ UNCHANGED <<pieceIndex, owed, peerStatus>> /\ pc'[p] = "loop"
        /\ selectedPiece'[p] = NoPiece
    BY <1>0, <1>15 DEF SelectNone, line, ChoiceType
  <2>. QED  BY <2>1
<1>16. CASE Request(p)
  <2>1. /\ pc[p] = "request" /\ UNCHANGED <<choice, peerStatus>> /\ pc'[p] = "loop"
        /\ owed'[p] = owed[p] \o Requests(pieceIndex[p], FirstRequests(pieceIndex[p]))
    BY <1>0, <1>16 DEF Request, line
  <2>2. CASE peerStatus[p] = "UNCHOKED"
    <3>1. Alike(owed[p]) /\ selectedPiece[p] = pieceIndex[p]
      BY <2>1, <2>2
    <3>2. selectedPiece[p] # NoPiece
      BY <1>0, <3>1, PiecesNumPositive DEF Pieces, NoPiece
    <3>3. OthersFirst(owed'[p], pieceIndex[p])
      BY <1>0, <2>1, <3>1, LineRequests, BlocksType
    <3>. QED  BY <2>1, <3>2, <3>3 DEF choice
  <2>3. CASE peerStatus[p] # "UNCHOKED"
    BY <2>1, <2>3
  <2>. QED  BY <2>2, <2>3
<1>17. CASE Release(p) \/ Erase(p)
  BY <1>0, <1>17 DEF Release, Erase
<1>. QED
  BY <1>1, <1>2, <1>3, <1>4, <1>5, <1>6, <1>8, <1>9, <1>10, <1>11, <1>12, <1>13, <1>14, <1>15,
     <1>16, <1>17 DEF Session, Receive

LEMMA LineInvariant ==
  ASSUME ~ LateAnswers, PiecesNum > 1
  PROVE  Spec => []LineInv
<1>1. TypeOK /\ SelectionInv /\ LineInv /\ [Next]_vars => LineInv'
  <2>. SUFFICES ASSUME TypeOK, SelectionInv, LineInv, [Next]_vars,
                       NEW p \in Peers
                PROVE  LineOf(p)'
    BY DEF LineInv
  <2>1. LineOf(p)
    BY DEF LineInv
  <2>2. CASE SameSession(p)
    BY <2>1, <2>2 DEF LineOf, Unclaimed, SameSession
  <2>3. CASE UNCHANGED vars
    BY <2>2, <2>3 DEF vars, choice, line, SameSession
  <2>4. CASE Spawn(p) \/ Session(p)
    BY <2>1, <2>4, LineOwnStep
  <2>. QED  BY <2>2, <2>3, <2>4, OwnStep
<1>2. ClaimInv => SelectionInv
  BY DEF ClaimInv
<1>. QED
  BY <1>1, <1>2, LineInit, TypeCorrect, ClaimInvariant, PTL DEF Spec

\* An answer the session takes for the piece it is at finds it still holding it.
LEMMA AnswersFindOwner ==
  ASSUME Courteous
  PROVE  Spec => []AnswersOwned
<1>1. ASSUME ~ LateAnswers, PiecesNum > 1 PROVE Spec => []AnswersOwned
  <2>1. TypeOK /\ LineInv => AnswersOwned
    <3>. SUFFICES ASSUME TypeOK, LineInv, NEW p \in Peers, Answers(p),
                         Head(owed[p]).piece = pieceIndex[p], selectedPiece[p] = NoPiece
                  PROVE  FALSE
      BY DEF AnswersOwned
    <3>1. owed[p] \in Seq(Requestable) /\ owed[p] # <<>> /\ NoneOf(owed[p], pieceIndex[p])
      BY DEF TypeOK, OwedType, Answers, LineInv, LineOf, Unclaimed
    <3>. QED  BY <3>1, LineTail
  <2>2. Spec => []LineInv
    BY <1>1, LineInvariant
  <2>. QED  BY <2>1, <2>2, TypeCorrect, PTL
<1>2. ASSUME NeverChokes PROVE Spec => []AnswersOwned
  <2>1. IdleInv => AnswersOwned
    BY DEF AnswersOwned, IdleInv, Answers
  <2>2. Spec => [](IdleInv /\ WindowInv)
    BY <1>2, WindowInvariant
  <2>. QED  BY <2>1, <2>2, PTL
<1>. QED  BY <1>1, <1>2 DEF Courteous

-----------------------------------------------------------------------------
(* No piece is downloaded twice, so rcvPiecesNum counts pieces.            *)

LEMMA ExclusiveInit == Init => TableInv /\ CountInv /\ NoticedInv
<1>. SUFFICES ASSUME Init PROVE TableInv /\ CountInv /\ NoticedInv
  OBVIOUS
<1>1. Verified = {}
  <2>1. Range(piecesQueue) = {} /\ Pending = {}
    BY DEF Init, Range, Pending
  <2>. QED  BY <2>1 DEF Init, Verified, InHand
<1>. QED
  BY <1>1, FS_EmptySet, PiecesNumPositive DEF Init, TableInv, CountInv, NoticedInv, Holds

\* A session that takes a block holds the piece the block belongs to, and the
\* piece was not verified yet.
LEMMA AnsweringHolds ==
  ASSUME TypeOK, SelectionInv, TableInv, CountInv, AnswersOwned,
         NEW p \in Peers, AnswersCurrent(p)
  PROVE  /\ Holds(p) /\ selectedPiece[p] = pieceIndex[p]
         /\ status # "DOWNLOADED"
         /\ piecesStatus[pieceIndex[p]] = "DOWNLOADING"
         /\ pieceIndex[p] \in Pieces /\ pieceIndex[p] \notin Verified
<1>1. pc[p] = "recv" /\ selectedPiece[p] # NoPiece
  BY DEF AnswersCurrent, Answers, AnswersOwned
<1>2. Holds(p) /\ selectedPiece[p] = pieceIndex[p]
  BY <1>1 DEF Holds, SelectionInv
<1>3. status # "DOWNLOADED"
  BY <1>1 DEF CountInv
<1>4. pieceIndex[p] \in Pieces
  BY DEF TypeOK, ChoiceType
<1>5. piecesStatus[pieceIndex[p]] = "DOWNLOADING" /\ pieceIndex[p] \notin Verified
  BY <1>2, <1>3, <1>4 DEF TableInv
<1>. QED  BY <1>2, <1>3, <1>4, <1>5

LEMMA TableStep ==
  ASSUME TypeOK, SelectionInv, TableInv, CountInv, AnswersOwned, [Next]_vars
  PROVE  TableInv'
<1>0. /\ pc \in [Peers -> PcStates] /\ ChoiceType
      /\ piecesStatus \in [Pieces -> {"NOT_DOWNLOADED", "DOWNLOADING", "DOWNLOADED"}]
      /\ \A p \in Peers : availablePieces[p] \subseteq Pieces
  BY DEF TypeOK, SharedType, LineType
<1>s. status' # "DOWNLOADED" => status # "DOWNLOADED"
  BY ZenonT(60) DEF Next, Session, Receive, Store, Spawn, Handshake, Bitfield, SessionFails, Loop,
     Unchoke, Choke, Have, ReceiveFails, ReceiveOther, BlockIgnored, BlockStored,
     PieceVerified, PieceRejected, Enqueue, CheckAll, Finish, SelectFound, SelectNone,
     Request, Release, Erase, SearchEnd, StoreOpen, StoreFront, StoreIdle, StorePop,
     StoreWrite, StoreDone, AllReturned, Opened, vars, shared
<1>t. status # "DOWNLOADED" =>
        /\ \A i \in Pieces : piecesStatus[i] = "DOWNLOADED" <=> i \in Verified
        /\ \A p \in Peers : Holds(p) => piecesStatus[selectedPiece[p]] = "DOWNLOADING"
        /\ \A p, q \in Peers :
             Holds(p) /\ Holds(q) /\ selectedPiece[p] = selectedPiece[q] => p = q
  BY DEF TableInv
<1>. DEFINE NoNewHolder ==
              \A q \in Peers : Holds(q)' => Holds(q) /\ selectedPiece'[q] = selectedPiece[q]
<1>k. ASSUME NoNewHolder, Verified' = Verified, piecesStatus' = piecesStatus
      PROVE  TableInv'
  BY <1>s, <1>t, <1>k DEF TableInv
<1>1. ASSUME NEW p \in Peers,
             \/ Spawn(p) \/ Handshake(p) \/ Bitfield(p) \/ SessionFails(p) \/ Loop(p)
             \/ Unchoke(p) \/ Have(p) \/ ReceiveFails(p) \/ ReceiveOther(p)
             \/ BlockIgnored(p) \/ BlockStored(p) \/ Enqueue(p) \/ CheckAll(p)
             \/ SelectNone(p) \/ Request(p) \/ Erase(p)
      PROVE  TableInv'
  <2>1. piecesStatus' = piecesStatus
    BY <1>1 DEF Spawn, Handshake, Bitfield, SessionFails, Loop, Unchoke, Have,
         ReceiveFails, ReceiveOther, BlockIgnored, BlockStored, Enqueue, CheckAll,
         SelectNone, Request, Erase, shared
  <2>2. rcvPiecesNum' = rcvPiecesNum /\ rcvPiecesNum \in Nat
    BY <1>1 DEF Spawn, Handshake, Bitfield, SessionFails, Loop, Unchoke, Have,
         ReceiveFails, ReceiveOther, BlockIgnored, BlockStored, Enqueue, CheckAll,
         SelectNone, Request, Erase, shared, TypeOK, SharedType
  <2>3. Verified' = Verified
    BY <2>2, VerifiedStep
  <2>4. NoNewHolder
    BY <1>0, <1>1 DEF Spawn, Handshake, Bitfield, SessionFails, Loop, Unchoke, Have,
         ReceiveFails, ReceiveOther, BlockIgnored, BlockStored, Enqueue, CheckAll,
         SelectNone, Request, Erase, AnswersCurrent, Answers, SelectionInv, ChoiceType,
         Holds, Goto, choice
  <2>. QED  BY <2>1, <2>3, <2>4, <1>k
<1>2. ASSUME NEW p \in Peers, PieceVerified(p) PROVE TableInv'
  <2>1. Holds(p) /\ selectedPiece[p] = pieceIndex[p] /\ pieceIndex[p] \in Pieces
    BY <1>2, AnsweringHolds DEF PieceVerified
  <2>2. rcvPiecesNum' # rcvPiecesNum
    BY <1>2 DEF PieceVerified, TypeOK, SharedType
  <2>3. PICK q \in Peers : PieceVerified(q) /\ Verified' = Verified \cup {pieceIndex[q]}
    BY <2>2, VerifiedStep
  <2>4. q = p
    <3>1. pc'[q] = "enqueue" /\ pc[q] # "enqueue" /\ pc' = [pc EXCEPT ![p] = "enqueue"]
      BY <1>0, <1>2, <2>3 DEF PieceVerified, AnswersCurrent, Answers, Goto
    <3>. QED  BY <1>0, <3>1
  <2>5. /\ piecesStatus' = [piecesStatus EXCEPT ![pieceIndex[p]] = "DOWNLOADED"]
        /\ selectedPiece' = selectedPiece /\ ~ Holds(p)'
        /\ \A r \in Peers : Holds(r)' => Holds(r) /\ r # p
    BY <1>0, <1>2 DEF PieceVerified, SetPiece, Holds, Goto, choice
  <2>. QED
    BY <1>0, <1>s, <1>t, <2>1, <2>3, <2>4, <2>5 DEF TableInv, Holds, ChoiceType
<1>3. ASSUME NEW p \in Peers, PieceRejected(p) PROVE TableInv'
  <2>1. /\ Holds(p) /\ selectedPiece[p] = pieceIndex[p] /\ pieceIndex[p] \in Pieces
        /\ pieceIndex[p] \notin Verified
    BY <1>3, AnsweringHolds DEF PieceRejected
  <2>2. Verified' = Verified
    BY <1>3, VerifiedStep DEF PieceRejected, TypeOK, SharedType
  <2>3. /\ piecesStatus' = [piecesStatus EXCEPT ![pieceIndex[p]] = "NOT_DOWNLOADED"]
        /\ selectedPiece' = selectedPiece
        /\ \A r \in Peers : Holds(r)' => Holds(r) /\ r # p
    BY <1>0, <1>3 DEF PieceRejected, SetPiece, Holds, Goto
  <2>. QED  BY <1>0, <1>s, <1>t, <2>1, <2>2, <2>3 DEF TableInv, Holds, ChoiceType
<1>4. ASSUME NEW p \in Peers, SelectFound(p) PROVE TableInv'
  <2>1. PICK i \in Wanted(p) :
          /\ SetPiece(i, "DOWNLOADING")
          /\ selectedPiece' = [selectedPiece EXCEPT ![p] = i]
    BY <1>4 DEF SelectFound
  <2>2. i \in Pieces /\ piecesStatus[i] = "NOT_DOWNLOADED"
    BY <1>0 DEF Wanted
  <2>3. Verified' = Verified
    BY <1>4, VerifiedStep DEF SelectFound, TypeOK, SharedType
  <2>4. /\ piecesStatus' = [piecesStatus EXCEPT ![i] = "DOWNLOADING"]
        /\ selectedPiece'[p] = i
        /\ \A r \in Peers : r # p /\ Holds(r)' => Holds(r) /\ selectedPiece'[r] = selectedPiece[r]
    BY <1>0, <1>4, <2>1 DEF SelectFound, SetPiece, Holds, Goto, ChoiceType
  <2>5. CASE status # "DOWNLOADED"
    <3>1. \A r \in Peers : r # p /\ Holds(r)' => selectedPiece'[r] # i
      BY <1>t, <2>2, <2>4, <2>5
    <3>2. \A j \in Pieces : piecesStatus'[j] = "DOWNLOADED" <=> j \in Verified'
      BY <1>0, <1>t, <2>2, <2>3, <2>4, <2>5
    <3>3. \A r \in Peers : Holds(r)' => piecesStatus'[selectedPiece'[r]] = "DOWNLOADING"
      <4>1. \A r \in Peers : Holds(r) => selectedPiece[r] \in Pieces
        BY <1>0 DEF Holds, ChoiceType
      <4>. QED  BY <1>0, <1>t, <2>2, <2>4, <2>5, <4>1
    <3>. QED  BY <1>t, <2>4, <2>5, <3>1, <3>2, <3>3 DEF TableInv
  <2>. QED  BY <1>s, <2>5 DEF TableInv
<1>5. ASSUME NEW p \in Peers, Finish(p) PROVE TableInv'
  BY <1>5 DEF Finish, TableInv
<1>6. ASSUME NEW p \in Peers, Choke(p) \/ Release(p) PROVE TableInv'
  <2>1. Verified' = Verified
    BY <1>6, VerifiedStep DEF Choke, Release, TypeOK, SharedType
  <2>2. /\ \A r \in Peers : Holds(r)' => r # p /\ Holds(r)
        /\ \A r \in Peers : r # p => selectedPiece'[r] = selectedPiece[r]
        /\ ReleasePiece(p) /\ pc[p] \in {"recv", "release"}
    BY <1>0, <1>6 DEF Choke, Release, ReleasePiece, Holds, Goto, ChoiceType
  <2>3. CASE selectedPiece[p] = NoPiece
    BY <1>k, <2>1, <2>2, <2>3 DEF ReleasePiece
  <2>4. CASE selectedPiece[p] # NoPiece
    <3>1. Holds(p) /\ selectedPiece[p] \in Pieces
      BY <1>0, <2>2, <2>4 DEF Holds, ChoiceType
    <3>2. piecesStatus' = [piecesStatus EXCEPT ![selectedPiece[p]] = "NOT_DOWNLOADED"]
      BY <2>2, <2>4 DEF ReleasePiece
    <3>. QED  BY <1>0, <1>s, <1>t, <2>1, <2>2, <3>1, <3>2 DEF TableInv, Holds, ChoiceType
  <2>. QED  BY <2>3, <2>4
<1>7. CASE Store \/ SearchEnd \/ AllReturned \/ UNCHANGED vars
  <2>1. UNCHANGED <<piecesStatus, rcvPiecesNum, pc, selectedPiece>>
    BY <1>7 DEF Store, StoreOpen, StoreFront, StoreIdle, StorePop, StoreWrite, StoreDone,
         SearchEnd, AllReturned, vars, shared, choice
  <2>2. Verified' = Verified
    BY <2>1, VerifiedStep DEF TypeOK, SharedType
  <2>. QED  BY <2>1, <2>2, <1>k DEF Holds
<1>. QED
  BY <1>1, <1>2, <1>3, <1>4, <1>5, <1>6, <1>7 DEF Next, Session, Receive

LEMMA CountStep ==
  ASSUME TypeOK, TypeOK', SelectionInv, TableInv, CountInv, AnswersOwned, [Next]_vars
  PROVE  CountInv'
<1>0. pc \in [Peers -> PcStates] /\ ChoiceType /\ rcvPiecesNum \in Nat
  BY DEF TypeOK, SharedType
<1>1. rcvPiecesNum' = Cardinality(Verified') /\ rcvPiecesNum' >= rcvPiecesNum
      /\ Verified \subseteq Verified'
  <2>1. CASE Verified' = Verified /\ rcvPiecesNum' = rcvPiecesNum
    BY <1>0, <2>1 DEF CountInv
  <2>2. ASSUME NEW p \in Peers, PieceVerified(p),
               Verified' = Verified \cup {pieceIndex[p]}, rcvPiecesNum' = rcvPiecesNum + 1
        PROVE  rcvPiecesNum' = Cardinality(Verified')
    <3>1. pieceIndex[p] \notin Verified
      BY <2>2, AnsweringHolds DEF PieceVerified
    <3>2. IsFiniteSet(Verified)
      BY VerifiedBound
    <3>. QED  BY <1>0, <2>2, <3>1, <3>2, FS_AddElement DEF CountInv
  <2>. QED  BY <1>0, <2>1, <2>2, VerifiedStep
<1>2. /\ Verified' \subseteq Pieces /\ rcvPiecesNum' <= PiecesNum
      /\ rcvPiecesNum' = PiecesNum => Verified' = Pieces
  <2>1. /\ Verified' \subseteq Pieces /\ Cardinality(Verified') <= PiecesNum
        /\ Cardinality(Verified') = PiecesNum => Verified' = Pieces
    BY VerifiedBoundNext
  <2>. QED  BY <1>1, <2>1
<1>3. ASSUME NEW p \in Peers, pc'[p] = "finish" PROVE rcvPiecesNum' = PiecesNum
  <2>1. pc[p] = "finish" \/ AllReceived
    <3>1. CASE Spawn(p) \/ Session(p)
      BY <1>0, <1>3, <3>1 DEF Session, Receive, Spawn, Handshake, Bitfield,
         SessionFails, Loop, Unchoke, Choke, Have, ReceiveFails, ReceiveOther, BlockIgnored,
         BlockStored, PieceVerified, PieceRejected, Enqueue, CheckAll, Finish, SelectFound,
         SelectNone, Request, Release, Erase, Goto
    <3>. QED  BY <1>3, <3>1, OwnStep DEF SameSession
  <2>2. rcvPiecesNum = PiecesNum /\ PiecesNum \in Nat
    BY <1>0, <2>1, PiecesNumPositive DEF CountInv, AllReceived
  <2>. QED  BY <1>0, <1>1, <1>2, <2>2, PiecesNumPositive DEF TypeOK, SharedType
<1>4. ASSUME status' = "DOWNLOADED"
      PROVE  Verified' = Pieces /\ \A q \in Peers : pc'[q] = "recv" => selectedPiece'[q] = NoPiece
  <2>1. CASE status = "DOWNLOADED"
    <3>1. Verified' = Pieces
      BY <1>1, <1>2, <2>1 DEF CountInv
    <3>2. ASSUME NEW q \in Peers, pc'[q] = "recv"
          PROVE  pc[q] = "recv" /\ selectedPiece'[q] = selectedPiece[q]
      <4>1. ~ Spawn(q) /\ ~ Session(q)
        BY <1>0, <2>1, <3>2 DEF Session, Receive, Spawn, Handshake, Bitfield,
           SessionFails, Loop, KeepsOn, Unchoke, Choke, Have, ReceiveFails, ReceiveOther,
           BlockIgnored, BlockStored, PieceVerified, PieceRejected, Enqueue, CheckAll,
           Finish, SelectFound, SelectNone, Request, Release, Erase, Goto
      <4>. QED  BY <3>2, <4>1, OwnStep DEF SameSession
    <3>. QED  BY <2>1, <3>1, <3>2 DEF CountInv
  <2>2. CASE status # "DOWNLOADED"
    <3>1. PICK p \in Peers : Finish(p)
      BY <1>4, <2>2, ZenonT(60) DEF Next, Session, Receive, Store, Spawn, Handshake, Bitfield,
         SessionFails, Loop, Unchoke, Choke, Have, ReceiveFails, ReceiveOther, BlockIgnored,
         BlockStored, PieceVerified, PieceRejected, Enqueue, CheckAll, SelectFound,
         SelectNone, Request, Release, Erase, SearchEnd, StoreOpen, StoreFront, StoreIdle,
         StorePop, StoreWrite, StoreDone, AllReturned, Opened, vars, shared
    <3>2. Verified' = Verified /\ Verified = Pieces
      <4>1. rcvPiecesNum = PiecesNum
        BY <3>1 DEF Finish, CountInv
      <4>. QED  BY <1>0, <1>1, <1>2, <4>1, VerifiedBound DEF CountInv
    <3>3. ASSUME NEW q \in Peers, pc'[q] = "recv" PROVE selectedPiece'[q] = NoPiece
      <4>1. pc[q] = "recv" /\ selectedPiece'[q] = selectedPiece[q]
        BY <1>0, <3>1, <3>3 DEF Finish, Goto, choice
      <4>2. CASE selectedPiece[q] # NoPiece
        <5>1. Holds(q) /\ selectedPiece[q] \in Pieces
          BY <1>0, <4>1, <4>2 DEF Holds, ChoiceType
        <5>. QED  BY <2>2, <3>2, <5>1 DEF TableInv
      <4>. QED  BY <4>1, <4>2
    <3>. QED  BY <3>2, <3>3
  <2>. QED  BY <2>1, <2>2
<1>. QED  BY <1>1, <1>3, <1>4 DEF CountInv

\* The inductive invariant behind the safety properties.
THEOREM SafetyInvariant ==
  ASSUME Courteous
  PROVE  Spec => []SafetyInv
<1>1. Init => TableInv /\ CountInv /\ NoticedInv /\ StoredInv
  BY ExclusiveInit DEF Init, StoredInv
<1>2. TypeOK /\ TypeOK' /\ ClaimInv /\ TableInv /\ CountInv /\ AnswersOwned /\ [Next]_vars
        => TableInv' /\ CountInv'
  BY TableStep, CountStep DEF ClaimInv
<1>3. Spec => []AnswersOwned
  BY AnswersFindOwner
<1>4. Spec => []TypeOK /\ []ClaimInv /\ []Conservation
  BY TypeCorrect, ClaimInvariant, PiecesConserved
<1>5. SafetyInv <=> /\ ClaimInv /\ Conservation /\ NoticedInv /\ StoredInv
                    /\ TableInv /\ CountInv /\ AnswersOwned
  BY DEF SafetyInv
<1>. QED
  BY <1>1, <1>2, <1>3, <1>4, <1>5, NoticedStep, StoredStep, PTL DEF Spec

-----------------------------------------------------------------------------
(* The safety properties.                                                  *)

\* Two sessions never download the same piece, when a choke ends what was asked
\* before it.
THEOREM ExclusiveClaims ==
  ASSUME Courteous
  PROVE  Spec => []ClaimsExclusive
<1>1. SafetyInv => ClaimsExclusive
  BY DEF SafetyInv, TableInv, Holds, ClaimsExclusive
<1>. QED  BY <1>1, SafetyInvariant, PTL

\* The download is declared complete only with every piece verified.
THEOREM SoundCompletion ==
  ASSUME Courteous
  PROVE  Spec => []CompletionSound
<1>1. SafetyInv => CompletionSound
  BY DEF SafetyInv, CountInv, CompletionSound
<1>. QED  BY <1>1, SafetyInvariant, PTL

\* Once every piece is verified the download is complete, or a session is about
\* to find out.
THEOREM LastPieceNoticed ==
  ASSUME Courteous
  PROVE  Spec => []CompletionNoticed
<1>1. SafetyInv => CompletionNoticed
  <2>1. Cardinality(Pieces) = PiecesNum
    BY PiecesNumPositive, FS_Interval DEF Pieces
  <2>. QED  BY <2>1 DEF SafetyInv, CountInv, NoticedInv, CompletionNoticed
<1>. QED  BY <1>1, SafetyInvariant, PTL

\* "Store completed!!!" is reached only with every piece in the file: whoever
\* verified a piece, counted it once, and the writer counted as many.
LEMMA StoredAll == TypeOK /\ SafetyInv => FileComplete
<1>. SUFFICES ASSUME TypeOK, SafetyInv, storePc = "done" PROVE file = Pieces
  BY DEF FileComplete
<1>1. /\ rcvPiecesNum \in Nat /\ storedPieces \in Nat /\ piecesQueue \in Seq(Pieces)
      /\ Len(piecesQueue) \in Nat
  BY DEF TypeOK, SharedType, StoreType
<1>2. /\ rcvPiecesNum = Cardinality(Verified) /\ storedPieces >= PiecesNum
      /\ rcvPiecesNum = Cardinality(Pending) + Len(piecesQueue) + storedPieces
  BY <1>1, PendingFinite
     DEF SafetyInv, CountInv, StoredInv, Conservation
<1>3. /\ Cardinality(Verified) <= PiecesNum
      /\ Cardinality(Verified) = PiecesNum => Verified = Pieces
  BY VerifiedBound
<1>4. rcvPiecesNum = PiecesNum /\ Cardinality(Pending) = 0 /\ Len(piecesQueue) = 0
  BY <1>1, <1>2, <1>3, PiecesNumPositive, PendingFinite
<1>5. Pending = {} /\ Range(piecesQueue) = {} /\ InHand = {}
  <2>1. Pending = {}
    BY <1>4, PendingFinite, FS_EmptySet
  <2>2. Range(piecesQueue) = {piecesQueue[k] : k \in 1 .. 0}
    BY <1>1, <1>4, RangeEquality
  <2>. QED  BY <2>1, <2>2 DEF InHand
<1>6. {pieceIndex[p] : p \in Pending} = {}
  BY <1>5
<1>7. Verified = file
  BY <1>5, <1>6 DEF Verified
<1>. QED  BY <1>2, <1>3, <1>4, <1>7

THEOREM CompleteFile ==
  ASSUME Courteous
  PROVE  Spec => []FileComplete
BY StoredAll, SafetyInvariant, TypeCorrect, PTL

LEMMA StoredAllNext == TypeOK' /\ SafetyInv' => FileComplete'
BY StoredAll, PTL

-----------------------------------------------------------------------------
(* PieceLedger.  A verified hash is its Verify, the writer's write its     *)
(* Store, the segment that sets DOWNLOADED its Complete and the end of     *)
(* storePieces its Close; every other step is a stutter.                   *)

LEMMA LedgerInit == Init => Ledger!Init
<1>. SUFFICES ASSUME Init PROVE Ledger!Init
  OBVIOUS
<1>1. Range(piecesQueue) = {} /\ Pending = {}
  BY DEF Init, Range, Pending
<1>. QED  BY <1>1 DEF Init, Ledger!Init, Verified, InHand

\* What every step but the four that move a piece keeps.
LEMMA LedgerStutter ==
  ASSUME TypeOK, [Next]_vars,
         \A p \in Peers : ~ PieceVerified(p) /\ ~ Finish(p),
         ~ StoreWrite, ~ StoreDone
  PROVE  UNCHANGED Ledger!ledgerVars
<1>1. Verified' = Verified
  BY VerifiedStep
<1>2. /\ file' = file
      /\ storePc' = "done" <=> storePc = "done"
      /\ status' = "DOWNLOADED" <=> status = "DOWNLOADED"
  <2>1. ASSUME NEW p \in Peers, Spawn(p) \/ Session(p)
        PROVE  UNCHANGED storeVars /\ (status' = "DOWNLOADED" <=> status = "DOWNLOADED")
    BY <2>1 DEF Session, Receive, Spawn, Handshake, Bitfield, SessionFails, Loop, Unchoke,
       Choke, Have, ReceiveFails, ReceiveOther, BlockIgnored, BlockStored, PieceRejected,
       Enqueue, CheckAll, SelectFound, SelectNone, Request, Release, Erase, Opened, shared
  <2>2. CASE StoreOpen \/ StoreFront \/ StoreIdle \/ StorePop \/ SearchEnd \/ AllReturned
               \/ UNCHANGED vars
    BY <2>2 DEF StoreOpen, StoreFront, StoreIdle, StorePop, SearchEnd, AllReturned, vars,
       shared, storeVars
  <2>. QED  BY <2>1, <2>2 DEF Next, Store, storeVars
<1>. QED  BY <1>1, <1>2 DEF Ledger!ledgerVars

LEMMA LedgerStep ==
  ASSUME TypeOK, TypeOK', SafetyInv, SafetyInv', [Next]_vars
  PROVE  [Ledger!Next]_(Ledger!ledgerVars)
<1>0. SelectionInv /\ TableInv /\ CountInv /\ AnswersOwned
  BY DEF SafetyInv, ClaimInv
<1>1. ASSUME NEW p \in Peers, PieceVerified(p)
      PROVE  \E i \in Pieces : Ledger!Verify(i)
  <2>1. rcvPiecesNum' # rcvPiecesNum
    BY <1>1 DEF PieceVerified, TypeOK, SharedType
  <2>2. PICK q \in Peers : PieceVerified(q) /\ Verified' = Verified \cup {pieceIndex[q]}
    BY <2>1, VerifiedStep
  <2>3. pieceIndex[q] \in Pieces /\ pieceIndex[q] \notin Verified
    BY <1>0, <2>2, AnsweringHolds DEF PieceVerified, AnswersCurrent
  <2>4. UNCHANGED <<file, status, storePc>>
    BY <2>2 DEF PieceVerified, storeVars
  <2>. QED  BY <2>2, <2>3, <2>4 DEF Ledger!Verify
<1>2. ASSUME NEW p \in Peers, Finish(p) PROVE Ledger!Complete
  <2>1. Verified' = Verified
    BY <1>2, VerifiedStep DEF Finish, TypeOK, SharedType
  <2>2. Verified' = Pieces /\ status' = "DOWNLOADED" /\ UNCHANGED <<file, storePc>>
    BY <1>2 DEF Finish, storeVars, SafetyInv, CountInv
  <2>. QED  BY <2>1, <2>2 DEF Ledger!Complete
<1>3. CASE StoreWrite
  <2>1. /\ hand \in Pieces /\ hand \in Verified /\ rcvPiecesNum' = rcvPiecesNum
        /\ file' = file \cup {hand} /\ UNCHANGED status
        /\ storePc' # "done" /\ storePc # "done"
    BY <1>3 DEF StoreWrite, shared, TypeOK, StoreType, Verified, InHand
  <2>2. Verified' = Verified
    BY <2>1, VerifiedStep DEF TypeOK, SharedType
  <2>3. CASE hand \in file
    BY <2>1, <2>2, <2>3 DEF Ledger!ledgerVars
  <2>4. CASE hand \notin file
    BY <2>1, <2>2, <2>4 DEF Ledger!Next, Ledger!Store
  <2>. QED  BY <2>3, <2>4
<1>4. CASE StoreDone
  <2>1. rcvPiecesNum' = rcvPiecesNum /\ UNCHANGED <<file, status>> /\ storePc' = "done"
    BY <1>4 DEF StoreDone, shared
  <2>2. Verified' = Verified
    BY <2>1, VerifiedStep DEF TypeOK, SharedType
  <2>3. file = Pieces
    BY <2>1, StoredAllNext DEF FileComplete
  <2>. QED  BY <2>1, <2>2, <2>3 DEF Ledger!Next, Ledger!Close
<1>. QED
  BY <1>1, <1>2, <1>3, <1>4, LedgerStutter DEF Ledger!Next

\* Every behaviour of the exchange with such peers is one of the ledger's.
THEOREM ImplementsLedger ==
  ASSUME Courteous
  PROVE  Spec => LedgerSpec
<1>1. Init => Ledger!Init
  BY LedgerInit
<1>2. TypeOK /\ TypeOK' /\ SafetyInv /\ SafetyInv' /\ [Next]_vars
        => [Ledger!Next]_(Ledger!ledgerVars)
  BY LedgerStep
<1>3. Spec => []TypeOK /\ []SafetyInv
  BY TypeCorrect, SafetyInvariant, PTL
<1>. QED  BY <1>1, <1>2, <1>3, PTL DEF Spec, LedgerSpec, Ledger!Spec

-----------------------------------------------------------------------------
(* Steps of the download.                                                  *)

\* The download's status never leaves DOWNLOADED, whatever the peers do.
THEOREM FinalStatus == Spec => StatusFinal
<1>1. [Next]_vars => [status = "DOWNLOADED" => status' = "DOWNLOADED"]_vars
  <2>. SUFFICES ASSUME Next, status = "DOWNLOADED" PROVE status' = "DOWNLOADED"
    OBVIOUS
  <2>. QED
    BY ZenonT(60) DEF Next, Session, Receive, Store, Spawn, Handshake, Bitfield, SessionFails, Loop,
       Unchoke, Choke, Have, ReceiveFails, ReceiveOther, BlockIgnored, BlockStored,
       PieceVerified, PieceRejected, Enqueue, CheckAll, Finish, SelectFound, SelectNone,
       Request, Release, Erase, SearchEnd, StoreOpen, StoreFront, StoreIdle, StorePop,
       StoreWrite, StoreDone, AllReturned, Opened, vars, shared
<1>. QED  BY <1>1, PTL DEF Spec, StatusFinal

\* With such peers, a verified piece stays DOWNLOADED until the download is.
THEOREM VerifiedForGood ==
  ASSUME Courteous
  PROVE  Spec => VerifiedStays
<1>1. TypeOK /\ SafetyInv /\ SafetyInv' /\ [Next]_vars
        => [\A i \in Pieces :
              piecesStatus[i] = "DOWNLOADED" /\ piecesStatus'[i] # "DOWNLOADED"
                => status = "DOWNLOADED"]_vars
  <2>. SUFFICES ASSUME TypeOK, SafetyInv, SafetyInv', [Next]_vars, status # "DOWNLOADED",
                       NEW i \in Pieces, piecesStatus[i] = "DOWNLOADED"
                PROVE  piecesStatus'[i] = "DOWNLOADED"
    OBVIOUS
  <2>1. i \in Verified'
    BY VerifiedStep DEF SafetyInv, TableInv
  <2>2. CASE status' # "DOWNLOADED"
    BY <2>1, <2>2 DEF SafetyInv, TableInv
  <2>3. CASE status' = "DOWNLOADED"
    <3>1. \E p \in Peers : Finish(p)
      BY <2>3, ZenonT(60) DEF Next, Session, Receive, Store, Spawn, Handshake, Bitfield, SessionFails, Loop,
         Unchoke, Choke, Have, ReceiveFails, ReceiveOther, BlockIgnored, BlockStored,
         PieceVerified, PieceRejected, Enqueue, CheckAll, SelectFound, SelectNone, Request,
         Release, Erase, SearchEnd, StoreOpen, StoreFront, StoreIdle, StorePop, StoreWrite,
         StoreDone, AllReturned, Opened, vars, shared
    <3>. QED  BY <3>1 DEF Finish
  <2>. QED  BY <2>2, <2>3
<1>2. Spec => []TypeOK /\ []SafetyInv
  BY TypeCorrect, SafetyInvariant, PTL
<1>. QED  BY <1>1, <1>2, PTL DEF Spec, VerifiedStays

\* A step of a session that was running leaves it running, or takes it off.
LEMMA DiscoveryStep ==
  ASSUME TypeOK, [Next]_vars
  PROVE  [Found!Next]_(Found!discoveryVars)
<1> DEFINE alive == {p \in Peers : pc[p] # "off"}
<1>0. pc \in [Peers -> PcStates]
  BY DEF TypeOK
<1>1. ASSUME NEW p \in Peers, Spawn(p) PROVE Found!Start(p)
  <2>1. /\ searching /\ p \notin alive /\ alive' = alive \cup {p}
        /\ UNCHANGED <<searching, status>>
    BY <1>0, <1>1 DEF Spawn, Goto, shared
  <2>. QED  BY <2>1 DEF Found!Start
<1>2. ASSUME NEW p \in Peers, Erase(p) PROVE Found!Leave(p)
  <2>1. /\ p \in alive /\ alive' = alive \ {p}
        /\ UNCHANGED <<searching, status>>
    BY <1>0, <1>2 DEF Erase, Goto, shared
  <2>. QED  BY <2>1 DEF Found!Leave
<1>3. ASSUME NEW p \in Peers, Finish(p) PROVE Found!Complete
  <2>1. /\ p \in alive /\ alive' = alive
        /\ status' = "DOWNLOADED" /\ UNCHANGED searching
    BY <1>0, <1>3 DEF Finish, Goto
  <2>. QED  BY <2>1 DEF Found!Complete
<1>4. CASE SearchEnd
  BY <1>4 DEF SearchEnd, SearchOver, shared, Found!Next, Found!End
<1>5. ASSUME NEW p \in Peers, Session(p), ~ Erase(p), ~ Finish(p)
      PROVE  UNCHANGED Found!discoveryVars
  <2>0. pc[p] # "off" /\ \E there \in PcStates \ {"off"} : Goto(p, there)
    <3>1. CASE Receive(p)
      BY <3>1 DEF Receive, Unchoke, Choke, Have, ReceiveFails, ReceiveOther, BlockIgnored,
         BlockStored, PieceVerified, PieceRejected, AnswersCurrent, Answers, PcStates
    <3>2. CASE Handshake(p) \/ Bitfield(p) \/ SessionFails(p) \/ Loop(p)
      BY <3>2 DEF Handshake, Bitfield, SessionFails, Loop, PcStates
    <3>3. CASE Enqueue(p) \/ CheckAll(p) \/ SelectFound(p) \/ SelectNone(p) \/ Request(p)
               \/ Release(p)
      BY <3>3 DEF Enqueue, CheckAll, SelectFound, SelectNone, Request, Release, PcStates
    <3>. QED  BY <1>5, <3>1, <3>2, <3>3 DEF Session
  <2>1. pc'[p] # "off" /\ \A q \in Peers \ {p} : pc'[q] = pc[q]
    BY <1>0, <2>0 DEF Goto
  <2>2. alive' = alive
    BY <2>0, <2>1
  <2>3. /\ searching' = searching
        /\ status' = "DOWNLOADED" <=> status = "DOWNLOADED"
    BY <1>5
       DEF Session, Receive, Handshake, Bitfield, SessionFails, Loop, Unchoke, Choke, Have,
       ReceiveFails, ReceiveOther, BlockIgnored, BlockStored, PieceVerified, PieceRejected,
       Enqueue, CheckAll, SelectFound, SelectNone, Request, Release, Opened, shared
  <2>. QED  BY <2>2, <2>3 DEF Found!discoveryVars
<1>6. CASE Store \/ AllReturned \/ UNCHANGED vars
  <2>1. UNCHANGED <<pc, searching, status>>
    BY <1>6 DEF Store, StoreOpen, StoreFront, StoreIdle, StorePop, StoreWrite, StoreDone,
       AllReturned, vars, shared
  <2>. QED  BY <2>1 DEF Found!discoveryVars
<1>. QED  BY <1>1, <1>2, <1>3, <1>4, <1>5, <1>6 DEF Next, Found!Next

\* The exchange keeps the promises of Discovery, whatever the peers do.
THEOREM ImplementsDiscovery == Spec => DiscoverySpec
<1>1. Init => Found!Init
  BY DEF Init, Found!Init
<1>2. TypeOK /\ [Next]_vars => [Found!Next]_(Found!discoveryVars)
  BY DiscoveryStep
<1>. QED  BY <1>1, <1>2, TypeCorrect, PTL DEF Spec, DiscoverySpec, Found!Spec

=============================================================================
