-------------------------- MODULE PieceQueueProofs --------------------------
(***************************************************************************)
(* Proofs about the queue and its strand, for any pieces, levels and disk. *)
(***************************************************************************)
EXTENDS PieceQueue, FiniteSetTheorems, TLAPS

AtFront == storePc \in {"verify", "pop", "popping"}
InHand == AtFront \/ storePc = "write"

\* One push at a time, and the strand is its own.
StrandInv ==
  /\ Pushing => strand = "session"
  /\ \A i, j \in Pieces : session[i] = "pushing" /\ session[j] = "pushing" => i = j

\* When the writer's log call prints nothing, the writer stays where it was; it
\* leaves the strand for an element that was destroyed, of which there is none.
WriterInv == level > DEBUG /\ AtFront => strand = Writer

DamageInv ==
  /\ raced \/ damaged => level <= DEBUG
  /\ hand = Destroyed => damaged
  /\ \A j \in 1 .. Len(piecesQueue) : piecesQueue[j] = Destroyed => damaged

\* The queue holds what was pushed and not taken, and the front the writer took.
QueueInv ==
  ~ damaged =>
    /\ Len(pushed) = Len(taken) + Len(piecesQueue) - (IF AtFront THEN 1 ELSE 0)
    /\ \A j \in 1 .. Len(piecesQueue) :
         piecesQueue[j] = pushed[Len(pushed) - Len(piecesQueue) + j]
    /\ InHand => taken # <<>> /\ hand = taken[Len(taken)]

\* What the writer works on is there and still to be counted.
HandInv ==
  /\ AtFront => piecesQueue # <<>>
  /\ InHand => hand \in Elements /\ storedPieces < Cardinality(Pieces)

SharedInv == TypeOK /\ HandInv /\ StrandInv /\ WriterInv /\ DamageInv /\ QueueInv

LEMMA QueueInit == Init => SharedInv
<1>. SUFFICES ASSUME Init PROVE SharedInv
  OBVIOUS
<1>1. 0 \in 0 .. Cardinality(Pieces)
  BY PiecesAssumption, FS_CardinalityType
<1>2. session \in [Pieces -> {"verified", "pushing", "pushed"}]
  BY DEF Init
<1>3. TypeOK
  <2>1. piecesQueue \in Seq(Elements) /\ pushed \in Seq(Pieces) /\ taken \in Seq(Elements)
    BY DEF Init
  <2>. QED  BY <1>1, <1>2, <2>1, Zenon DEF Init, TypeOK, Nobody
<1>4. HandInv /\ StrandInv /\ WriterInv
  BY DEF Init, HandInv, StrandInv, WriterInv, Pushing, AtFront, InHand
<1>5. DamageInv /\ QueueInv
  BY PiecesAssumption DEF Init, DamageInv, QueueInv, AtFront, InHand
<1>. QED  BY <1>3, <1>4, <1>5 DEF SharedInv

LEMMA TypeStep ==
  ASSUME TypeOK, HandInv, [Next]_vars
  PROVE  TypeOK'
<1>. USE DEF TypeOK, Elements, Nobody, Writer
<1>1. Cardinality(Pieces) \in Nat
  BY PiecesAssumption, FS_CardinalityType
<1>2. ASSUME NEW i \in Pieces, PushBegins(i) PROVE TypeOK'
  BY <1>2 DEF PushBegins, writer, disk
<1>3. ASSUME NEW i \in Pieces, PushEnds(i) PROVE TypeOK'
  BY <1>3 DEF PushEnds, writer, disk
<1>4. CASE TakeFront
  BY <1>4 DEF TakeFront, AfterLog, disk
<1>5. CASE Idle
  BY <1>5 DEF Idle, AfterIdle, writer, disk
<1>6. CASE Verify
  BY <1>6 DEF Verify, AfterLog, disk
<1>7. CASE PopBegins
  <2>1. Pushing \in BOOLEAN
    BY DEF Pushing
  <2>. QED  BY <1>7, <2>1 DEF PopBegins, disk
<1>8. CASE PopEnds
  <2>1. piecesQueue \in Seq(Elements) /\ piecesQueue # <<>>
    BY <1>8 DEF PopEnds, HandInv, AtFront
  <2>2. Tail(piecesQueue) \in Seq(Elements)
    BY <2>1
  <2>3. ASSUME NEW n \in 1 .. Len(piecesQueue)
        PROVE  Remaining(n) \in Seq(Elements) /\ <<Destroyed>> \o Remaining(n) \in Seq(Elements)
    <3>1. Remaining(n) \in Seq(Elements)
      BY <2>1 DEF Remaining
    <3>. QED  BY <3>1
  <2>. QED  BY <1>8, <2>2, <2>3 DEF PopEnds, Popped, disk
<1>9. CASE Write
  <2>1. storedPieces + 1 \in 0 .. Cardinality(Pieces)
    BY <1>1, <1>9 DEF Write, HandInv, InHand
  <2>2. file' \in SUBSET Pieces
    BY <1>9 DEF Write, HandInv, InHand
  <2>. QED  BY <1>9, <2>1, <2>2 DEF Write, AfterLog
<1>10. CASE StoreEnds
  BY <1>10 DEF StoreEnds, disk
<1>11. CASE Ended \/ UNCHANGED vars
  BY <1>11 DEF Ended, vars, writer, disk
<1>. QED
  BY <1>2, <1>3, <1>4, <1>5, <1>6, <1>7, <1>8, <1>9, <1>10, <1>11 DEF Next, Push, Store

LEMMA HandStep ==
  ASSUME TypeOK, HandInv, [Next]_vars
  PROVE  HandInv'
<1>. USE DEF HandInv, AtFront, InHand
<1>1. ASSUME NEW i \in Pieces, PushBegins(i) \/ PushEnds(i) PROVE HandInv'
  BY <1>1 DEF PushBegins, PushEnds, writer, TypeOK
<1>2. CASE TakeFront
  BY <1>2 DEF TakeFront, MorePieces, TypeOK
<1>3. CASE Idle \/ Verify \/ PopBegins \/ StoreEnds \/ Ended \/ UNCHANGED vars
  BY <1>3 DEF Idle, Verify, PopBegins, StoreEnds, Ended, vars, writer
<1>4. CASE PopEnds
  BY <1>4 DEF PopEnds
<1>5. CASE Write
  BY <1>5 DEF Write
<1>. QED  BY <1>1, <1>2, <1>3, <1>4, <1>5 DEF Next, Push, Store

LEMMA StrandStep ==
  ASSUME TypeOK, StrandInv, WriterInv, DamageInv, [Next]_vars
  PROVE  StrandInv' /\ WriterInv'
<1>. USE DEF StrandInv, WriterInv, Pushing, AtFront, Nobody, Writer
<1>1. ASSUME NEW i \in Pieces, PushBegins(i) PROVE StrandInv' /\ WriterInv'
  BY <1>1 DEF PushBegins, StrandFree, writer, TypeOK
<1>2. ASSUME NEW i \in Pieces, PushEnds(i) PROVE StrandInv' /\ WriterInv'
  <2>1. \A j \in Pieces : session'[j] # "pushing"
    BY <1>2 DEF PushEnds, TypeOK
  <2>2. strand = "session"
    BY <1>2 DEF PushEnds
  <2>. QED  BY <1>2, <2>1, <2>2 DEF PushEnds, writer
<1>3. CASE TakeFront \/ Idle \/ Write
  <2>1. strand # "session" /\ session' = session /\ level' = level
    BY <1>3 DEF TakeFront, Idle, Write, OnStrand
  <2>2. storePc' \in {"verify", "pop", "popping"} => TakeFront
    BY <1>3 DEF Idle, Write, writer
  <2>3. TakeFront /\ level > DEBUG => strand' = Writer
    BY LevelsAssumption DEF TakeFront, AfterLog, Logs, DEBUG, TypeOK, ALL, OFF
  <2>. QED  BY <2>1, <2>2, <2>3
<1>4. CASE Verify
  <2>1. level > DEBUG => hand # Destroyed
    BY <1>4, LevelsAssumption DEF DamageInv, DEBUG, TypeOK, ALL, OFF
  <2>. QED  BY <1>4, <2>1 DEF Verify, AfterLog
<1>5. CASE PopBegins \/ PopEnds
  BY <1>5 DEF PopBegins, PopEnds
<1>6. CASE StoreEnds \/ Ended \/ UNCHANGED vars
  BY <1>6 DEF StoreEnds, Ended, vars, writer
<1>. QED  BY <1>1, <1>2, <1>3, <1>4, <1>5, <1>6 DEF Next, Push, Store

LEMMA DamageStep ==
  ASSUME TypeOK, HandInv, StrandInv, WriterInv, DamageInv, [Next]_vars
  PROVE  DamageInv'
<1>. USE DEF DamageInv
<1>0. level \in Int /\ DEBUG \in Int
  BY LevelsAssumption DEF TypeOK, DEBUG, ALL, OFF
<1>1. ASSUME NEW i \in Pieces, PushBegins(i) PROVE DamageInv'
  <2>1. storePc = "popping" => level <= DEBUG
    BY <1>0, <1>1 DEF PushBegins, StrandFree, WriterInv, AtFront, Nobody, Writer
  <2>. QED  BY <1>1, <2>1 DEF PushBegins, writer
<1>2. ASSUME NEW i \in Pieces, PushEnds(i) PROVE DamageInv'
  BY <1>2, PiecesAssumption DEF PushEnds, writer, TypeOK
<1>3. CASE TakeFront
  <2>1. hand' = piecesQueue[1] /\ 1 \in 1 .. Len(piecesQueue)
    BY <1>3 DEF TakeFront, TypeOK
  <2>. QED  BY <1>3, <2>1 DEF TakeFront
<1>4. CASE PopBegins
  <2>1. Pushing => level <= DEBUG
    BY <1>0, <1>4 DEF PopBegins, StrandInv, WriterInv, AtFront, Writer
  <2>. QED  BY <1>4, <2>1 DEF PopBegins
<1>5. CASE PopEnds
  <2>1. CASE damaged'
    BY <1>5, <2>1 DEF PopEnds
  <2>2. CASE ~ damaged'
    <3>1. ~ damaged /\ piecesQueue' = Tail(piecesQueue) /\ piecesQueue # <<>>
      BY <1>5, <2>2 DEF PopEnds, Popped, HandInv, AtFront, TypeOK
    <3>2. \A j \in 1 .. Len(piecesQueue') : piecesQueue'[j] = piecesQueue[j + 1]
      BY <3>1 DEF TypeOK
    <3>3. \A j \in 1 .. Len(piecesQueue') : piecesQueue'[j] # Destroyed
      BY <3>1, <3>2 DEF TypeOK
    <3>. QED  BY <1>5, <3>1, <3>3 DEF PopEnds
  <2>. QED  BY <2>1, <2>2
<1>6. CASE Write
  BY <1>6, PiecesAssumption DEF Write
<1>7. CASE Idle \/ Verify \/ StoreEnds \/ Ended \/ UNCHANGED vars
  BY <1>7 DEF Idle, Verify, StoreEnds, Ended, vars, writer
<1>. QED  BY <1>1, <1>2, <1>3, <1>4, <1>5, <1>6, <1>7 DEF Next, Push, Store

LEMMA Appended ==
  ASSUME NEW S, NEW s \in Seq(S), NEW e \in S
  PROVE  /\ Len(Append(s, e)) = Len(s) + 1
         /\ Append(s, e)[Len(s) + 1] = e
         /\ Append(s, e) # <<>>
         /\ \A j \in 1 .. Len(s) : Append(s, e)[j] = s[j]
OBVIOUS

LEMMA QueueStep ==
  ASSUME TypeOK, HandInv, QueueInv, [Next]_vars
  PROVE  QueueInv'
<1>. USE DEF QueueInv, TypeOK, AtFront, InHand
<1>1. ASSUME NEW i \in Pieces, PushBegins(i) PROVE QueueInv'
  BY <1>1 DEF PushBegins, writer
<1>2. ASSUME NEW i \in Pieces, PushEnds(i) PROVE QueueInv'
  <2>. SUFFICES ASSUME ~ damaged PROVE QueueInv'
    BY <1>2 DEF PushEnds
  <2>1. /\ Len(pushed') = Len(pushed) + 1 /\ Len(piecesQueue') = Len(piecesQueue) + 1
        /\ UNCHANGED <<taken, storePc, hand, damaged>>
    BY <1>2 DEF PushEnds, writer
  <2>2. ASSUME NEW j \in 1 .. Len(piecesQueue')
        PROVE  piecesQueue'[j] = pushed'[Len(pushed') - Len(piecesQueue') + j]
    <3>1. CASE j = Len(piecesQueue) + 1
      BY <1>2, <2>1, <3>1 DEF PushEnds
    <3>2. CASE j \in 1 .. Len(piecesQueue)
      <4>1. Len(pushed) - Len(piecesQueue) + j \in 1 .. Len(pushed)
        <5>1. Len(pushed) >= Len(piecesQueue)
          <6>1. AtFront => Len(taken) \in Nat \ {0}
            OBVIOUS
          <6>. QED  BY <6>1
        <5>. QED  BY <3>2, <5>1
      <4>. QED  BY <1>2, <2>1, <3>2, <4>1 DEF PushEnds
    <3>. QED  BY <2>1, <3>1, <3>2
  <2>3. Len(pushed') = Len(taken') + Len(piecesQueue') - (IF AtFront' THEN 1 ELSE 0)
    <3>1. Len(pushed) \in Nat /\ Len(piecesQueue) \in Nat /\ Len(taken) \in Nat
      OBVIOUS
    <3>2. Len(pushed) = Len(taken) + Len(piecesQueue) - (IF AtFront THEN 1 ELSE 0)
      BY DEF QueueInv
    <3>3. AtFront' = AtFront /\ Len(taken') = Len(taken)
      BY <2>1
    <3>. QED  BY <2>1, <3>1, <3>2, <3>3
  <2>4. InHand' => taken' # <<>> /\ hand' = taken'[Len(taken')]
    BY <2>1
  <2>. QED  BY <2>2, <2>3, <2>4, Zenon DEF QueueInv
<1>3. CASE TakeFront
  <2>1. /\ piecesQueue' = piecesQueue /\ pushed' = pushed /\ damaged' = damaged
        /\ storePc = "poll" /\ storePc' = "verify" /\ hand' \in Elements
    BY <1>3 DEF TakeFront
  <2>. SUFFICES ASSUME ~ damaged PROVE QueueInv'
    BY <2>1
  <2>2. taken' = Append(taken, hand')
    BY <1>3 DEF TakeFront
  <2>3. Len(taken') = Len(taken) + 1 /\ taken'[Len(taken')] = hand' /\ taken' # <<>>
    <3>1. taken \in Seq(Elements)
      OBVIOUS
    <3>. QED  BY <2>1, <2>2, <3>1, Appended
  <2>4. Len(pushed') = Len(taken') + Len(piecesQueue') - (IF AtFront' THEN 1 ELSE 0)
    <3>1. Len(pushed) \in Nat /\ Len(piecesQueue) \in Nat /\ Len(taken) \in Nat
      OBVIOUS
    <3>2. Len(pushed) = Len(taken) + Len(piecesQueue)
      BY <2>1
    <3>3. Len(pushed') = Len(pushed) /\ Len(piecesQueue') = Len(piecesQueue) /\ AtFront'
      BY <2>1
    <3>. QED  BY <2>3, <3>1, <3>2, <3>3
  <2>5. \A j \in 1 .. Len(piecesQueue') :
          piecesQueue'[j] = pushed'[Len(pushed') - Len(piecesQueue') + j]
    BY <2>1
  <2>. QED  BY <2>3, <2>4, <2>5, Zenon DEF QueueInv
<1>4. CASE PopEnds
  <2>. SUFFICES ASSUME ~ damaged' PROVE QueueInv'
    OBVIOUS
  <2>1. ~ damaged /\ piecesQueue' = Tail(piecesQueue) /\ piecesQueue # <<>>
    BY <1>4 DEF PopEnds, Popped, HandInv
  <2>2. /\ Len(piecesQueue') = Len(piecesQueue) - 1
        /\ \A j \in 1 .. Len(piecesQueue') : piecesQueue'[j] = piecesQueue[j + 1]
    BY <2>1
  <2>3. storePc = "popping" /\ storePc' \notin {"verify", "pop", "popping"}
        /\ UNCHANGED <<pushed, taken, hand>>
    BY <1>4 DEF PopEnds
  <2>. QED  BY <2>1, <2>2, <2>3
<1>5. CASE Idle \/ Verify \/ PopBegins \/ StoreEnds \/ Write \/ Ended \/ UNCHANGED vars
  BY <1>5 DEF Idle, Verify, PopBegins, StoreEnds, Write, Ended, vars, writer
<1>. QED  BY <1>1, <1>2, <1>3, <1>4, <1>5 DEF Next, Push, Store

THEOREM QueueInvariant == Spec => []SharedInv
<1>1. SharedInv /\ [Next]_vars => SharedInv'
  BY TypeStep, HandStep, StrandStep, DamageStep, QueueStep DEF SharedInv
<1>. QED  BY QueueInit, <1>1, PTL DEF Spec

\* The types, and that the writer never counts more pieces than there are.
THEOREM TypeCorrect == Spec => []TypeOK
<1>1. SharedInv => TypeOK
  BY DEF SharedInv
<1>. QED  BY <1>1, QueueInvariant, PTL

\* With a logger that does not print at DEBUG, push and pop exclude each other.
THEOREM PopIsAlone == Spec => []PopAlone
<1>1. SharedInv => PopAlone
  <2>. SUFFICES ASSUME SharedInv, Pushing, storePc = "popping", level > DEBUG PROVE FALSE
    BY LevelsAssumption DEF PopAlone, SharedInv, TypeOK, DEBUG, ALL, OFF
  <2>. QED  BY DEF SharedInv, StrandInv, WriterInv, AtFront, Writer
<1>. QED  BY <1>1, QueueInvariant, PTL

-----------------------------------------------------------------------------
(* The queue implements Channel.                                           *)

LEMMA FifoStep ==
  ASSUME SharedInv, [Next]_vars
  PROVE  [Fifo!Next]_(Fifo!channelVars)
<1>. USE DEF SharedInv, TypeOK
<1>1. ASSUME NEW i \in Pieces, PushEnds(i) PROVE Fifo!Send(i)
  BY <1>1 DEF PushEnds, Fifo!Send
<1>2. ASSUME TakeFront, ~ damaged PROVE Fifo!Deliver
  <2>1. piecesQueue # <<>> /\ hand' = piecesQueue[1] /\ taken' = Append(taken, hand')
        /\ pushed' = pushed
    BY <1>2 DEF TakeFront
  <2>2. Len(pushed) = Len(taken) + Len(piecesQueue)
    BY <1>2 DEF TakeFront, QueueInv, AtFront
  <2>3. \A j \in 1 .. Len(piecesQueue) :
          piecesQueue[j] = pushed[Len(pushed) - Len(piecesQueue) + j]
    BY <1>2 DEF QueueInv
  <2>4. Len(taken) \in Nat /\ Len(piecesQueue) \in Nat \ {0}
    BY <2>1
  <2>5. piecesQueue[1] = pushed[Len(taken) + 1]
    BY <2>2, <2>3, <2>4
  <2>. QED  BY <2>1, <2>2, <2>4, <2>5 DEF Fifo!Deliver
<1>3. ASSUME TakeFront, damaged PROVE UNCHANGED <<pushed, taken>>
  BY <1>3 DEF TakeFront
<1>4. ASSUME NEW i \in Pieces, PushBegins(i) PROVE UNCHANGED <<pushed, taken>>
  BY <1>4 DEF PushBegins
<1>5. CASE Idle \/ Verify \/ PopBegins \/ PopEnds \/ Write \/ StoreEnds \/ Ended \/ UNCHANGED vars
  BY <1>5 DEF Idle, Verify, PopBegins, PopEnds, Write, StoreEnds, Ended, vars, Fifo!channelVars
<1>. QED
  BY <1>1, <1>2, <1>3, <1>4, <1>5 DEF Next, Push, Store, Fifo!Next, Fifo!channelVars

\* Until an overlap disturbs it, the queue hands over the pieces as they came.
THEOREM ImplementsFifo == Spec => FifoSpec
<1>1. Init => Fifo!Init
  BY DEF Init, Fifo!Init
<1>2. SharedInv /\ [Next]_vars => [Fifo!Next]_(Fifo!channelVars)
  BY FifoStep
<1>. QED  BY <1>1, <1>2, QueueInvariant, PTL DEF Spec, FifoSpec, Fifo!Spec

-----------------------------------------------------------------------------
(* What reaches the file.                                                  *)

\* A piece is pushed once.
OnceInv ==
  /\ \A j \in 1 .. Len(pushed) : session[pushed[j]] = "pushed"
  /\ \A j, k \in 1 .. Len(pushed) : pushed[j] = pushed[k] => j = k

TakenInv ==
  ~ damaged =>
    /\ Len(taken) <= Len(pushed)
    /\ \A j \in 1 .. Len(taken) : taken[j] = pushed[j]

\* As long as nothing went wrong, the file has what was taken, but for the piece
\* in hand, and the counter its number.
FileInv ==
  ~ damaged /\ diskOK =>
    /\ storedPieces = Cardinality(file)
    /\ \A i \in file : \E j \in 1 .. Len(taken) : i = taken[j] /\ (InHand => j # Len(taken))

DoneInv == storePc = "done" => storedPieces = Cardinality(Pieces)

LossInv == SharedInv /\ OnceInv /\ TakenInv /\ FileInv /\ DoneInv

LEMMA LossInit == Init => OnceInv /\ TakenInv /\ FileInv /\ DoneInv
  BY FS_EmptySet DEF Init, OnceInv, TakenInv, FileInv, DoneInv

LEMMA OnceStep ==
  ASSUME TypeOK, OnceInv, [Next]_vars
  PROVE  OnceInv'
<1>. USE DEF OnceInv, TypeOK
<1>1. ASSUME NEW i \in Pieces, PushBegins(i) PROVE OnceInv'
  <2>1. \A j \in 1 .. Len(pushed) : pushed[j] \in Pieces /\ pushed[j] # i
    BY <1>1 DEF PushBegins
  <2>. QED  BY <1>1, <2>1 DEF PushBegins
<1>2. ASSUME NEW i \in Pieces, PushEnds(i) PROVE OnceInv'
  <2>1. \A j \in 1 .. Len(pushed) : pushed[j] \in Pieces /\ pushed[j] # i
    BY <1>2 DEF PushEnds
  <2>2. /\ Len(pushed') = Len(pushed) + 1 /\ pushed'[Len(pushed) + 1] = i
        /\ \A j \in 1 .. Len(pushed) : pushed'[j] = pushed[j]
    BY <1>2, Appended DEF PushEnds
  <2>3. session'[i] = "pushed" /\ \A k \in Pieces \ {i} : session'[k] = session[k]
    BY <1>2 DEF PushEnds
  <2>4. \A j \in 1 .. Len(pushed') : j \in 1 .. Len(pushed) \/ j = Len(pushed) + 1
    BY <2>2
  <2>5. \A j \in 1 .. Len(pushed') : session'[pushed'[j]] = "pushed"
    BY <2>1, <2>2, <2>3, <2>4
  <2>6. \A j, k \in 1 .. Len(pushed') : pushed'[j] = pushed'[k] => j = k
    BY <2>1, <2>2, <2>4
  <2>. QED  BY <2>5, <2>6
<1>3. CASE Store \/ Ended \/ UNCHANGED vars
  <2>1. UNCHANGED <<pushed, session>>
    BY <1>3 DEF Store, TakeFront, Idle, Verify, PopBegins, PopEnds, Write, StoreEnds, Ended, vars
  <2>. QED  BY <2>1
<1>. QED  BY <1>1, <1>2, <1>3 DEF Next, Push

LEMMA TakenStep ==
  ASSUME SharedInv, TakenInv, [Next]_vars
  PROVE  TakenInv'
<1>. USE DEF TakenInv, SharedInv, TypeOK
<1>0. damaged => damaged'
  BY DEF Next, Push, Store, PushBegins, PushEnds, TakeFront, Idle, Verify, PopBegins, PopEnds,
     Write, StoreEnds, Ended, vars
<1>. SUFFICES ASSUME ~ damaged PROVE TakenInv'
  BY <1>0
<1>1. ASSUME NEW i \in Pieces, Fifo!Send(i) PROVE TakenInv'
  <2>1. /\ Len(pushed') = Len(pushed) + 1
        /\ \A j \in 1 .. Len(pushed) : pushed'[j] = pushed[j]
    BY <1>1, Appended DEF Fifo!Send
  <2>. QED  BY <1>1, <2>1 DEF Fifo!Send
<1>2. CASE Fifo!Deliver
  <2>1. pushed[Len(taken) + 1] \in Elements
    BY <1>2 DEF Fifo!Deliver, Elements
  <2>2. /\ Len(taken') = Len(taken) + 1 /\ taken'[Len(taken) + 1] = pushed[Len(taken) + 1]
        /\ \A j \in 1 .. Len(taken) : taken'[j] = taken[j]
    BY <1>2, <2>1, Appended DEF Fifo!Deliver
  <2>3. \A j \in 1 .. Len(taken') : j \in 1 .. Len(taken) \/ j = Len(taken) + 1
    BY <2>2
  <2>. QED  BY <1>2, <2>2, <2>3 DEF Fifo!Deliver
<1>3. CASE UNCHANGED <<pushed, taken>>
  BY <1>3
<1>. QED  BY <1>1, <1>2, <1>3, FifoStep DEF Fifo!Next, Fifo!channelVars

LEMMA FileStep ==
  ASSUME LossInv, [Next]_vars
  PROVE  FileInv'
<1>. USE DEF FileInv, LossInv, SharedInv, TypeOK
<1>0. (damaged => damaged') /\ (~ diskOK => ~ diskOK')
  BY DEF Next, Push, Store, PushBegins, PushEnds, TakeFront, Idle, Verify, PopBegins, PopEnds,
     Write, StoreEnds, Ended, vars, disk
<1>. SUFFICES ASSUME ~ damaged, ~ damaged', diskOK, diskOK' PROVE FileInv'
  BY <1>0
<1>1. CASE TakeFront
  <2>1. hand' \in Elements /\ taken' = Append(taken, hand') /\ UNCHANGED <<file, storedPieces>>
    BY <1>1 DEF TakeFront, disk
  <2>2. /\ Len(taken') = Len(taken) + 1
        /\ \A j \in 1 .. Len(taken) : taken'[j] = taken[j]
    BY <2>1, Appended
  <2>3. \A j \in 1 .. Len(taken) : j \in 1 .. Len(taken') /\ j # Len(taken')
    BY <2>2
  <2>. QED  BY <2>1, <2>2, <2>3
<1>2. CASE Write
  <2>1. /\ storePc = "write" /\ ~ InHand'
        /\ hand # Destroyed /\ hand \in Pieces
        /\ taken' = taken
    BY <1>2 DEF Write, DamageInv, HandInv, InHand, AtFront, Elements
  <2>2. file' = file \cup {hand} /\ storedPieces' = storedPieces + 1
    BY <1>2, <2>1 DEF Write
  <2>3. Len(taken) \in 1 .. Len(taken) /\ hand = taken[Len(taken)]
    BY <2>1 DEF QueueInv, InHand
  <2>4. hand \notin file
    <3>. SUFFICES ASSUME hand \in file PROVE FALSE
      OBVIOUS
    <3>1. PICK j \in 1 .. Len(taken) : hand = taken[j] /\ j # Len(taken)
      BY <2>1 DEF InHand
    <3>2. Len(taken) <= Len(pushed) /\ \A k \in 1 .. Len(taken) : taken[k] = pushed[k]
      BY DEF TakenInv
    <3>3. pushed[j] = pushed[Len(taken)]
      BY <2>3, <3>1, <3>2
    <3>4. j \in 1 .. Len(pushed) /\ Len(taken) \in 1 .. Len(pushed)
      BY <2>3, <3>1, <3>2
    <3>. QED  BY <3>1, <3>3, <3>4 DEF OnceInv
  <2>5. Cardinality(file') = Cardinality(file) + 1
    BY <2>2, <2>4, PiecesAssumption, FS_Subset, FS_AddElement
  <2>. QED  BY <2>1, <2>2, <2>3, <2>5
<1>3. ASSUME NEW i \in Pieces, PushBegins(i) \/ PushEnds(i) PROVE FileInv'
  <2>1. UNCHANGED <<file, storedPieces, taken, storePc>>
    BY <1>3 DEF PushBegins, PushEnds, writer, disk
  <2>. QED  BY <2>1 DEF InHand, AtFront
<1>4. CASE Idle \/ Verify \/ PopBegins \/ PopEnds \/ StoreEnds \/ Ended \/ UNCHANGED vars
  <2>1. UNCHANGED <<file, storedPieces, taken>> /\ (InHand' => InHand)
    BY <1>4 DEF Idle, Verify, PopBegins, PopEnds, StoreEnds, Ended, vars, writer, disk, InHand,
       AtFront
  <2>. QED  BY <2>1
<1>. QED  BY <1>1, <1>2, <1>3, <1>4 DEF Next, Push, Store

LEMMA DoneStep ==
  ASSUME TypeOK, DoneInv, [Next]_vars
  PROVE  DoneInv'
<1>1. Cardinality(Pieces) \in Nat
  BY PiecesAssumption, FS_CardinalityType
<1>2. CASE StoreEnds
  BY <1>1, <1>2 DEF StoreEnds, MorePieces, DoneInv, TypeOK
<1>3. CASE ~ StoreEnds
  BY <1>3 DEF Next, Push, Store, PushBegins, PushEnds, TakeFront, Idle, Verify, PopBegins,
     PopEnds, Write, Ended, vars, writer, DoneInv
<1>. QED  BY <1>2, <1>3

\* A piece is missing from a finished file for one of the two causes only.
THEOREM OnlyCauses == Spec => []LossHasCause
<1>1. Init => LossInv
  BY QueueInit, LossInit DEF LossInv
<1>2. LossInv /\ [Next]_vars => LossInv'
  BY TypeStep, HandStep, StrandStep, DamageStep, QueueStep, OnceStep, TakenStep, FileStep,
     DoneStep DEF LossInv, SharedInv
<1>3. LossInv => LossHasCause
  <2>. SUFFICES ASSUME LossInv, storePc = "done", diskOK, ~ (damaged /\ level <= DEBUG)
                PROVE  file = Pieces
    BY DEF LossHasCause
  <2>1. ~ damaged
    BY DEF LossInv, SharedInv, DamageInv
  <2>2. Cardinality(file) = Cardinality(Pieces)
    BY <2>1 DEF LossInv, FileInv, DoneInv
  <2>. QED  BY <2>2, PiecesAssumption, FS_Subset DEF LossInv, SharedInv, TypeOK
<1>. QED  BY <1>1, <1>2, <1>3, PTL DEF Spec

=============================================================================
