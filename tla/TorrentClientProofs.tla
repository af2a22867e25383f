------------------------ MODULE TorrentClientProofs ------------------------
(***************************************************************************)
(* Proofs about the life of the process, for every number of pieces, any   *)
(* sessions and however often they count a piece.                          *)
(***************************************************************************)
EXTENDS TorrentClient, TLAPS

\* No session runs.
Idle == \A s \in Sessions : session[s] = "off"

\* The guard is engaged until downloadCo has ended.
GuardInv == main = "spawn" \/ downloadCo \in {"parse", "search"} => guard

\* Who was started when.
OrderInv ==
  /\ main \in {"construct", "spawn"} <=> downloadCo = "none"
  /\ main \in {"print", "join", "exit"} => downloadCo = "ended"
  /\ pool = "off" <=> main = "construct"
  /\ downloadCo \in {"none", "parse"} => storePieces = "none" /\ Idle

\* What is left when a thread is done.
EndInv ==
  /\ pool = "returned" => ~ Work
  /\ main = "exit" => pool = "returned"
  /\ storePieces = "done" => stored = PiecesNum

LifeInv == TypeOK /\ GuardInv /\ OrderInv /\ EndInv

LEMMA LifeInit == Init => LifeInv
<1>1. Init => TypeOK
  <2>. SUFFICES ASSUME Init PROVE TypeOK
    OBVIOUS
  <2>1. 0 \in 0 .. MaxReceived /\ 0 \in 0 .. PiecesNum /\ 0 \in Nat
    BY PiecesAssumption, ReceivedAssumption
  <2>2. session \in [Sessions -> {"off", "loop", "enqueue", "check", "finish", "end"}]
    BY DEF Init
  <2>. QED  BY <2>1, <2>2, Zenon DEF Init, TypeOK
<1>2. Init => GuardInv /\ OrderInv /\ EndInv
  BY DEF Init, GuardInv, OrderInv, EndInv, Work, Idle
<1>. QED  BY <1>1, <1>2 DEF LifeInv

LEMMA LifeStep == LifeInv /\ [Next]_vars => LifeInv'
<1>. SUFFICES ASSUME LifeInv, [Next]_vars PROVE LifeInv'
  OBVIOUS
<1>. USE PiecesAssumption, ReceivedAssumption
         DEF LifeInv, TypeOK, GuardInv, OrderInv, EndInv, Work, Idle, process, pieces
<1>1. CASE Construct
  BY <1>1 DEF Construct, MadeGuard
<1>2. CASE Download
  BY <1>2 DEF Download
<1>3. CASE DownloadReturns
  BY <1>3 DEF DownloadReturns, AfterReset
<1>4. CASE PrintCompleted
  BY <1>4 DEF PrintCompleted
<1>5. CASE Destruct
  BY <1>5 DEF Destruct, WorkerDone
<1>6. CASE Worker
  BY <1>6 DEF Worker, Execute, RunReturns
<1>7. CASE Search
  BY <1>7 DEF Search, ParseFails, Parse, SearchEnds
<1>8. CASE Store
  BY <1>8 DEF Store, OpenFails, Open, StorePiece, QueueHasPiece, StoreEnds
<1>9. ASSUME NEW s \in Sessions, StartSession(s) PROVE LifeInv'
  BY <1>9 DEF StartSession
<1>10. ASSUME NEW s \in Sessions, CountPiece(s) PROVE LifeInv'
  BY <1>10 DEF CountPiece
<1>11. ASSUME NEW s \in Sessions, Session(s) PROVE LifeInv'
  <2>1. CASE Enqueue(s)
    BY <2>1 DEF Enqueue
  <2>2. CASE CheckAll(s)
    BY <2>2 DEF CheckAll
  <2>3. CASE Finish(s)
    BY <2>3 DEF Finish
  <2>4. CASE EndSession(s)
    BY <2>4 DEF EndSession
  <2>. QED  BY <1>11, <2>1, <2>2, <2>3, <2>4 DEF Session
<1>12. CASE Exited \/ UNCHANGED vars
  BY <1>12 DEF Exited, vars
<1>. QED
  BY <1>1, <1>2, <1>3, <1>4, <1>5, <1>6, <1>7, <1>8, <1>9, <1>10, <1>11, <1>12
     DEF Next, Main

THEOREM LifeInvariant == Spec => []LifeInv
BY LifeInit, LifeStep, PTL DEF Spec

\* The types, and that the writer never takes from an empty queue.
THEOREM TypeCorrect == Spec => []TypeOK
<1>1. LifeInv => TypeOK
  BY DEF LifeInv
<1>. QED  BY <1>1, LifeInvariant, PTL

\* The pool outlives every coroutine: none is abandoned half-way.
THEOREM CoroutinesFinish == Spec => []NothingAbandoned
<1>1. LifeInv => NothingAbandoned
  BY DEF LifeInv, GuardInv, OrderInv, EndInv, Work, Idle, NothingAbandoned, TypeOK
<1>. QED  BY <1>1, LifeInvariant, PTL

\* Nobody leaves main while the writer works: the join waits for a pool that waits
\* for every coroutine.
THEOREM ExitAfterWriter == Spec => []ExitAwaitsWriter
<1>1. LifeInv => ExitAwaitsWriter
  BY DEF LifeInv, TypeOK, OrderInv, EndInv, Work, ExitAwaitsWriter
<1>. QED  BY <1>1, LifeInvariant, PTL

=============================================================================
