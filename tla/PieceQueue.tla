----------------------------- MODULE PieceQueue -----------------------------
(***************************************************************************)
(* What PieceExchange takes as atomic: piecesQueue, a std::queue that the  *)
(* sessions push on pQueueStd while storePieces works on its front.        *)
(*                                                                         *)
(* A push and a pop have a beginning and an end.  Whether the writer is    *)
(* still on pQueueStd when it pops depends on Logger::log, which leaves    *)
(* the strand of its caller exactly when it prints.  A push that grows the *)
(* deque, or recentres its map, while a pop crosses to its next node is    *)
(* undefined behaviour: the two may not disturb each other, the pop may    *)
(* skip elements that nobody took, the element at the front may be one     *)
(* that was destroyed, or the process dies.                                *)
(***************************************************************************)
EXTENDS Integers, Sequences, FiniteSets

CONSTANTS
  Pieces,     \* pieces, each verified by a session of its own
  Destroyed,  \* the remains of an element at the front
  Levels,     \* log levels the client may be built with
  DiskFails   \* may a write fail?

\* LogLevel (Logger.hpp).
ALL == 0
DEBUG == 1
ERROR == 4
OFF == 5

Nobody == "nobody"
Writer == "writer"
Nothing == "nothing"

ASSUME PiecesAssumption == IsFiniteSet(Pieces) /\ Destroyed \notin Pieces \cup {Nothing}
ASSUME LevelsAssumption == Levels \subseteq ALL .. OFF
ASSUME DiskAssumption == DiskFails \in BOOLEAN

VARIABLES
  level,        \* the logger's level
  strand,       \* who is on pQueueStd
  piecesQueue,
  session,      \* where the session of a piece is
  storePc, hand, storedPieces,
  raced,        \* a push and the pop in progress have overlapped
  diskOK,       \* no write has failed
  file,
  \* history
  pushed,       \* pieces in the order they were pushed
  taken,        \* what the writer took from the front while nothing was damaged
  damaged       \* an overlap has disturbed the queue

writer == <<storePc, hand, storedPieces>>
disk == <<diskOK, file>>
vars == <<level, strand, piecesQueue, session, writer, raced, disk, pushed, taken, damaged>>

Init ==
  /\ level \in Levels
  /\ strand = Nobody
  /\ piecesQueue = <<>>
  /\ session = [i \in Pieces |-> "verified"]
  /\ storePc = "poll" /\ hand = Nothing /\ storedPieces = 0
  /\ raced = FALSE
  /\ diskOK = TRUE /\ file = {}
  /\ pushed = <<>> /\ taken = <<>> /\ damaged = FALSE

-----------------------------------------------------------------------------
(* The logger.                                                             *)

\* Mutant of Logs: the comparison the other way round.
LogsBelow(l) == l <= level

\* if (level >= this->level)
Logs(l) == l >= level

\* Who is on pQueueStd after the writer called log(l): the call that prints goes
\* to printStd and comes back on the writer's own executor.
AfterLog(l) == IF Logs(l) THEN Nobody ELSE Writer

\* Mutant of StrandFree: pushes do not ask for the strand.
StrandAnyhow == TRUE

StrandFree == strand = Nobody

-----------------------------------------------------------------------------
(* A session pushes its piece.                                             *)

PushBegins(i) ==
  /\ session[i] = "verified"
  /\ StrandFree
  /\ strand' = "session"
  /\ session' = [session EXCEPT ![i] = "pushing"]
  /\ raced' = (raced \/ storePc = "popping")
  /\ UNCHANGED <<level, piecesQueue, writer, disk, pushed, taken, damaged>>

PushEnds(i) ==
  /\ session[i] = "pushing"
  /\ session' = [session EXCEPT ![i] = "pushed"]
  /\ piecesQueue' = Append(piecesQueue, i)
  /\ pushed' = Append(pushed, i)
  /\ strand' = Nobody
  /\ UNCHANGED <<level, writer, raced, disk, taken, damaged>>

Pushing == \E i \in Pieces : session[i] = "pushing"

-----------------------------------------------------------------------------
(* The writer.                                                             *)

\* dispatch to pQueueStd runs at once on that strand, and waits for it elsewhere.
OnStrand == strand = Nobody \/ strand = Writer

\* Mutant of MorePieces: one piece too few.
MorePiecesButOne == storedPieces + 1 < Cardinality(Pieces)

\* Mutant of MorePieces: one piece too many.
MorePiecesAndOne == storedPieces <= Cardinality(Pieces)

\* while (storedPieces < piecesNum)
MorePieces == storedPieces < Cardinality(Pieces)

\* The front is moved out, and the first log call follows.
TakeFront ==
  /\ storePc = "poll"
  /\ MorePieces
  /\ OnStrand
  /\ piecesQueue # <<>>
  /\ hand' = Head(piecesQueue)
  /\ taken' = IF damaged THEN taken ELSE Append(taken, hand')
  /\ strand' = AfterLog(DEBUG)
  /\ storePc' = "verify"
  /\ UNCHANGED <<level, piecesQueue, session, storedPieces, raced, disk, pushed, damaged>>

\* Mutant of AfterIdle: the writer polls without leaving the strand.
AfterIdleStays == Writer

\* post(defaultExecutor) leaves the strand.
AfterIdle == Nobody

\* The queue is empty.
Idle ==
  /\ storePc = "poll"
  /\ MorePieces
  /\ OnStrand
  /\ piecesQueue = <<>>
  /\ strand' = AfterIdle
  /\ UNCHANGED <<level, piecesQueue, session, writer, raced, disk, pushed, taken, damaged>>

\* "Corrupted piece:" is logged for an element that was destroyed.
Verify ==
  /\ storePc = "verify"
  /\ strand' = IF hand = Destroyed /\ strand = Writer THEN AfterLog(ERROR) ELSE strand
  /\ storePc' = "pop"
  /\ UNCHANGED <<level, piecesQueue, session, hand, storedPieces, raced, disk,
                 pushed, taken, damaged>>

PopBegins ==
  /\ storePc = "pop"
  /\ storePc' = "popping"
  /\ raced' = Pushing
  /\ UNCHANGED <<level, strand, piecesQueue, session, hand, storedPieces, disk,
                 pushed, taken, damaged>>

\* Mutant of Popped: the element stays in the queue.
PoppedNever == piecesQueue

Popped == Tail(piecesQueue)

\* What is left of the queue when a disturbed pop moves its begin by n elements.
Remaining(n) == SubSeq(piecesQueue, n + 1, Len(piecesQueue))

PopEnds ==
  /\ storePc = "popping"
  /\ raced' = FALSE
  /\ \/ /\ piecesQueue' = Popped
        /\ storePc' = "write"
        /\ UNCHANGED damaged
     \/ /\ raced
        /\ \E n \in 1 .. Len(piecesQueue) :
             piecesQueue' \in {Remaining(n), <<Destroyed>> \o Remaining(n)}
        /\ storePc' = "write"
        /\ damaged' = TRUE
     \/ /\ raced
        /\ storePc' = "killed"
        /\ damaged' = TRUE
        /\ UNCHANGED piecesQueue
  /\ UNCHANGED <<level, strand, session, hand, storedPieces, disk, pushed, taken>>

\* Back on pQueueStd: seekp and write, whose failure nobody looks at, and the
\* second log call.  An ofstream writes nothing any more once a write failed; an
\* element that was destroyed has no bytes.
Write ==
  /\ storePc = "write"
  /\ OnStrand
  /\ \/ /\ file' = IF diskOK THEN file \cup ({hand} \ {Destroyed}) ELSE file
        /\ UNCHANGED diskOK
     \/ /\ DiskFails
        /\ diskOK' = FALSE
        /\ UNCHANGED file
  /\ storedPieces' = storedPieces + 1
  /\ hand' = Nothing
  /\ strand' = AfterLog(ERROR)
  /\ storePc' = "poll"
  /\ UNCHANGED <<level, piecesQueue, session, raced, pushed, taken, damaged>>

\* "Store completed!!!"; the coroutine is over and on no strand.
StoreEnds ==
  /\ storePc = "poll"
  /\ ~ MorePieces
  /\ storePc' = "done"
  /\ strand' = IF strand = Writer THEN Nobody ELSE strand
  /\ UNCHANGED <<level, piecesQueue, session, hand, storedPieces, raced, disk,
                 pushed, taken, damaged>>

Store ==
  TakeFront \/ Idle \/ Verify \/ PopBegins \/ PopEnds \/ Write \/ StoreEnds

\* Nothing goes on in a process that died.
Push(i) == storePc # "killed" /\ (PushBegins(i) \/ PushEnds(i))

Ended ==
  /\ storePc \in {"done", "killed"}
  /\ UNCHANGED vars

Next ==
  \/ \E i \in Pieces : Push(i)
  \/ Store
  \/ Ended

\* A strand serves whoever waits for it in turn.
Fairness == WF_vars(Store) /\ \A i \in Pieces : SF_vars(Push(i))

Spec == Init /\ [][Next]_vars /\ Fairness

-----------------------------------------------------------------------------
(* Properties.                                                             *)

Elements == Pieces \cup {Destroyed}

TypeOK ==
  /\ level \in Levels
  /\ strand \in {Nobody, "session", Writer}
  /\ piecesQueue \in Seq(Elements)
  /\ session \in [Pieces -> {"verified", "pushing", "pushed"}]
  /\ storePc \in {"poll", "verify", "pop", "popping", "write", "done", "killed"}
  /\ hand \in Elements \cup {Nothing}
  /\ storedPieces \in 0 .. Cardinality(Pieces)
  /\ raced \in BOOLEAN /\ diskOK \in BOOLEAN /\ damaged \in BOOLEAN
  /\ file \in SUBSET Pieces
  /\ pushed \in Seq(Pieces) /\ taken \in Seq(Elements)

\* A pop runs beside a push only when the logger prints at DEBUG, as main's does:
\* the log call at Torrent.cpp:544 takes the writer off pQueueStd before it pops
\* (537-552, Logger.cpp:11-17).
PopAlone == Pushing /\ storePc = "popping" => level <= DEBUG

\* Until an overlap disturbs the queue, the writer takes the pieces as they were
\* pushed, each once, although it pops what it took at another time
\* (Torrent.cpp:410-411, 540-552).
Fifo == INSTANCE Channel WITH Elements <- Pieces, sent <- pushed, delivered <- taken
FifoSpec == Fifo!Spec

\* When the writer reports completion, a piece is missing from the file only
\* because a write failed, which nobody tests, or because the queue was disturbed
\* by a pop beside a push (Torrent.cpp:535-565).
LossHasCause ==
  storePc = "done" => file = Pieces \/ ~ diskOK \/ (damaged /\ level <= DEBUG)

\* The writer polls a queue that lost elements.
Starving == storePc = "poll" /\ piecesQueue = <<>> /\ damaged /\ level <= DEBUG

\* However the writer and the sessions share the strand, at whatever level is
\* logged, the writer comes to its end: only after an overlap that lost elements
\* does it poll an empty queue for ever (Torrent.cpp:535-562).
WriterEnds == <>[](storePc \in {"done", "killed"} \/ Starving)

=============================================================================
