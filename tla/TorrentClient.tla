--------------------------- MODULE TorrentClient ---------------------------
(***************************************************************************)
(* The life of the process: main, the constructor, download and the        *)
(* destructor of class Torrent, the worker thread with its pool and the    *)
(* work guard of the io_context.                                           *)
(*                                                                         *)
(* The coroutines are kept as far as the process depends on them: when     *)
(* they start, what they leave behind and when they end.  PieceExchange    *)
(* and DhtSearch have what they do in between.                             *)
(***************************************************************************)
EXTENDS Integers

CONSTANTS
  PiecesNum,     \* pieces of the torrent
  Sessions,      \* bound: the sessions there may be at a time
  MaxReceived    \* bound: pieces that are counted

ASSUME PiecesAssumption == PiecesNum \in Nat \ {0}
ASSUME ReceivedAssumption == MaxReceived \in Nat

VARIABLES
  main,          \* where the main thread is
  guard,         \* the work guard is engaged
  pool,          \* the worker: "off", "starting", "running" or "returned"
  downloadCo, storePieces,    \* where these coroutines are
  session,       \* where a downloadFromPeer coroutine is
  received,      \* rcvPiecesNum
  queued,        \* pieces in piecesQueue
  stored,        \* storedPieces
  downloaded     \* status = DOWNLOADED

process == <<main, guard, pool>>
pieces == <<received, queued, stored, downloaded>>
vars == <<process, downloadCo, storePieces, session, pieces>>

Init ==
  /\ main = "construct"
  /\ guard = FALSE
  /\ pool = "off"
  /\ downloadCo = "none"
  /\ storePieces = "none"
  /\ session = [s \in Sessions |-> "off"]
  /\ received = 0 /\ queued = 0 /\ stored = 0
  /\ downloaded = FALSE

-----------------------------------------------------------------------------
(* The main thread.                                                        *)

\* Mutant of MadeGuard: the context is created without a guard.
NoGuard == FALSE

\* guard(boost::asio::make_work_guard(io))
MadeGuard == TRUE

Construct ==
  /\ main = "construct"
  /\ guard' = MadeGuard
  /\ pool' = "starting"
  /\ main' = "spawn"
  /\ UNCHANGED <<downloadCo, storePieces, session, pieces>>

\* co_spawn(io, downloadCo(...)), and then future.get()
Download ==
  /\ main = "spawn"
  /\ downloadCo' = "parse"
  /\ main' = "waiting"
  /\ UNCHANGED <<guard, pool, storePieces, session, pieces>>

\* Mutant of AfterReset: download leaves the guard to downloadCo.
GuardLeft == guard

\* guard.reset() in download
AfterReset == FALSE

DownloadReturns ==
  /\ main = "waiting"
  /\ downloadCo = "ended"
  /\ guard' = AfterReset
  /\ main' = "print"
  /\ UNCHANGED <<pool, downloadCo, storePieces, session, pieces>>

\* "Download completed."
PrintCompleted ==
  /\ main = "print"
  /\ main' = "join"
  /\ UNCHANGED <<guard, pool, downloadCo, storePieces, session, pieces>>

\* Mutant of WorkerDone: the destructor does not wait.
WorkerAnyhow == TRUE

\* workerThread.join()
WorkerDone == pool = "returned"

Destruct ==
  /\ main = "join"
  /\ WorkerDone
  /\ main' = "exit"
  /\ UNCHANGED <<guard, pool, downloadCo, storePieces, session, pieces>>

-----------------------------------------------------------------------------
(* The worker: execute starts eight threads in io_context::run, which      *)
(* returns when the context has no work left, and never runs it again.     *)

Work ==
  \/ guard
  \/ downloadCo \in {"parse", "search"}
  \/ storePieces \in {"open", "loop"}
  \/ \E s \in Sessions : session[s] # "off"

Execute ==
  /\ pool = "starting"
  /\ pool' = "running"
  /\ UNCHANGED <<main, guard, downloadCo, storePieces, session, pieces>>

RunReturns ==
  /\ pool = "running"
  /\ ~ Work
  /\ pool' = "returned"
  /\ UNCHANGED <<main, guard, downloadCo, storePieces, session, pieces>>

-----------------------------------------------------------------------------
(* The coroutines.                                                         *)

\* parseTorrentFile throws and catch (...) swallows it.
ParseFails ==
  /\ pool = "running"
  /\ downloadCo = "parse"
  /\ downloadCo' = "ended"
  /\ UNCHANGED <<process, storePieces, session, pieces>>

Parse ==
  /\ pool = "running"
  /\ downloadCo = "parse"
  /\ downloadCo' = "search"
  /\ storePieces' = "open"
  /\ UNCHANGED <<process, session, pieces>>

\* A session for an address; it has a slot of its own as long as it runs.
StartSession(s) ==
  /\ pool = "running"
  /\ downloadCo = "search"
  /\ session[s] = "off"
  /\ session' = [session EXCEPT ![s] = "loop"]
  /\ UNCHANGED <<process, downloadCo, storePieces, pieces>>

\* Leaves the loops, resets the guard and returns.
SearchEnds ==
  /\ pool = "running"
  /\ downloadCo = "search"
  /\ downloaded
  /\ guard' = FALSE
  /\ downloadCo' = "ended"
  /\ UNCHANGED <<main, pool, storePieces, session, pieces>>

\* A session verified a piece: rcvPiecesNum++.  It may be a piece that was counted
\* before, so that the counter may go beyond PiecesNum.
CountPiece(s) ==
  /\ pool = "running"
  /\ session[s] = "loop"
  /\ received < MaxReceived
  /\ received' = received + 1
  /\ session' = [session EXCEPT ![s] = "enqueue"]
  /\ UNCHANGED <<process, downloadCo, storePieces, queued, stored, downloaded>>

\* piecesQueue.push
Enqueue(s) ==
  /\ pool = "running"
  /\ session[s] = "enqueue"
  /\ queued' = queued + 1
  /\ session' = [session EXCEPT ![s] = "check"]
  /\ UNCHANGED <<process, downloadCo, storePieces, received, stored, downloaded>>

\* rcvPiecesNum == piecesNum, whatever was counted in the meantime
CheckAll(s) ==
  /\ pool = "running"
  /\ session[s] = "check"
  /\ session' = [session EXCEPT ![s] = IF received = PiecesNum THEN "finish" ELSE "loop"]
  /\ UNCHANGED <<process, downloadCo, storePieces, pieces>>

\* status = DOWNLOADED, at which this session leaves its loop.
Finish(s) ==
  /\ pool = "running"
  /\ session[s] = "finish"
  /\ downloaded' = TRUE
  /\ session' = [session EXCEPT ![s] = "end"]
  /\ UNCHANGED <<process, downloadCo, storePieces, received, queued, stored>>

\* The status, an exception or a message that closes; releases and erases.
EndSession(s) ==
  /\ pool = "running"
  /\ session[s] \in {"loop", "end"}
  /\ session' = [session EXCEPT ![s] = "off"]
  /\ UNCHANGED <<process, downloadCo, storePieces, pieces>>

\* The output file cannot be opened: the exception ends a detached coroutine.
OpenFails ==
  /\ pool = "running"
  /\ storePieces = "open"
  /\ storePieces' = "failed"
  /\ UNCHANGED <<process, downloadCo, session, pieces>>

Open ==
  /\ pool = "running"
  /\ storePieces = "open"
  /\ storePieces' = "loop"
  /\ UNCHANGED <<process, downloadCo, session, pieces>>

\* Mutant of QueueHasPiece: the queue is not looked at.
QueueAlways == TRUE

\* !piecesQueue.empty()
QueueHasPiece == queued > 0

StorePiece ==
  /\ pool = "running"
  /\ storePieces = "loop"
  /\ stored < PiecesNum
  /\ QueueHasPiece
  /\ queued' = queued - 1
  /\ stored' = stored + 1
  /\ UNCHANGED <<process, downloadCo, storePieces, session, received, downloaded>>

\* "Store completed!!!"
StoreEnds ==
  /\ pool = "running"
  /\ storePieces = "loop"
  /\ stored = PiecesNum
  /\ storePieces' = "done"
  /\ UNCHANGED <<process, downloadCo, session, pieces>>

Exited == main = "exit" /\ UNCHANGED vars

-----------------------------------------------------------------------------

Main == Construct \/ Download \/ DownloadReturns \/ PrintCompleted \/ Destruct
Worker == Execute \/ RunReturns
Search == ParseFails \/ Parse \/ SearchEnds
Store == OpenFails \/ Open \/ StorePiece \/ StoreEnds

\* What a session does without its peer: it goes on after a piece, and its waits end.
Session(s) == Enqueue(s) \/ CheckAll(s) \/ Finish(s) \/ EndSession(s)

Next ==
  \/ Main \/ Worker \/ Search \/ Store
  \/ \E s \in Sessions : StartSession(s) \/ CountPiece(s) \/ Session(s)
  \/ Exited

\* Threads and coroutines that can go on do.
Fairness ==
  /\ WF_vars(Main) /\ WF_vars(Worker)
  /\ WF_vars(Search) /\ WF_vars(Store)
  /\ \A s \in Sessions : WF_vars(Session(s))

Spec == Init /\ [][Next]_vars /\ Fairness

-----------------------------------------------------------------------------
(* Properties.                                                             *)

TypeOK ==
  /\ main \in {"construct", "spawn", "waiting", "print", "join", "exit"}
  /\ guard \in BOOLEAN
  /\ pool \in {"off", "starting", "running", "returned"}
  /\ downloadCo \in {"none", "parse", "search", "ended"}
  /\ storePieces \in {"none", "open", "loop", "failed", "done"}
  /\ session \in [Sessions -> {"off", "loop", "enqueue", "check", "finish", "end"}]
  /\ received \in 0 .. MaxReceived
  /\ queued \in Nat
  /\ stored \in 0 .. PiecesNum
  /\ downloaded \in BOOLEAN

\* The pool does not return while the main thread still needs it: a coroutine
\* that was spawned gets to its end (Torrent.cpp:95-106, 113-130, 136-141).
NothingAbandoned ==
  pool = "returned" =>
    main # "spawn" /\ downloadCo = "ended" /\ \A s \in Sessions : session[s] = "off"

\* The process does not exit under its writer: it ends when the writer has counted
\* as many pieces as the torrent has, or when there is no file to write to
\* (Torrent.cpp:108-111, 152, 523-567).  What the count is worth is another matter:
\* a piece that came twice counts twice, and a write that failed counts.
ExitAwaitsWriter ==
  main = "exit" => stored = PiecesNum \/ storePieces \in {"none", "failed"}

\* Once downloadCo has ended, for whatever reason, the process exits: both places
\* that reset the guard let go of the pool (Torrent.cpp:136-141, 198, 201-204).
ProcessExits == (downloadCo = "ended") ~> (main = "exit")

\* "Download completed." (TorrentClient.cpp:17) says that the file is there.
PrintedIsStored == main \in {"join", "exit"} => stored = PiecesNum

=============================================================================
