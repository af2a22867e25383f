---------------------------- MODULE PieceLedger ----------------------------
(***************************************************************************)
(* What the downloader promises, without peers, blocks, queues or threads: *)
(* every piece is verified against its hash once and then stored once; the *)
(* download is declared complete only when every piece was verified, and   *)
(* the output file is closed only when every piece was stored.             *)
(***************************************************************************)
CONSTANT Pieces

VARIABLES
  verified,   \* pieces whose hash matched
  stored,     \* pieces written to the output file
  complete,   \* the download was declared DOWNLOADED
  closed      \* the output file was closed as a success

ledgerVars == <<verified, stored, complete, closed>>

Init ==
  /\ verified = {}
  /\ stored = {}
  /\ complete = FALSE
  /\ closed = FALSE

Verify(i) ==
  /\ i \notin verified
  /\ verified' = verified \cup {i}
  /\ UNCHANGED <<stored, complete, closed>>

Store(i) ==
  /\ i \in verified \ stored
  /\ stored' = stored \cup {i}
  /\ UNCHANGED <<verified, complete, closed>>

Complete ==
  /\ verified = Pieces
  /\ complete' = TRUE
  /\ UNCHANGED <<verified, stored, closed>>

Close ==
  /\ stored = Pieces
  /\ closed' = TRUE
  /\ UNCHANGED <<verified, stored, complete>>

Next ==
  \/ \E i \in Pieces : Verify(i) \/ Store(i)
  \/ Complete
  \/ Close

Spec == Init /\ [][Next]_ledgerVars

=============================================================================
