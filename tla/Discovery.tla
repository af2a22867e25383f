----------------------------- MODULE Discovery -----------------------------
(***************************************************************************)
(* What the search for peers promises to the rest of the download: a       *)
(* session is only started for an address that has none, and the search    *)
(* ends only once the download is complete, which only a session declares. *)
(***************************************************************************)
CONSTANT Addresses

VARIABLES
  searching,    \* downloadCo still runs its loops
  alive,        \* addresses with a session
  downloaded    \* the download's status is DOWNLOADED

discoveryVars == <<searching, alive, downloaded>>

Init ==
  /\ searching = TRUE
  /\ alive = {}
  /\ downloaded = FALSE

Start(a) ==
  /\ searching
  /\ a \notin alive
  /\ alive' = alive \cup {a}
  /\ UNCHANGED <<searching, downloaded>>

Leave(a) ==
  /\ a \in alive
  /\ alive' = alive \ {a}
  /\ UNCHANGED <<searching, downloaded>>

Complete ==
  /\ alive # {}
  /\ downloaded' = TRUE
  /\ UNCHANGED <<searching, alive>>

End ==
  /\ downloaded
  /\ searching' = FALSE
  /\ UNCHANGED <<alive, downloaded>>

Next ==
  \/ \E a \in Addresses : Start(a) \/ Leave(a)
  \/ Complete
  \/ End

Spec == Init /\ [][Next]_discoveryVars

=============================================================================
