---------------------------- MODULE MCDhtSearch ----------------------------
(***************************************************************************)
(* A small instance of DhtSearch.                                          *)
(***************************************************************************)
EXTENDS DhtSearch

CONSTANTS a, b, n, root

TwoAddresses == {a, b}
OneNode == {n}
=============================================================================
