--------------------------- MODULE BencodeEncode ----------------------------
(***************************************************************************)
(* encode of bencode.hpp, with which parseTorrentFile writes the decoded   *)
(* info dictionary again to take the info hash of it.                      *)
(***************************************************************************)
EXTENDS Bencode

\* std::to_chars
RECURSIVE Digits(_)
Digits(n) == IF n < Base THEN <<n>> ELSE Digits(n \div Base) \o <<n % Base>>

KeysInOrder(dict) == SetToSortSeq(DOMAIN dict, Before)

EncodeString(s) == <<"s", Digits(Len(s)), s>>

RECURSIVE encode(_)
encode(v) ==
  CASE v[1] = "integer" -> <<IF v[2] < 0 THEN <<"i", -1, Digits(- v[2])>> ELSE <<"i", 1, Digits(v[2])>>>>
    [] v[1] = "string" -> <<EncodeString(v[2])>>
    [] v[1] = "list" -> <<<<"l">>>> \o FlattenSeq([k \in DOMAIN v[2] |-> encode(v[2][k])]) \o <<<<"e">>>>
    [] v[1] = "dict" ->
         LET keys == KeysInOrder(v[2]) IN
         <<<<"d">>>>
           \o FlattenSeq([k \in DOMAIN keys |-> <<EncodeString(keys[k])>> \o encode(v[2][keys[k]])])
           \o <<<<"e">>>>

-----------------------------------------------------------------------------
(* Properties.                                                             *)

\* A text as a torrent file is required to be written.
Canonical ==
  /\ ordered
  /\ \A k \in DOMAIN text :
       /\ text[k][1] = "i" => Shortest(text[k][3]) /\ (text[k][2] = -1 => text[k][3] # <<0>>)
       /\ text[k][1] = "s" => Shortest(text[k][2])

\* parseTorrentFile hashes what encode makes of the decoded info dictionary, not its
\* text in the file (Torrent.cpp:69-79): the two are the same exactly when that text
\* is canonical (bencode.hpp:499-585, 743-783).
InfoHashExact == phase = "done" => (encode(result) = text <=> Canonical)

=============================================================================
