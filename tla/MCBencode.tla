----------------------------- MODULE MCBencode ------------------------------
(* Bencode with digits in base three and integers from -14 to 13.          *)
EXTENDS BencodeEncode

\* Up to two digits more than always fit.
MCSpellings == UNION {[1 .. n -> 0 .. Base - 1] : n \in 0 .. 4}

\* Zero and one.
MCPlain == {<<0>>, <<1>>}

\* The empty string and two characters.
MCStrings == {<<>>, <<1>>, <<2>>}

=============================================================================
