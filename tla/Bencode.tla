------------------------------ MODULE Bencode -------------------------------
(***************************************************************************)
(* bencode.hpp as parseTorrentFile uses it: decode of the torrent file.    *)
(* What encode makes of the result is in BencodeEncode.                    *)
(*                                                                         *)
(* do_decode is an action per turn of its loop.  A text is the sequence of *)
(* the tokens it takes: "e", "l", "d", an integer with its sign and its    *)
(* digits, a string with the digits of its length.  Wherever the text ends *)
(* or goes on with anything else, do_decode throws.                        *)
(***************************************************************************)
EXTENDS Integers, Sequences, SequencesExt, TLC

CONSTANTS
  Base,       \* digits are below it: 10, scaled down for TLC
  MaxInteger, \* limits::max of the integer type
  Strings,    \* strings of the file: sequences of characters
  Spellings,  \* bound: sequences of digits
  Plain,      \* bound: the spellings inside a container
  MaxTokens   \* bound: tokens of a text

ASSUME BaseAssumption == Base \in Nat /\ Base > 1
ASSUME MaxIntegerAssumption == MaxInteger \in Nat
ASSUME SpellingsAssumption == Plain \subseteq Spellings /\ Spellings \subseteq Seq(0 .. Base - 1)

MinInteger == - MaxInteger - 1

VARIABLES
  phase,      \* of do_decode: "loop", "tail", "done", "failed"
  state,      \* the containers that are open, each with the key it is stored at
  result,
  \* history
  text,       \* the tokens taken
  ordered     \* keys came in ascending order

vars == <<phase, state, result, text, ordered>>

NoKey == <<>>
None == <<"none">>

Init ==
  /\ phase = "loop"
  /\ state = <<>>
  /\ result = None
  /\ text = <<>>
  /\ ordered = TRUE

-----------------------------------------------------------------------------
(* Digits.                                                                 *)

Power[k \in Nat] == IF k = 0 THEN 1 ELSE Power[k - 1] * Base

\* limits::digits10: as many digits always fit.
digits10 == CHOOSE d \in 0 .. MaxInteger :
  Power[d] - 1 <= MaxInteger /\ Power[d + 1] - 1 > MaxInteger

\* Truncated towards zero, as / and % of C++ are.
TenthOf(limit) == IF limit < 0 THEN - ((- limit) \div Base) ELSE limit \div Base
UnitOf(limit) == limit - Base * TenthOf(limit)

\* Mutant of Fits: the last digit is not looked at.
FitsTenth(value, digit, sgn) ==
  IF sgn = 1 THEN value <= TenthOf(MaxInteger) ELSE value >= TenthOf(MinInteger)

\* check_over_underflow
Fits(value, digit, sgn) ==
  IF sgn = 1
  THEN /\ value <= TenthOf(MaxInteger)
       /\ value = TenthOf(MaxInteger) => digit <= UnitOf(MaxInteger)
  ELSE /\ value >= TenthOf(MinInteger)
       /\ value = TenthOf(MinInteger) => digit >= UnitOf(MinInteger)

\* The value after each digit.
Values(digits, sgn) ==
  LET value[k \in 0 .. Len(digits)] ==
        IF k = 0 THEN 0 ELSE value[k - 1] * Base + digits[k] * sgn
  IN  value

Accumulated(digits, sgn) == Values(digits, sgn)[Len(digits)]

\* decode_digits accepts digits10 digits, and one more that fits.
Accepts(digits, sgn) ==
  \/ Len(digits) <= digits10
  \/ /\ Len(digits) = digits10 + 1
     /\ Fits(Accumulated(Front(digits), sgn), Last(digits) * sgn, sgn)

decode_digits(digits, sgn) == Accumulated(digits, sgn)

-----------------------------------------------------------------------------
(* decode.                                                                 *)

Integer(n) == <<"integer", n>>
String(s) == <<"string", s>>
List(l) == <<"list", l>>
Dict(d) == <<"dict", d>>
EmptyDict == [k \in {} |-> None]

InDict == state # <<>> /\ Last(state).value[1] = "dict"

\* The order of std::map over strings.
Before(a, b) ==
  \/ IsStrictPrefix(a, b)
  \/ \E k \in 1 .. Len(a) \cap 1 .. Len(b) :
       a[k] < b[k] /\ \A j \in 1 .. k - 1 : a[j] = b[j]

\* Mutant of Appended: in front of the list.
AppendedFirst(list, value) == <<value>> \o list

Appended(list, value) == Append(list, value)

\* A container with value in it, at key when it is a dict.
With(container, key, value) ==
  IF container[1] = "list"
  THEN List(Appended(container[2], value))
  ELSE Dict((key :> value) @@ container[2])

\* emplace refuses a key that is there.
Fresh(key) == InDict => key \notin DOMAIN Last(state).value[2]

SpelledIn(depth) == IF depth = 0 THEN Spellings ELSE Plain

\* The tokens of a string: its length has a digit, and maybe zeros in front.
StringTokens(s) ==
  {<<"s", digits, s>> : digits \in
     {d \in SpelledIn(Len(state)) \ {<<>>} : Accepts(d, 1) /\ decode_digits(d, 1) = Len(s)}}

\* In a dict a key comes first.
Places ==
  IF InDict
  THEN UNION {{[key |-> s, tokens |-> <<token>>] : token \in StringTokens(s)} : s \in Strings}
  ELSE {[key |-> NoKey, tokens |-> <<>>]}

\* The turn of the loop at a place that takes one token more.
Take(place, token) ==
  /\ phase = "loop"
  /\ Fresh(place.key)
  /\ Len(text) + Len(place.tokens) < MaxTokens
  /\ text' = text \o place.tokens \o <<token>>
  /\ ordered' = (ordered /\ (InDict => \A k \in DOMAIN Last(state).value[2] : Before(k, place.key)))

\* store(value): the root, or into the innermost container.
Store(key, value) ==
  IF state = <<>>
  THEN result' = value /\ phase' = "tail" /\ UNCHANGED state
  ELSE /\ state' = [state EXCEPT ![Len(state)].value = With(@, key, value)]
       /\ UNCHANGED <<result, phase>>

DecodeInt(place, digits, sgn) ==
  /\ Accepts(digits, sgn)
  /\ Take(place, <<"i", sgn, digits>>)
  /\ Store(place.key, Integer(decode_digits(digits, sgn)))

DecodeStr(place, s, token) ==
  /\ Take(place, token)
  /\ Store(place.key, String(s))

\* "l" or "d": what the container will be is stored when it is complete, which
\* nobody can tell apart.
DecodeOpen(place, token, empty) ==
  /\ Take(place, token)
  /\ state' = Append(state, [key |-> place.key, value |-> empty])
  /\ UNCHANGED <<phase, result>>

\* "e" pops the innermost container.
DecodeEnd ==
  LET closed == Last(state) IN
  /\ phase = "loop"
  /\ state # <<>>
  /\ Len(text) < MaxTokens
  /\ text' = Append(text, <<"e">>)
  /\ IF Len(state) = 1
     THEN state' = <<>> /\ result' = closed.value /\ phase' = "tail"
     ELSE /\ state' = [Front(state) EXCEPT ![Len(state) - 1].value =
                         With(@, closed.key, closed.value)]
          /\ UNCHANGED <<result, phase>>
  /\ UNCHANGED ordered

\* An exception: the end of the text, a token out of place, a key that is there,
\* an integer that does not fit, or characters after the end.
Throw ==
  /\ phase \in {"loop", "tail"}
  /\ phase' = "failed"
  /\ UNCHANGED <<state, result, text, ordered>>

\* An integer at the root that does not fit.
ThrowOverflow(digits, sgn) ==
  /\ phase = "loop" /\ state = <<>>
  /\ ~ Accepts(digits, sgn)
  /\ phase' = "failed"
  /\ text' = Append(text, <<"i", sgn, digits>>)
  /\ UNCHANGED <<state, result, ordered>>

\* The whole text was taken.
Finish ==
  /\ phase = "tail"
  /\ phase' = "done"
  /\ UNCHANGED <<state, result, text, ordered>>

do_decode ==
  \/ \E place \in Places :
       \/ \E digits \in SpelledIn(Len(state)), sgn \in {1, -1} : DecodeInt(place, digits, sgn)
       \/ \E s \in Strings : \E token \in StringTokens(s) : DecodeStr(place, s, token)
       \/ DecodeOpen(place, <<"l">>, List(<<>>))
       \/ DecodeOpen(place, <<"d">>, Dict(EmptyDict))
  \/ DecodeEnd
  \/ \E digits \in Spellings, sgn \in {1, -1} : ThrowOverflow(digits, sgn)
  \/ Throw
  \/ Finish

Ended == phase \in {"done", "failed"} /\ UNCHANGED vars

Next == do_decode \/ Ended

Spec == Init /\ [][Next]_vars

-----------------------------------------------------------------------------
(* Properties.                                                             *)

\* A number spelt as std::to_chars would.
Shortest(digits) == digits # <<>> /\ (Head(digits) = 0 => Len(digits) = 1)

\* What digits say: each is worth a power of the base.
Worth(digits) ==
  LET n == Len(digits)
      sum[k \in 0 .. n] ==
        IF k = 0 THEN 0 ELSE sum[k - 1] + digits[n - k + 1] * Power[k - 1]
  IN  sum[n]

\* An integer is read as what its digits say; it is refused because it does not
\* fit the type, or for zeros in front of it that make it too long
\* (bencode.hpp:351-448).
DigitsExact ==
  Len(text) = 1 /\ text[1][1] = "i" =>
    LET sgn == text[1][2]
        digits == text[1][3]
        n == sgn * Worth(digits) IN
    IF result = None
    THEN n \notin MinInteger .. MaxInteger \/ ~ Shortest(digits)
    ELSE n \in MinInteger .. MaxInteger /\ result = Integer(n)

=============================================================================
