------------------------------ MODULE PeerWire ------------------------------
(***************************************************************************)
(* PeerSession (Message.cpp): the two byte streams between the client and  *)
(* one peer, and how a session of downloadFromPeer uses them.              *)
(*                                                                         *)
(* The peer frames its messages as BitTorrent does: four bytes of length   *)
(* and then as many bytes, none at all in a keep-alive.  receive() always  *)
(* reads five bytes, the length and an id.  Every read and write may fail, *)
(* time out or find the connection closed.                                 *)
(***************************************************************************)
EXTENDS Integers, Sequences, SequencesExt

CONSTANTS
  ByteValues,     \* values of a byte: 256, scaled down for TLC
  HandshakeBytes, \* length of the peer's handshake: 68
  PeerMessages,   \* messages a peer may send, keep-alives among them
  Asks,           \* the [index, begin] of the requests the client may send
  BlockSize,
  Cuts,           \* bound: where async_send may stop in a buffer
  MaxSent,        \* bound: messages of the peer
  MaxAsked        \* bound: messages of the client

CHOKE == 0
INTERESTED == 2
BITFIELD == 5
REQUEST == 6
EMPTY == 9      \* also the id byte of BitTorrent's PORT

KeepAlive == [length |-> 0]

Byte == 0 .. ByteValues - 1

ASSUME BytesAssumption == ByteValues \in Nat /\ ByteValues > EMPTY
ASSUME HandshakeAssumption == HandshakeBytes \in Nat

\* A peer's messages have the form of the protocol, and their lengths leave the
\* first byte zero: 16 MiB is far beyond a block and the bitfield of a usual
\* torrent.  The first byte of a longer message, which becomes the id of a
\* keep-alive before it, need not be that of CHOKE.
ASSUME MessagesAssumption ==
  \A m \in PeerMessages :
    \/ m = KeepAlive
    \/ /\ m \in [length : Nat, id : Byte, payload : Seq(Byte)]
       /\ m.length = 1 + Len(m.payload)
       /\ m.length < ByteValues * ByteValues * ByteValues

\* Numbers of a request are unsigned ints.
ASSUME AsksAssumption ==
  \A n \in {BlockSize} \cup {ask.index : ask \in Asks} \cup {ask.begin : ask \in Asks} :
    n \in Nat /\ n < ByteValues * ByteValues * ByteValues * ByteValues

VARIABLES
  pc,         \* where the session is
  inbound,    \* bytes on their way to the client
  message,    \* the message receive() is working on
  received,   \* messages receive() returned
  outbound,   \* bytes on their way to the peer
  short,      \* some async_send wrote less than its buffer
  \* history
  sent,       \* messages the peer sent
  asked,      \* messages the client sent
  taken       \* messages the peer took from the stream

reading == <<inbound, message, received>>
writing == <<outbound, short, asked>>
vars == <<pc, reading, writing, sent, taken>>

-----------------------------------------------------------------------------
(* Bytes.                                                                  *)

Drop(s, n) == SubSeq(s, n + 1, Len(s))

\* Four bytes of a number, the most significant first.
Weight == <<ByteValues * ByteValues * ByteValues, ByteValues * ByteValues, ByteValues, 1>>
Wrap == ByteValues * Weight[1]

FourBytes(n) == [k \in 1 .. 4 |-> (n \div Weight[k]) % ByteValues]
Number(b) == b[1] * Weight[1] + b[2] * Weight[2] + b[3] * Weight[3] + b[4]

\* int msgLength: four bytes in a signed integer.
AsInt(b) == IF Number(b) < Wrap \div 2 THEN Number(b) ELSE Number(b) - Wrap

\* A message as a peer frames it.
Framed(m) ==
  IF m = KeepAlive THEN FourBytes(0) ELSE FourBytes(m.length) \o <<m.id>> \o m.payload

Greeting == [k \in 1 .. HandshakeBytes |-> 1]

makeRequestPayload(i, begin) == FourBytes(i) \o FourBytes(begin) \o FourBytes(BlockSize)

Interested == [id |-> INTERESTED, args |-> <<>>]
Request(ask) == [id |-> REQUEST, args |-> <<ask.index, ask.begin, BlockSize>>]

Payload(m) == IF m.id = REQUEST THEN makeRequestPayload(m.args[1], m.args[2]) ELSE <<>>

\* Mutant of SendBuffer: the length does not count the id.
SendBufferShort(m) == FourBytes(Len(Payload(m))) \o <<m.id>> \o Payload(m)

\* The buffer of send(): short payloads are not copied.
SendBuffer(m) ==
  LET length == 1 + Len(Payload(m)) IN
  FourBytes(length) \o <<m.id>> \o
    IF length > 5 THEN Payload(m) ELSE [k \in 1 .. length - 1 |-> 0]

Init ==
  /\ pc = "connect"
  /\ inbound = <<>> /\ message = KeepAlive /\ received = <<>>
  /\ outbound = <<>> /\ short = FALSE
  /\ sent = <<>> /\ asked = <<>> /\ taken = <<>>

Over == pc \in {"closed", "failed"}

-----------------------------------------------------------------------------
(* The peer: sends messages, and takes whole ones from the client's bytes. *)

PeerSends(m) ==
  /\ pc # "connect" /\ ~ Over
  /\ Len(sent) < MaxSent
  /\ sent' = Append(sent, m)
  /\ inbound' = inbound \o Framed(m)
  /\ UNCHANGED <<pc, message, received, writing, taken>>

BodyLength == Number(SubSeq(outbound, 1, 4))
WholeMessage == Len(outbound) >= 4 /\ Len(outbound) >= 4 + BodyLength

PeerTakes ==
  LET n == BodyLength
      body == SubSeq(outbound, 5, 4 + n)
      Field(k) == Number(SubSeq(body, 4 * k - 2, 4 * k + 1)) IN
  /\ WholeMessage
  /\ outbound' = Drop(outbound, 4 + n)
  /\ taken' = IF n = 0 THEN taken
              ELSE Append(taken, [id |-> Head(body),
                                  args |-> [k \in 1 .. (n - 1) \div 4 |-> Field(k)]])
  /\ UNCHANGED <<pc, reading, short, asked, sent>>

-----------------------------------------------------------------------------
(* The session.                                                            *)

\* open(), and the handshake that async_write sends as a whole.
Open ==
  /\ pc = "connect"
  /\ pc' = "greet"
  /\ inbound' = Greeting
  /\ UNCHANGED <<message, received, writing, sent, taken>>

\* The rest of handshake(): 68 bytes are read and not looked at.
Handshake ==
  /\ pc = "greet"
  /\ Len(inbound) >= HandshakeBytes
  /\ inbound' = Drop(inbound, HandshakeBytes)
  /\ pc' = "header"
  /\ UNCHANGED <<message, received, writing, sent, taken>>

\* receive() returns m.  The first message must be the bitfield; EMPTY ends the
\* loop of the session.
Return(m) ==
  /\ received' = Append(received, m)
  /\ pc' = IF received = <<>> /\ m.id # BITFIELD THEN "failed"
           ELSE IF received # <<>> /\ m.id = EMPTY THEN "closed" ELSE "turn"

\* Mutant of HeaderBytes: the id is left for the second read.
HeaderBytesFour == 4

HeaderBytes == 5

\* Mutant of IdOf: a message without a length has no id.
IdOfMessage(header) == IF AsInt(SubSeq(header, 1, 4)) = 0 THEN EMPTY ELSE header[5]

IdOf(header) == header[5]

ReadHeader ==
  LET length == AsInt(SubSeq(inbound, 1, 4))
      m == [length |-> length, id |-> IdOf(inbound), payload |-> <<>>] IN
  /\ pc = "header"
  /\ Len(inbound) >= 5
  /\ inbound' = Drop(inbound, HeaderBytes)
  /\ \/ /\ length > 1
        /\ message' = m
        /\ pc' = "payload"
        /\ UNCHANGED received
     \/ /\ ~ (length > 1)
        /\ Return(m)
        /\ UNCHANGED message
  /\ UNCHANGED <<writing, sent, taken>>

ReadPayload ==
  LET size == message.length - 1 IN
  /\ pc = "payload"
  /\ Len(inbound) >= size
  /\ inbound' = Drop(inbound, size)
  /\ message' = KeepAlive
  /\ Return([message EXCEPT !.payload = SubSeq(inbound, 1, size)])
  /\ UNCHANGED <<writing, sent, taken>>

\* send(): async_send writes any part of the buffer, and nobody asks which.
Send(m) ==
  /\ asked' = Append(asked, m)
  /\ \E n \in {k \in 1 .. Len(SendBuffer(m)) : k \in Cuts \/ k = Len(SendBuffer(m))} :
       /\ outbound' = outbound \o SubSeq(SendBuffer(m), 1, n)
       /\ short' = (short \/ n < Len(SendBuffer(m)))
  /\ UNCHANGED <<pc, reading, sent, taken>>

SendInterested ==
  /\ pc = "turn"
  /\ asked = <<>>
  /\ Send(Interested)

SendRequest ==
  /\ pc = "turn"
  /\ asked # <<>> /\ Len(asked) < MaxAsked
  /\ \E ask \in Asks : Send(Request(ask))

ReceiveNext ==
  /\ pc = "turn"
  /\ asked # <<>>
  /\ pc' = "header"
  /\ UNCHANGED <<reading, writing, sent, taken>>

\* The loop ends with the download, and close() follows.
Close ==
  /\ pc = "turn"
  /\ asked # <<>>
  /\ pc' = "closed"
  /\ UNCHANGED <<reading, writing, sent, taken>>

\* Mutant of MayFail: only the header's read has a timeout.
MayFailSometimes == pc \in {"connect", "greet", "header", "turn"}

MayFail == ~ Over

\* A timeout, an error or the end of the stream: a TorrentException.
Fail ==
  /\ MayFail
  /\ pc' = "failed"
  /\ UNCHANGED <<reading, writing, sent, taken>>

Session ==
  \/ Open \/ Handshake \/ ReadHeader \/ ReadPayload
  \/ SendInterested \/ SendRequest \/ ReceiveNext \/ Close \/ Fail

Next ==
  \/ \E m \in PeerMessages : PeerSends(m)
  \/ PeerTakes
  \/ Session

Spec == Init /\ [][Next]_vars /\ WF_vars(Session)

-----------------------------------------------------------------------------
(* Properties.                                                             *)

\* How many messages the peer sent before its first keep-alive.
BeforeKeepAlive ==
  CHOOSE k \in 0 .. Len(sent) :
    /\ \A j \in 1 .. k : sent[j] # KeepAlive
    /\ k < Len(sent) => sent[k + 1] = KeepAlive

\* Until the peer sends a keep-alive, receive() returns its messages, whole and
\* in order (Message.cpp:74-119), behind a handshake of which every byte is
\* read (141-143).
Framing == INSTANCE Channel WITH
  Elements <- PeerMessages,
  sent <- SubSeq(sent, 1, BeforeKeepAlive),
  delivered <- SubSeq(received, 1,
    IF Len(received) < BeforeKeepAlive THEN Len(received) ELSE BeforeKeepAlive)
FramingSpec == Framing!Spec

\* A keep-alive is returned as a CHOKE the peer never sent, made of the first
\* byte of the next message (Message.cpp:81-103).
KeepAliveIsChoke ==
  LET k == BeforeKeepAlive + 1 IN
  k <= Len(sent) /\ k <= Len(received) =>
    received[k] = [length |-> 0, id |-> CHOKE, payload |-> <<>>]

\* As long as every async_send wrote its whole buffer, the peer takes the
\* client's messages as they were meant and is left waiting for no byte of them
\* (Message.cpp:45-72, 154-171).
RequestsIntact ==
  ~ short => IsPrefix(taken, asked) /\ (taken # asked => WholeMessage)

\* No read waits for ever, not even for a payload whose length was made of other
\* bytes after a keep-alive (Message.cpp:81-94, 141-143).
ReadsReturn ==
  /\ pc = "greet" ~> pc # "greet"
  /\ pc = "header" ~> pc # "header"
  /\ pc = "payload" ~> pc # "payload"

=============================================================================
