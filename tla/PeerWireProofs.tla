--------------------------- MODULE PeerWireProofs ---------------------------
(***************************************************************************)
(* Proofs about the two byte streams of a session, for every number of     *)
(* byte values, every set of a peer's messages and every way the writes    *)
(* are cut.                                                                *)
(***************************************************************************)
EXTENDS PeerWire, DivisionFacts, SequenceTheorems, TLAPS

-----------------------------------------------------------------------------
(* Numbers in four bytes.                                                  *)

LEMMA Products ==
  LET B == ByteValues IN
  /\ B \in Nat \ {0}
  /\ B * B \in Nat \ {0}
  /\ (B * B) * B \in Nat \ {0}
  /\ ((B * B) * B) * B \in Nat \ {0}
BY BytesAssumption DEF EMPTY

LEMMA Weights ==
  /\ Weight[1] = (ByteValues * ByteValues) * ByteValues
  /\ Weight[2] = ByteValues * ByteValues
  /\ Weight[3] = ByteValues
  /\ Weight[4] = 1
  /\ Wrap = ((ByteValues * ByteValues) * ByteValues) * ByteValues
BY BytesAssumption DEF Weight, Wrap

LEMMA FourBytesType ==
  ASSUME NEW n \in Nat
  PROVE  /\ FourBytes(n) \in Seq(Byte)
         /\ Len(FourBytes(n)) = 4
         /\ \A k \in 1 .. 4 : FourBytes(n)[k] = (n \div Weight[k]) % ByteValues
<1>1. \A k \in 1 .. 4 : Weight[k] \in Nat \ {0}
  BY Weights, Products
<1>2. \A k \in 1 .. 4 : (n \div Weight[k]) % ByteValues \in Byte
  <2>. TAKE k \in 1 .. 4
  <2>1. n \div Weight[k] \in Nat
    BY <1>1, Division
  <2>. QED  BY <2>1, Products, Division DEF Byte
<1>3. FourBytes(n) \in [1 .. 4 -> Byte]
  BY <1>2 DEF FourBytes
<1>. QED  BY <1>3 DEF FourBytes

\* Reading four bytes gives the number that was written.
LEMMA NumberOfFourBytes ==
  ASSUME NEW n \in Nat, n < Wrap
  PROVE  Number(FourBytes(n)) = n
<1>. DEFINE B == ByteValues
            q1 == n \div B
            q2 == q1 \div B
            q3 == q2 \div B
<1>1. /\ q1 \in Nat /\ n % B \in 0 .. B - 1 /\ n = B * q1 + (n % B)
      /\ q2 \in Nat /\ q1 % B \in 0 .. B - 1 /\ q1 = B * q2 + (q1 % B)
      /\ q3 \in Nat /\ q2 % B \in 0 .. B - 1 /\ q2 = B * q3 + (q2 % B)
  BY Division, Products
<1>2. n \div Weight[2] = q2 /\ n \div Weight[1] = q3
  <2>1. n \div (B * B) = q2
    BY DivisionTwice, Products
  <2>2. n \div ((B * B) * B) = q3
    <3>. DEFINE C == B * B
    <3>1. B \in Nat \ {0} /\ C \in Nat \ {0}
      BY Products
    <3>. HIDE DEF C
    <3>2. n \div (C * B) = (n \div C) \div B
      BY <3>1, DivisionTwice
    <3>. QED  BY <3>2, <2>1 DEF C
  <2>. QED  BY <2>1, <2>2, Weights
<1>3. n \div Weight[3] = q1 /\ n \div Weight[4] = n
  BY Weights
<1>4. q3 < B
  <2>. SUFFICES ASSUME q3 >= B PROVE FALSE
    BY <1>1, Products
  <2>. HIDE DEF q1, q2, q3
  <2>1. ((B * B) * B) * (q3 - B) >= 0
    BY <1>1, Products
  <2>2. ((B * B) * B) * (q3 - B) = ((B * B) * B) * q3 - Wrap
    BY <1>1, Products, Weights
  <2>3. B * q2 >= B * (B * q3) /\ B * q1 >= B * (B * q2)
    <3>1. B * q2 = B * (B * q3) + B * (q2 % B) /\ B * (q2 % B) >= 0
      BY <1>1, Products
    <3>2. B * q1 = B * (B * q2) + B * (q1 % B) /\ B * (q1 % B) >= 0
      BY <1>1, Products
    <3>. QED  BY <3>1, <3>2, <1>1, Products
  <2>4. B * (B * q2) >= ((B * B) * B) * q3
    <3>1. B * (B * q2) = B * (B * (B * q3)) + B * (B * (q2 % B)) /\ B * (B * (q2 % B)) >= 0
      BY <1>1, Products
    <3>. QED  BY <3>1, <1>1, Products
  <2>. QED  BY <2>1, <2>2, <2>3, <2>4, <1>1, Products, Weights
<1>5. q3 % B = q3
  <2>. HIDE DEF q3
  <2>1. q3 \in 0 .. B - 1 /\ B \in Nat \ {0}
    BY <1>1, <1>4, Products
  <2>. QED  BY <2>1, Unchanged
<1>. HIDE DEF q1, q2, q3
<1>6. Number(FourBytes(n)) = q3 * Weight[1] + (q2 % B) * Weight[2] + (q1 % B) * Weight[3] + (n % B)
  BY <1>2, <1>3, <1>5, FourBytesType DEF Number
<1>7. n = B * (B * (B * q3 + (q2 % B)) + (q1 % B)) + (n % B)
  BY <1>1
<1>8. B * (B * (B * q3 + (q2 % B)) + (q1 % B)) = ((B * B) * B) * q3 + (B * B) * (q2 % B) + B * (q1 % B)
  BY <1>1, Products
<1>. QED  BY <1>1, <1>6, <1>7, <1>8, Products, Weights

-----------------------------------------------------------------------------
(* Bytes side by side.                                                     *)

LEMMA Joined ==
  ASSUME NEW s \in Seq(Byte), NEW t \in Seq(Byte)
  PROVE  /\ s \o t \in Seq(Byte)
         /\ Len(s) \in Nat /\ Len(t) \in Nat
         /\ Len(s \o t) = Len(s) + Len(t)
         /\ \A i \in 1 .. Len(s) : (s \o t)[i] = s[i]
         /\ \A i \in 1 .. Len(t) : (s \o t)[Len(s) + i] = t[i]
<1>. DEFINE st == s \o t
<1>1. /\ st \in Seq(Byte) /\ Len(st) = Len(s) + Len(t)
      /\ \A i \in 1 .. Len(s) + Len(t) : st[i] = IF i <= Len(s) THEN s[i] ELSE t[i - Len(s)]
  BY ConcatProperties
<1>2. Len(s) \in Nat /\ Len(t) \in Nat
  BY LenProperties
<1>. HIDE DEF st
<1>3. \A i \in 1 .. Len(s) : st[i] = s[i]
  BY <1>1, <1>2
<1>4. \A i \in 1 .. Len(t) : st[Len(s) + i] = t[i]
  <2>. TAKE i \in 1 .. Len(t)
  <2>. DEFINE p == Len(s) + i
  <2>1. p \in 1 .. Len(s) + Len(t) /\ ~ (p <= Len(s)) /\ p - Len(s) = i
    BY <1>2
  <2>. HIDE DEF p
  <2>2. st[p] = t[p - Len(s)]
    BY <1>1, <2>1
  <2>. QED  BY <2>1, <2>2 DEF p
<1>. QED  BY <1>1, <1>2, <1>3, <1>4 DEF st

\* st is s, which has n bytes, and then t.
IsJoined(st, s, n, t) ==
  /\ st \in Seq(Byte) /\ Len(st) = n + Len(t)
  /\ \A i \in 1 .. n : st[i] = s[i]
  /\ \A i \in 1 .. Len(t) : st[n + i] = t[i]

LEMMA JoinedAfter ==
  ASSUME NEW s \in Seq(Byte), NEW t \in Seq(Byte), NEW n \in Nat, n = Len(s)
  PROVE  IsJoined(s \o t, s, n, t)
BY Joined DEF IsJoined

\* What is left of bytes, or cut out of them.
LEMMA CutOut ==
  ASSUME NEW s \in Seq(Byte), NEW j \in 0 .. Len(s), NEW k \in j .. Len(s)
  PROVE  LET c == SubSeq(s, j + 1, k) IN
         /\ c \in Seq(Byte) /\ Len(c) = k - j
         /\ \A i \in 1 .. k - j : c[i] = s[j + i]
<1>1. Len(s) \in Nat
  BY LenProperties
<1>2. \A i \in j + 1 .. k : s[i] \in Byte
  BY <1>1, ElementOfSeq
<1>3. /\ SubSeq(s, j + 1, k) \in Seq(Byte)
      /\ Len(SubSeq(s, j + 1, k)) = IF j + 1 <= k THEN k - (j + 1) + 1 ELSE 0
      /\ \A i \in 1 .. k - (j + 1) + 1 : SubSeq(s, j + 1, k)[i] = s[j + 1 + i - 1]
  BY <1>1, <1>2, SubSeqProperties
<1>. QED  BY <1>1, <1>3

-----------------------------------------------------------------------------
(* Streams of frames.  at[j] is where the j-th frame of a stream begins: 0 *)
(* when it is the next byte, negative when it has been read.  A byte of a  *)
(* frame that has not been read yet is still in the stream.                *)

Stands(at, bytes, n, frame) ==
  /\ at \in [1 .. n + 1 -> Int]
  /\ at[n + 1] = Len(bytes)
  /\ \A j \in 1 .. n :
       /\ at[j + 1] = at[j] + Len(frame[j])
       /\ at[j + 1] <= Len(bytes)
       /\ \A i \in 1 .. Len(frame[j]) : at[j] + i >= 1 => bytes[at[j] + i] = frame[j][i]

\* A frame more of that length, and k bytes less.
Extended(at, n, length) == [j \in 1 .. n + 2 |-> IF j <= n + 1 THEN at[j] ELSE at[n + 1] + length]
Shifted(at, n, k) == [j \in 1 .. n + 1 |-> at[j] - k]

LEMMA StandsAppend ==
  ASSUME NEW bytes \in Seq(Byte), NEW n \in Nat, NEW frame \in [1 .. n -> Seq(Byte)],
         NEW at, Stands(at, bytes, n, frame),
         NEW longer \in [1 .. n + 1 -> Seq(Byte)], \A j \in 1 .. n : longer[j] = frame[j]
  PROVE  Stands(Extended(at, n, Len(longer[n + 1])), bytes \o longer[n + 1], n + 1, longer)
<1>. DEFINE last == longer[n + 1]
            all == bytes \o last
            to == Extended(at, n, Len(last))
<1>1. last \in Seq(Byte) /\ Len(last) \in Nat /\ Len(bytes) \in Nat
  BY LenProperties
<1>2. /\ Len(all) = Len(bytes) + Len(last)
      /\ \A i \in 1 .. Len(bytes) : all[i] = bytes[i]
      /\ \A i \in 1 .. Len(last) : all[Len(bytes) + i] = last[i]
  BY <1>1, Joined
<1>3. at \in [1 .. n + 1 -> Int] /\ at[n + 1] = Len(bytes)
  BY DEF Stands
<1>4. to \in [1 .. n + 2 -> Int] /\ to[n + 2] = Len(all) /\ \A j \in 1 .. n + 1 : to[j] = at[j]
  BY <1>1, <1>2, <1>3 DEF Extended
<1>. HIDE DEF to, all, last
<1>5. ASSUME NEW j \in 1 .. n
      PROVE  /\ to[j + 1] = to[j] + Len(longer[j])
             /\ to[j + 1] <= Len(all)
             /\ \A i \in 1 .. Len(longer[j]) : to[j] + i >= 1 => all[to[j] + i] = longer[j][i]
  <2>1. to[j + 1] = at[j + 1] /\ to[j] = at[j] /\ longer[j] = frame[j] /\ Len(frame[j]) \in Nat
    BY <1>4, LenProperties
  <2>2. /\ at[j + 1] = at[j] + Len(frame[j])
        /\ at[j + 1] <= Len(bytes)
        /\ \A i \in 1 .. Len(frame[j]) : at[j] + i >= 1 => bytes[at[j] + i] = frame[j][i]
    BY DEF Stands
  <2>3. ASSUME NEW i \in 1 .. Len(frame[j]), at[j] + i >= 1
        PROVE  all[at[j] + i] = frame[j][i]
    <3>. DEFINE p == at[j] + i
    <3>1. p \in 1 .. Len(bytes)
      BY <1>1, <1>3, <2>1, <2>2, <2>3, SMTT(30)
    <3>2. bytes[p] = frame[j][i]
      BY <2>2, <2>3
    <3>. HIDE DEF p
    <3>3. all[p] = bytes[p]
      BY <1>1, <1>2, <3>1
    <3>. QED  BY <3>2, <3>3 DEF p
  <2>4. at[j] \in Int /\ at[j + 1] \in Int
    BY <1>3
  <2>5. to[j + 1] = to[j] + Len(longer[j])
    BY <2>1, <2>2
  <2>6. to[j + 1] <= Len(all)
    <3>1. Len(all) \in Int /\ Len(bytes) \in Int /\ Len(bytes) <= Len(all)
      BY <1>1, <1>2
    <3>2. at[j + 1] <= Len(bytes)
      BY <2>2
    <3>3. at[j + 1] <= Len(all)
      BY <2>4, <3>1, <3>2
    <3>. QED  BY <2>1, <3>3
  <2>7. \A i \in 1 .. Len(longer[j]) : to[j] + i >= 1 => all[to[j] + i] = longer[j][i]
    BY <2>1, <2>3
  <2>. QED  BY <2>5, <2>6, <2>7
<1>6. /\ to[n + 2] = to[n + 1] + Len(longer[n + 1])
      /\ to[n + 2] <= Len(all)
      /\ \A i \in 1 .. Len(longer[n + 1]) : all[to[n + 1] + i] = longer[n + 1][i]
  <2>1. to[n + 1] = Len(bytes) /\ to[n + 2] = Len(bytes) + Len(last)
    BY <1>2, <1>3, <1>4
  <2>. QED  BY <1>1, <1>2, <2>1 DEF last
<1>7. Stands(to, all, n + 1, longer)
  <2>1. \A j \in 1 .. n + 1 :
          /\ to[j + 1] = to[j] + Len(longer[j])
          /\ to[j + 1] <= Len(all)
          /\ \A i \in 1 .. Len(longer[j]) : to[j] + i >= 1 => all[to[j] + i] = longer[j][i]
    <3>. TAKE j \in 1 .. n + 1
    <3>1. CASE j \in 1 .. n
      BY <3>1, <1>5
    <3>2. CASE j = n + 1
      BY <3>2, <1>6
    <3>. QED  BY <3>1, <3>2
  <2>. QED  BY <1>4, <2>1 DEF Stands
<1>. QED  BY <1>7 DEF to, all, last

LEMMA StandsDrop ==
  ASSUME NEW bytes \in Seq(Byte), NEW n \in Nat, NEW frame \in [1 .. n -> Seq(Byte)],
         NEW at, Stands(at, bytes, n, frame),
         NEW k \in 0 .. Len(bytes)
  PROVE  Stands(Shifted(at, n, k), Drop(bytes, k), n, frame)
<1>. DEFINE rest == Drop(bytes, k)
            to == Shifted(at, n, k)
<1>1. Len(bytes) \in Nat /\ at \in [1 .. n + 1 -> Int] /\ at[n + 1] = Len(bytes)
  BY LenProperties DEF Stands
<1>2. Len(rest) = Len(bytes) - k /\ \A i \in 1 .. Len(bytes) - k : rest[i] = bytes[k + i]
  BY <1>1, CutOut DEF Drop
<1>3. to \in [1 .. n + 1 -> Int] /\ \A j \in 1 .. n + 1 : to[j] = at[j] - k
  BY <1>1 DEF Shifted
<1>. HIDE DEF to, rest
<1>4. ASSUME NEW j \in 1 .. n
      PROVE  /\ to[j + 1] = to[j] + Len(frame[j])
             /\ to[j + 1] <= Len(rest)
             /\ \A i \in 1 .. Len(frame[j]) : to[j] + i >= 1 => rest[to[j] + i] = frame[j][i]
  <2>0. at[j] \in Int /\ at[j + 1] \in Int
    BY <1>1
  <2>1. to[j + 1] = at[j + 1] - k /\ to[j] = at[j] - k /\ Len(frame[j]) \in Nat
    BY <1>3, LenProperties
  <2>2. /\ at[j + 1] = at[j] + Len(frame[j])
        /\ at[j + 1] <= Len(bytes)
        /\ \A i \in 1 .. Len(frame[j]) : at[j] + i >= 1 => bytes[at[j] + i] = frame[j][i]
    BY DEF Stands
  <2>3. ASSUME NEW i \in 1 .. Len(frame[j]), to[j] + i >= 1
        PROVE  rest[to[j] + i] = frame[j][i]
    <3>. DEFINE p == to[j] + i
    <3>0. k + p = at[j] + i /\ p \in Int /\ p >= 1 /\ i \in Int /\ k \in Nat
      BY <1>1, <2>0, <2>1, <2>3
    <3>. HIDE DEF p
    <3>1. p \in 1 .. Len(bytes) - k
      <4>1. at[j] + i <= at[j + 1] /\ at[j + 1] <= Len(bytes) /\ Len(bytes) \in Nat
        BY <1>1, <2>0, <2>1, <2>2
      <4>2. k + p <= Len(bytes)
        BY <2>0, <3>0, <4>1
      <4>. QED  BY <3>0, <4>1, <4>2
    <3>2. bytes[k + p] = frame[j][i]
      <4>1. at[j] + i >= 1
        BY <3>0
      <4>. QED  BY <2>2, <3>0, <4>1
    <3>3. rest[p] = bytes[k + p]
      BY <1>2, <3>1
    <3>. QED  BY <3>2, <3>3 DEF p
  <2>4. to[j + 1] = to[j] + Len(frame[j])
    BY <2>0, <2>1, <2>2
  <2>5. to[j + 1] <= Len(rest)
    <3>1. Len(rest) = Len(bytes) - k /\ Len(bytes) \in Int /\ k \in Int
      BY <1>1, <1>2
    <3>2. at[j + 1] <= Len(bytes)
      BY <2>2
    <3>3. at[j + 1] - k <= Len(bytes) - k
      BY <2>0, <3>1, <3>2
    <3>. QED  BY <2>1, <3>1, <3>3
  <2>. QED  BY <2>3, <2>4, <2>5
<1>5. Stands(to, rest, n, frame)
  BY <1>1, <1>2, <1>3, <1>4 DEF Stands
<1>. QED  BY <1>5 DEF to, rest

\* The frame that comes next is there as a whole.
StartsWith(bytes, f) ==
  /\ Len(f) \in Nat /\ Len(f) <= Len(bytes)
  /\ \A i \in 1 .. Len(f) : bytes[i] = f[i]

LEMMA NextFrame ==
  ASSUME NEW bytes \in Seq(Byte), NEW n \in Nat, NEW frame \in [1 .. n -> Seq(Byte)],
         NEW at, Stands(at, bytes, n, frame),
         NEW k \in 1 .. n, at[k] = 0
  PROVE  at[k + 1] = Len(frame[k]) /\ StartsWith(bytes, frame[k])
<1>1. Len(frame[k]) \in Nat
  BY LenProperties
<1>2. /\ at[k + 1] = at[k] + Len(frame[k])
      /\ at[k + 1] <= Len(bytes)
      /\ \A i \in 1 .. Len(frame[k]) : at[k] + i >= 1 => bytes[at[k] + i] = frame[k][i]
  BY DEF Stands
<1>3. at[k + 1] = Len(frame[k])
  BY <1>1, <1>2
<1>4. ASSUME NEW i \in 1 .. Len(frame[k]) PROVE bytes[i] = frame[k][i]
  <2>1. at[k] + i = i /\ i >= 1
    BY <1>1
  <2>. QED  BY <1>2, <2>1
<1>. QED  BY <1>1, <1>2, <1>3, <1>4 DEF StartsWith

-----------------------------------------------------------------------------
(* Messages as bytes.                                                      *)

\* A length, an id and the rest, as both sides frame a message.
IsFrame(f, n, d, p) ==
  /\ f \in Seq(Byte) /\ Len(p) \in Nat /\ Len(f) = 5 + Len(p)
  /\ \A i \in 1 .. 4 : f[i] = FourBytes(n)[i]
  /\ f[5] = d
  /\ \A i \in 1 .. Len(p) : f[5 + i] = p[i]

LEMMA FrameOf ==
  ASSUME NEW n \in Nat, NEW d \in Byte, NEW p \in Seq(Byte)
  PROVE  IsFrame(FourBytes(n) \o <<d>> \o p, n, d, p)
<1>. DEFINE four == FourBytes(n)
            id == <<d>>
            head == four \o id
<1>1. four \in Seq(Byte) /\ 4 \in Nat /\ 4 = Len(four)
  BY FourBytesType
<1>2. id \in Seq(Byte) /\ Len(id) = 1 /\ id[1] = d
  OBVIOUS
<1>. HIDE DEF four, id
<1>3. IsJoined(head, four, 4, id)
  BY <1>1, <1>2, JoinedAfter, Zenon
<1>4. \A i \in 1 .. 4 : head[i] = four[i]
  BY <1>3, Zenon DEF IsJoined
<1>5. \A i \in 1 .. Len(id) : head[4 + i] = id[i]
  BY <1>3, Zenon DEF IsJoined
<1>6. head[5] = d
  <2>1. 1 \in 1 .. Len(id) /\ 4 + 1 = 5
    BY <1>2
  <2>2. head[4 + 1] = id[1]
    BY <1>5, <2>1, Zenon
  <2>. QED  BY <1>2, <2>1, <2>2, Zenon
<1>. HIDE DEF head
<1>7. head \in Seq(Byte) /\ 5 \in Nat /\ 5 = Len(head)
  BY <1>2, <1>3 DEF IsJoined
<1>. DEFINE f == head \o p
<1>. HIDE DEF f
<1>8. IsJoined(f, head, 5, p)
  BY <1>7, JoinedAfter, Zenon DEF f
<1>9. \A i \in 1 .. 5 : f[i] = head[i]
  BY <1>8, Zenon DEF IsJoined
<1>10. \A i \in 1 .. Len(p) : f[5 + i] = p[i]
  BY <1>8, Zenon DEF IsJoined
<1>11. Len(p) \in Nat
  BY LenProperties
<1>12. (\A i \in 1 .. 4 : f[i] = four[i]) /\ f[5] = d
  BY <1>4, <1>6, <1>9
<1>. QED  BY <1>8, <1>10, <1>11, <1>12, Zenon DEF f, head, four, id, IsFrame, IsJoined

-----------------------------------------------------------------------------
(* The peer's messages as bytes.                                           *)

\* The first byte of every message is zero.
LEMMA FramedFacts ==
  ASSUME NEW m \in PeerMessages
  PROVE  /\ m.length \in Nat
         /\ Framed(m) \in Seq(Byte)
         /\ Len(Framed(m)) = 4 + m.length
         /\ \A i \in 1 .. 4 : Framed(m)[i] = FourBytes(m.length)[i]
         /\ Framed(m)[1] = 0
         /\ Number(FourBytes(m.length)) = m.length
         /\ AsInt(FourBytes(m.length)) = m.length
         /\ m = KeepAlive <=> m.length = 0
         /\ m # KeepAlive =>
              /\ m \in [length : Nat, id : Byte, payload : Seq(Byte)]
              /\ Framed(m)[5] = m.id
              /\ Len(m.payload) = m.length - 1
              /\ \A i \in 1 .. m.length - 1 : Framed(m)[5 + i] = m.payload[i]
<1>. DEFINE B3 == (ByteValues * ByteValues) * ByteValues
            four == FourBytes(m.length)
<1>1. /\ m.length \in Nat /\ m.length < B3 /\ B3 \in Nat \ {0}
      /\ m = KeepAlive <=> m.length = 0
      /\ m # KeepAlive => /\ m \in [length : Nat, id : Byte, payload : Seq(Byte)]
                          /\ m.length = 1 + Len(m.payload)
                          /\ Len(m.payload) \in Nat
  <2>1. CASE m = KeepAlive
    BY <2>1, Products DEF KeepAlive
  <2>2. CASE m # KeepAlive
    <3>1. /\ m \in [length : Nat, id : Byte, payload : Seq(Byte)]
          /\ m.length = 1 + Len(m.payload)
          /\ m.length < ByteValues * ByteValues * ByteValues
      BY <2>2, MessagesAssumption
    <3>2. m.payload \in Seq(Byte) /\ Len(m.payload) \in Nat
      BY <3>1, LenProperties
    <3>. QED  BY <2>2, <3>1, <3>2, Products
  <2>. QED  BY <2>1, <2>2
<1>2. four \in Seq(Byte) /\ Len(four) = 4
  BY <1>1, FourBytesType
<1>3. m.length < Wrap /\ m.length < Wrap \div 2
  <2>1. ByteValues \in Nat /\ ByteValues >= 2
    BY BytesAssumption DEF EMPTY
  <2>2. Wrap = B3 * ByteValues
    BY Weights
  <2>. HIDE DEF B3
  <2>3. B3 * ByteValues = 2 * B3 + B3 * (ByteValues - 2) /\ B3 * (ByteValues - 2) >= 0
    BY <1>1, <2>1
  <2>4. Wrap \in Nat /\ Wrap >= 2 * B3
    BY <1>1, <2>1, <2>2, <2>3
  <2>. QED  BY <1>1, <2>4
<1>4. Number(four) = m.length /\ AsInt(four) = m.length
  BY <1>1, <1>3, NumberOfFourBytes DEF AsInt
<1>5. four[1] = 0
  <2>1. m.length \in 0 .. B3 - 1
    BY <1>1
  <2>. HIDE DEF B3
  <2>2. m.length \div B3 = 0
    BY <1>1, <2>1, Unchanged
  <2>3. 0 % ByteValues = 0
    BY Products
  <2>. QED  BY <1>1, <2>2, <2>3, FourBytesType, Weights DEF B3
<1>6. CASE m = KeepAlive
  <2>1. Framed(m) = FourBytes(0) /\ m.length = 0
    BY <1>1, <1>6 DEF Framed
  <2>. QED  BY <1>1, <1>2, <1>4, <1>5, <1>6, <2>1
<1>7. CASE m # KeepAlive
  <2>. DEFINE id == m.id
              p == m.payload
              n == m.length
  <2>1. Framed(m) = FourBytes(n) \o <<id>> \o p
    BY <1>7 DEF Framed
  <2>2. id \in Byte /\ p \in Seq(Byte) /\ n \in Nat
    BY <1>1, <1>7
  <2>. HIDE DEF id, p, n
  <2>3. IsFrame(Framed(m), n, id, p)
    BY <2>1, <2>2, FrameOf
  <2>. QED  BY <1>1, <1>4, <1>5, <1>7, <2>3 DEF IsFrame, id, p, n
<1>. QED  BY <1>6, <1>7

-----------------------------------------------------------------------------
(* The client's messages as bytes.                                         *)

Asked == {Interested} \cup {Request(ask) : ask \in Asks}

LEMMA AsksNumbers ==
  /\ BlockSize \in Nat /\ BlockSize < Wrap
  /\ \A ask \in Asks : /\ ask.index \in Nat /\ ask.index < Wrap
                       /\ ask.begin \in Nat /\ ask.begin < Wrap
BY AsksAssumption, BytesAssumption, Weights

IsPayload(p, a, b) ==
  /\ p \in Seq(Byte) /\ Len(p) = 12
  /\ \A i \in 1 .. 4 : /\ p[i] = FourBytes(a)[i]
                      /\ p[4 + i] = FourBytes(b)[i]
                      /\ p[8 + i] = FourBytes(BlockSize)[i]

LEMMA RequestPayload ==
  ASSUME NEW a \in Nat, NEW b \in Nat
  PROVE  IsPayload(makeRequestPayload(a, b), a, b)
<1>. DEFINE A == FourBytes(a)
            C == FourBytes(b)
            D == FourBytes(BlockSize)
<1>1. /\ A \in Seq(Byte) /\ Len(A) = 4 /\ C \in Seq(Byte) /\ Len(C) = 4
      /\ D \in Seq(Byte) /\ Len(D) = 4
  BY FourBytesType, AsksNumbers
<1>2. makeRequestPayload(a, b) = (A \o C) \o D
  BY DEF makeRequestPayload
<1>. HIDE DEF A, C, D
<1>. DEFINE AC == A \o C
            ACD == AC \o D
<1>3. A \in Seq(Byte) /\ C \in Seq(Byte) /\ 4 \in Nat /\ 4 = Len(A)
  BY <1>1
<1>. HIDE DEF AC
<1>4. IsJoined(AC, A, 4, C)
  BY <1>3, JoinedAfter, Zenon DEF AC
<1>5. AC \in Seq(Byte) /\ Len(AC) = 8
  BY <1>1, <1>4 DEF IsJoined
<1>6. \A i \in 1 .. 4 : AC[i] = A[i] /\ AC[4 + i] = C[i]
  BY <1>1, <1>4 DEF IsJoined
<1>7. AC \in Seq(Byte) /\ D \in Seq(Byte) /\ 8 \in Nat /\ 8 = Len(AC)
  BY <1>1, <1>5
<1>. HIDE DEF ACD
<1>8. IsJoined(ACD, AC, 8, D)
  BY <1>7, JoinedAfter, Zenon DEF ACD
<1>9. ACD \in Seq(Byte) /\ Len(ACD) = 12
  BY <1>1, <1>8 DEF IsJoined
<1>10. \A i \in 1 .. 4 : ACD[i] = A[i] /\ ACD[4 + i] = C[i] /\ ACD[8 + i] = D[i]
  BY <1>1, <1>6, <1>8 DEF IsJoined
<1>11. makeRequestPayload(a, b) = ACD
  BY <1>2 DEF AC, ACD
<1>. QED  BY <1>9, <1>10, <1>11 DEF A, C, D, IsPayload

\* The number of bytes behind the length.
BodyOf(m) == 1 + Len(Payload(m))

LEMMA BufferFacts ==
  ASSUME NEW m \in Asked
  PROVE  /\ BodyOf(m) \in Nat \ {0}
         /\ SendBuffer(m) \in Seq(Byte)
         /\ Len(SendBuffer(m)) = 4 + BodyOf(m)
         /\ \A i \in 1 .. 4 : SendBuffer(m)[i] = FourBytes(BodyOf(m))[i]
         /\ SendBuffer(m)[5] = m.id
         /\ m.id \in Byte
         /\ m = Interested => BodyOf(m) = 1
         /\ \A ask \in Asks : m = Request(ask) =>
              /\ BodyOf(m) = 13
              /\ \A i \in 1 .. 4 :
                   /\ SendBuffer(m)[5 + i] = FourBytes(ask.index)[i]
                   /\ SendBuffer(m)[9 + i] = FourBytes(ask.begin)[i]
                   /\ SendBuffer(m)[13 + i] = FourBytes(BlockSize)[i]
<1>0. INTERESTED \in Byte /\ REQUEST \in Byte
  BY BytesAssumption DEF INTERESTED, REQUEST, EMPTY, Byte
<1>1. CASE m = Interested
  <2>. DEFINE p == [k \in 1 .. 0 |-> 0]
  <2>1. Payload(m) = <<>> /\ m.id = INTERESTED /\ BodyOf(m) = 1
    BY <1>1 DEF Payload, Interested, INTERESTED, REQUEST, BodyOf
  <2>2. SendBuffer(m) = FourBytes(1) \o <<m.id>> \o p
    BY <2>1 DEF SendBuffer, BodyOf
  <2>3. p \in Seq(Byte) /\ Len(p) = 0
    OBVIOUS
  <2>. HIDE DEF p
  <2>4. IsFrame(SendBuffer(m), 1, m.id, p)
    BY <1>0, <2>1, <2>2, <2>3, FrameOf
  <2>5. \A ask \in Asks : m # Request(ask)
    BY <1>1 DEF Interested, Request, INTERESTED, REQUEST
  <2>. QED  BY <1>0, <2>1, <2>3, <2>4, <2>5 DEF IsFrame
<1>2. ASSUME NEW ask \in Asks, m = Request(ask)
      PROVE  /\ BodyOf(m) = 13
             /\ m.id = REQUEST
             /\ SendBuffer(m) \in Seq(Byte)
             /\ Len(SendBuffer(m)) = 4 + BodyOf(m)
             /\ \A i \in 1 .. 4 : SendBuffer(m)[i] = FourBytes(BodyOf(m))[i]
             /\ SendBuffer(m)[5] = m.id
             /\ \A i \in 1 .. 4 :
                  /\ SendBuffer(m)[5 + i] = FourBytes(ask.index)[i]
                  /\ SendBuffer(m)[9 + i] = FourBytes(ask.begin)[i]
                  /\ SendBuffer(m)[13 + i] = FourBytes(BlockSize)[i]
  <2>. DEFINE p == Payload(m)
  <2>1. p = makeRequestPayload(ask.index, ask.begin) /\ m.id = REQUEST
    BY <1>2 DEF Payload, Request
  <2>2. IsPayload(p, ask.index, ask.begin)
    BY <2>1, AsksNumbers, RequestPayload
  <2>. USE DEF IsPayload
  <2>3. BodyOf(m) = 13
    BY <2>2 DEF BodyOf
  <2>4. SendBuffer(m) = FourBytes(13) \o <<m.id>> \o p
    BY <2>2 DEF SendBuffer
  <2>. HIDE DEF p
  <2>5. IsFrame(SendBuffer(m), 13, m.id, p)
    BY <1>0, <2>1, <2>2, <2>4, FrameOf
  <2>6. ASSUME NEW i \in 1 .. 4
        PROVE  /\ SendBuffer(m)[5 + i] = p[i]
               /\ SendBuffer(m)[9 + i] = p[4 + i]
               /\ SendBuffer(m)[13 + i] = p[8 + i]
    <3>1. \A k \in 1 .. 12 : SendBuffer(m)[5 + k] = p[k]
      BY <2>2, <2>5 DEF IsFrame
    <3>2. SendBuffer(m)[5 + (4 + i)] = p[4 + i] /\ SendBuffer(m)[5 + (8 + i)] = p[8 + i]
      BY <3>1
    <3>3. 5 + (4 + i) = 9 + i /\ 5 + (8 + i) = 13 + i
      OBVIOUS
    <3>. QED  BY <3>1, <3>2, <3>3
  <2>7. \A i \in 1 .. 4 : /\ SendBuffer(m)[5 + i] = FourBytes(ask.index)[i]
                          /\ SendBuffer(m)[9 + i] = FourBytes(ask.begin)[i]
                          /\ SendBuffer(m)[13 + i] = FourBytes(BlockSize)[i]
    BY <2>2, <2>6
  <2>8. /\ SendBuffer(m) \in Seq(Byte) /\ Len(SendBuffer(m)) = 4 + BodyOf(m)
        /\ SendBuffer(m)[5] = m.id
        /\ \A i \in 1 .. 4 : SendBuffer(m)[i] = FourBytes(BodyOf(m))[i]
    BY <2>2, <2>3, <2>5 DEF IsFrame
  <2>. QED  BY <2>1, <2>3, <2>7, <2>8, Zenon
<1>3. CASE \E ask \in Asks : m = Request(ask)
  <2>1. m # Interested
    BY <1>3 DEF Interested, Request, INTERESTED, REQUEST
  <2>2. PICK ask \in Asks : m = Request(ask)
    BY <1>3
  <2>3. BodyOf(m) = 13 /\ m.id = REQUEST /\ 13 \in Nat \ {0}
    BY <1>2, <2>2
  <2>4. /\ SendBuffer(m) \in Seq(Byte) /\ Len(SendBuffer(m)) = 4 + BodyOf(m)
        /\ SendBuffer(m)[5] = m.id
        /\ \A i \in 1 .. 4 : SendBuffer(m)[i] = FourBytes(BodyOf(m))[i]
    BY <1>2, <2>2, Zenon
  <2>. QED  BY <1>0, <1>2, <2>1, <2>3, <2>4, Zenon
<1>. QED  BY <1>1, <1>3 DEF Asked

LEMMA BodyNumber ==
  ASSUME NEW m \in Asked
  PROVE  Number(FourBytes(BodyOf(m))) = BodyOf(m)
<1>. DEFINE B3 == (ByteValues * ByteValues) * ByteValues
<1>1. ByteValues \in Nat /\ ByteValues > 9 /\ Wrap = B3 * ByteValues
  BY BytesAssumption, Weights DEF EMPTY
<1>2. B3 \in Nat /\ B3 >= 2
  BY <1>1, Products
<1>. HIDE DEF B3
<1>3. B3 * ByteValues = 2 * ByteValues + (B3 - 2) * ByteValues /\ (B3 - 2) * ByteValues >= 0
  BY <1>1, <1>2
<1>4. BodyOf(m) \in Nat /\ BodyOf(m) <= 13
  BY BufferFacts DEF Asked
<1>5. B3 * ByteValues > 13
  BY <1>1, <1>2, <1>3
<1>. QED  BY <1>1, <1>4, <1>5, NumberOfFourBytes

-----------------------------------------------------------------------------
(* Types.                                                                  *)

Received == [length : Int, id : Byte, payload : Seq(Byte)]

TypeOK ==
  /\ pc \in {"connect", "greet", "header", "payload", "turn", "closed", "failed"}
  /\ inbound \in Seq(Byte) /\ outbound \in Seq(Byte)
  /\ sent \in Seq(PeerMessages) /\ asked \in Seq(Asked)
  /\ received \in Seq(Received)
  /\ pc = "payload" => message \in Received /\ message.length > 1
  /\ short \in BOOLEAN

LEMMA TypeInit == Init => TypeOK
<1>. SUFFICES ASSUME Init PROVE TypeOK
  OBVIOUS
<1>1. /\ <<>> \in Seq(Byte) /\ <<>> \in Seq(PeerMessages) /\ <<>> \in Seq(Asked)
      /\ <<>> \in Seq(Received)
  BY EmptySeq
<1>. QED  BY <1>1 DEF Init, TypeOK

LEMMA NumberType ==
  ASSUME NEW s \in Seq(Byte), Len(s) >= 4
  PROVE  /\ Number(SubSeq(s, 1, 4)) \in Nat
         /\ AsInt(SubSeq(s, 1, 4)) \in Int
         /\ \A i \in 1 .. 4 : SubSeq(s, 1, 4)[i] = s[i]
<1>. DEFINE c == SubSeq(s, 1, 4)
<1>1. Len(s) \in Nat
  BY LenProperties
<1>2. /\ SubSeq(s, 0 + 1, 4) \in Seq(Byte)
      /\ Len(SubSeq(s, 0 + 1, 4)) = 4 - 0
      /\ \A i \in 1 .. 4 - 0 : SubSeq(s, 0 + 1, 4)[i] = s[0 + i]
  BY <1>1, CutOut
<1>3. c \in Seq(Byte) /\ Len(c) = 4 /\ \A i \in 1 .. 4 : c[i] = s[i]
  BY <1>2
<1>. HIDE DEF c
<1>4. \A i \in 1 .. 4 : c[i] \in Nat
  BY <1>3, ElementOfSeq, Products, SMTT(30) DEF Byte
<1>5. Number(c) \in Nat
  <2>1. \A i \in 1 .. 3 : Weight[i] \in Nat
    BY Weights, Products
  <2>2. \A i \in 1 .. 3 : c[i] * Weight[i] \in Nat
    BY <1>4, <2>1
  <2>3. c[1] * Weight[1] \in Nat /\ c[2] * Weight[2] \in Nat /\ c[3] * Weight[3] \in Nat
    BY <2>2
  <2>4. c[4] \in Nat
    BY <1>4
  <2>. QED  BY <2>3, <2>4 DEF Number
<1>6. Wrap \in Nat
  BY Weights, Products
<1>. QED  BY <1>3, <1>5, <1>6 DEF AsInt, c

LEMMA DropType ==
  ASSUME NEW s \in Seq(Byte), NEW n \in 0 .. Len(s)
  PROVE  Drop(s, n) \in Seq(Byte)
<1>1. Len(s) \in Nat
  BY LenProperties
<1>. QED  BY <1>1, CutOut DEF Drop

\* One step of send(): n bytes of the buffer are written.
LEMMA SendStep ==
  ASSUME NEW m \in Asked, Send(m), TypeOK
  PROVE  \E n \in 1 .. Len(SendBuffer(m)) :
           /\ outbound' = outbound \o SubSeq(SendBuffer(m), 1, n)
           /\ SubSeq(SendBuffer(m), 1, n) \in Seq(Byte)
           /\ outbound' \in Seq(Byte)
           /\ n = Len(SendBuffer(m)) => SubSeq(SendBuffer(m), 1, n) = SendBuffer(m)
           /\ short' = (short \/ n < Len(SendBuffer(m)))
<1>. DEFINE b == SendBuffer(m)
<1>1. b \in Seq(Byte) /\ Len(b) \in Nat
  BY BufferFacts, LenProperties
<1>2. PICK n \in 1 .. Len(b) : /\ outbound' = outbound \o SubSeq(b, 1, n)
                              /\ short' = (short \/ n < Len(b))
  BY DEF Send
<1>. HIDE DEF b
<1>3. SubSeq(b, 1, n) \in Seq(Byte)
  <2>1. n \in 0 .. Len(b) /\ SubSeq(b, 0 + 1, n) \in Seq(Byte)
    BY <1>1, <1>2, CutOut
  <2>. QED  BY <2>1
<1>4. outbound' \in Seq(Byte)
  BY <1>2, <1>3, Joined DEF TypeOK
<1>5. SubSeq(b, 1, Len(b)) = b
  BY <1>1, SubSeqFull
<1>. QED  BY <1>2, <1>3, <1>4, <1>5 DEF b

LEMMA GreetingType == Greeting \in Seq(Byte) /\ Len(Greeting) = HandshakeBytes
<1>1. 1 \in Byte
  BY BytesAssumption DEF EMPTY, Byte
<1>2. Greeting \in [1 .. HandshakeBytes -> Byte]
  BY <1>1 DEF Greeting
<1>. QED  BY <1>2, HandshakeAssumption DEF Greeting

\* What receive() makes of a header.
HeaderMessage == [length |-> AsInt(SubSeq(inbound, 1, 4)), id |-> inbound[5], payload |-> <<>>]

LEMMA HeaderStep ==
  ASSUME ReadHeader, TypeOK
  PROVE  /\ pc = "header" /\ Len(inbound) \in Nat /\ Len(inbound) >= 5
         /\ inbound' = Drop(inbound, 5)
         /\ HeaderMessage \in Received
         /\ \/ /\ HeaderMessage.length > 1
               /\ message' = HeaderMessage
               /\ pc' = "payload"
               /\ UNCHANGED received
            \/ ~ (HeaderMessage.length > 1) /\ Return(HeaderMessage)
         /\ UNCHANGED <<writing, sent, taken>>
<1>1. Len(inbound) \in Nat /\ Len(inbound) >= 5 /\ inbound \in Seq(Byte)
  BY LenProperties DEF ReadHeader, TypeOK
<1>2. AsInt(SubSeq(inbound, 1, 4)) \in Int
  BY <1>1, NumberType
<1>3. inbound[5] \in Byte
  BY <1>1, ElementOfSeq
<1>4. HeaderMessage \in Received
  BY <1>2, <1>3 DEF HeaderMessage, Received
<1>. QED  BY <1>1, <1>4 DEF ReadHeader, HeaderMessage, HeaderBytes, IdOf

LEMMA PayloadStep ==
  ASSUME ReadPayload, TypeOK
  PROVE  LET size == message.length - 1 IN
         /\ pc = "payload" /\ size \in 0 .. Len(inbound) /\ Len(inbound) \in Nat
         /\ inbound' = Drop(inbound, size)
         /\ message' = KeepAlive
         /\ [message EXCEPT !.payload = SubSeq(inbound, 1, size)] \in Received
         /\ Return([message EXCEPT !.payload = SubSeq(inbound, 1, size)])
         /\ UNCHANGED <<writing, sent, taken>>
<1>. DEFINE size == message.length - 1
<1>1. Len(inbound) \in Nat /\ Len(inbound) >= size /\ inbound \in Seq(Byte)
  BY LenProperties DEF ReadPayload, TypeOK
<1>2. message \in Received /\ message.length > 1
  BY DEF ReadPayload, TypeOK
<1>3. size \in 0 .. Len(inbound)
  BY <1>1, <1>2 DEF Received
<1>4. SubSeq(inbound, 1, size) \in Seq(Byte)
  <2>. HIDE DEF size
  <2>1. SubSeq(inbound, 0 + 1, size) \in Seq(Byte)
    BY <1>1, <1>3, CutOut
  <2>. QED  BY <2>1
<1>5. [message EXCEPT !.payload = SubSeq(inbound, 1, size)] \in Received
  BY <1>2, <1>4 DEF Received
<1>. QED  BY <1>1, <1>3, <1>5 DEF ReadPayload

LEMMA TypeStep == TypeOK /\ [Next]_vars => TypeOK'
<1>. SUFFICES ASSUME TypeOK, [Next]_vars PROVE TypeOK'
  OBVIOUS
<1>1. ASSUME NEW m \in PeerMessages, PeerSends(m) PROVE TypeOK'
  <2>1. inbound \o Framed(m) \in Seq(Byte)
    BY FramedFacts, Joined DEF TypeOK
  <2>. QED  BY <1>1, <2>1 DEF TypeOK, PeerSends, writing
<1>2. CASE PeerTakes
  <2>1. outbound \in Seq(Byte) /\ Len(outbound) \in Nat
    BY LenProperties DEF TypeOK
  <2>2. BodyLength \in Nat /\ 4 + BodyLength \in 0 .. Len(outbound)
    BY <1>2, <2>1, NumberType DEF PeerTakes, WholeMessage, BodyLength
  <2>3. Drop(outbound, 4 + BodyLength) \in Seq(Byte)
    BY <2>1, <2>2, DropType
  <2>. QED  BY <1>2, <2>3 DEF TypeOK, PeerTakes, reading
<1>3. CASE Open
  BY <1>3, GreetingType DEF Open, TypeOK, writing
<1>4. CASE Handshake
  <2>1. inbound \in Seq(Byte) /\ HandshakeBytes \in 0 .. Len(inbound)
    BY <1>4, HandshakeAssumption, LenProperties DEF Handshake, TypeOK
  <2>. QED  BY <1>4, <2>1, DropType DEF Handshake, TypeOK, writing
<1>5. CASE ReadHeader
  <2>1. Drop(inbound, 5) \in Seq(Byte)
    BY <1>5, HeaderStep, DropType DEF TypeOK
  <2>2. /\ HeaderMessage \in Received
        /\ inbound' \in Seq(Byte)
        /\ UNCHANGED <<outbound, short, asked, sent>>
    BY <1>5, <2>1, HeaderStep DEF writing
  <2>3. CASE message' = HeaderMessage /\ HeaderMessage.length > 1 /\ pc' = "payload" /\ UNCHANGED received
    BY <2>2, <2>3 DEF TypeOK
  <2>4. CASE Return(HeaderMessage)
    BY <2>2, <2>4 DEF TypeOK, Return
  <2>. QED  BY <1>5, <2>3, <2>4, HeaderStep
<1>6. CASE ReadPayload
  <2>1. inbound' \in Seq(Byte)
    BY <1>6, PayloadStep, DropType DEF TypeOK
  <2>2. PICK m \in Received : Return(m)
    BY <1>6, PayloadStep
  <2>3. UNCHANGED <<outbound, short, asked, sent>>
    BY <1>6 DEF ReadPayload, writing
  <2>. QED  BY <2>1, <2>2, <2>3 DEF TypeOK, Return
<1>7. ASSUME NEW m \in Asked, pc = "turn", Send(m) PROVE TypeOK'
  <2>1. outbound' \in Seq(Byte) /\ short' \in BOOLEAN
    BY <1>7, SendStep
  <2>. QED  BY <1>7, <2>1 DEF TypeOK, Send, reading
<1>8. CASE SendInterested
  BY <1>7, <1>8 DEF SendInterested, Asked
<1>9. CASE SendRequest
  BY <1>7, <1>9 DEF SendRequest, Asked
<1>10. CASE ReceiveNext \/ Close \/ Fail \/ UNCHANGED vars
  BY <1>10 DEF ReceiveNext, Close, Fail, vars, TypeOK, reading, writing
<1>. QED
  BY <1>1, <1>2, <1>3, <1>4, <1>5, <1>6, <1>8, <1>9, <1>10 DEF Next, Session

-----------------------------------------------------------------------------
(* What the client sends.                                                  *)

OutFrame == [j \in 1 .. Len(asked) |-> SendBuffer(asked[j])]

\* As long as no write was cut: the bytes on their way are the messages the
\* peer has not taken.
OutboundInv ==
  ~ short => \E at : \E n \in 0 .. Len(asked) :
    /\ Stands(at, outbound, Len(asked), OutFrame)
    /\ taken = SubSeq(asked, 1, n)
    /\ at[n + 1] = 0

LEMMA OutFrameType ==
  TypeOK => /\ Len(asked) \in Nat
            /\ OutFrame \in [1 .. Len(asked) -> Seq(Byte)]
            /\ \A j \in 1 .. Len(asked) : asked[j] \in Asked /\ OutFrame[j] = SendBuffer(asked[j])
<1>. SUFFICES ASSUME TypeOK
     PROVE /\ Len(asked) \in Nat
           /\ OutFrame \in [1 .. Len(asked) -> Seq(Byte)]
           /\ \A j \in 1 .. Len(asked) : asked[j] \in Asked /\ OutFrame[j] = SendBuffer(asked[j])
  OBVIOUS
<1>1. Len(asked) \in Nat /\ \A j \in 1 .. Len(asked) : asked[j] \in Asked
  BY LenProperties, ElementOfSeq DEF TypeOK
<1>2. \A j \in 1 .. Len(asked) : SendBuffer(asked[j]) \in Seq(Byte)
  BY <1>1, BufferFacts
<1>. QED  BY <1>1, <1>2 DEF OutFrame

\* The message that stands first in the bytes is the one the peer reads.
TakenMessage(n) ==
  LET body == SubSeq(outbound, 5, 4 + n)
      Field(k) == Number(SubSeq(body, 4 * k - 2, 4 * k + 1)) IN
  [id |-> Head(body), args |-> [k \in 1 .. (n - 1) \div 4 |-> Field(k)]]

LEMMA NumberOfBytes ==
  ASSUME NEW n \in Nat, n < Wrap, NEW c, \A i \in 1 .. 4 : c[i] = FourBytes(n)[i]
  PROVE  Number(c) = n
<1>1. Number(c) = Number(FourBytes(n))
  BY DEF Number
<1>. QED  BY <1>1, NumberOfFourBytes

LEMMA FirstTaken ==
  ASSUME NEW m \in Asked, outbound \in Seq(Byte),
         Len(outbound) >= 4 + BodyOf(m),
         \A i \in 1 .. 4 + BodyOf(m) : outbound[i] = SendBuffer(m)[i]
  PROVE  TakenMessage(BodyOf(m)) = m
<1>. DEFINE n == BodyOf(m)
            body == SubSeq(outbound, 5, 4 + n)
            Field(k) == Number(SubSeq(body, 4 * k - 2, 4 * k + 1))
<1>1. n \in Nat \ {0} /\ Len(outbound) \in Nat /\ SendBuffer(m)[5] = m.id
  BY BufferFacts, LenProperties
<1>2. body \in Seq(Byte) /\ Len(body) = n /\ \A i \in 1 .. n : body[i] = SendBuffer(m)[4 + i]
  <2>. HIDE DEF n
  <2>1. 4 \in 0 .. Len(outbound) /\ 4 + n \in 4 .. Len(outbound)
    BY <1>1 DEF n
  <2>. DEFINE e == 4 + n
              c == SubSeq(outbound, 4 + 1, e)
  <2>2. c \in Seq(Byte) /\ Len(c) = e - 4 /\ \A i \in 1 .. e - 4 : c[i] = outbound[4 + i]
    <3>0. 4 \in 0 .. Len(outbound) /\ e \in 4 .. Len(outbound)
      BY <2>1
    <3>. HIDE DEF e
    <3>1. c \in Seq(Byte)
      BY <3>0, CutOut
    <3>2. Len(c) = e - 4
      BY <3>0, CutOut
    <3>3. \A i \in 1 .. e - 4 : c[i] = outbound[4 + i]
      BY <3>0, CutOut
    <3>. QED  BY <3>1, <3>2, <3>3
  <2>3. body \in Seq(Byte) /\ Len(body) = n /\ \A i \in 1 .. n : body[i] = outbound[4 + i]
    BY <1>1, <2>2
  <2>. HIDE DEF body
  <2>4. \A i \in 1 .. n : outbound[4 + i] = SendBuffer(m)[4 + i]
    BY <1>1 DEF n
  <2>. QED  BY <2>3, <2>4
<1>. HIDE DEF body
<1>3. Head(body) = m.id
  <2>1. body[1] = SendBuffer(m)[4 + 1]
    BY <1>1, <1>2
  <2>. QED  BY <1>1, <1>2, <2>1
<1>4. CASE m = Interested
  <2>1. n = 1
    BY <1>4, BufferFacts
  <2>. HIDE DEF n
  <2>2. TakenMessage(n) = [id |-> Head(body), args |-> [k \in 1 .. (n - 1) \div 4 |-> Field(k)]]
    BY DEF TakenMessage, body
  <2>. HIDE DEF Field
  <2>3. [k \in 1 .. (n - 1) \div 4 |-> Field(k)] = <<>>
    BY <2>1
  <2>. QED  BY <1>3, <1>4, <2>2, <2>3 DEF Interested, n
<1>5. ASSUME NEW ask \in Asks, m = Request(ask) PROVE TakenMessage(n) = m
  <2>1. /\ n = 13
        /\ \A i \in 1 .. 4 : /\ SendBuffer(m)[5 + i] = FourBytes(ask.index)[i]
                            /\ SendBuffer(m)[9 + i] = FourBytes(ask.begin)[i]
                            /\ SendBuffer(m)[13 + i] = FourBytes(BlockSize)[i]
    BY <1>5, BufferFacts
  <2>. HIDE DEF n
  <2>2. TakenMessage(n) = [id |-> Head(body), args |-> [k \in 1 .. (n - 1) \div 4 |-> Field(k)]]
    BY DEF TakenMessage, body
  <2>3. ASSUME NEW k \in 1 .. 3
        PROVE  \A i \in 1 .. 4 : SubSeq(body, 4 * k - 2, 4 * k + 1)[i] = SendBuffer(m)[4 * k + 1 + i]
    <3>. DEFINE j == 4 * k - 3
    <3>1. j \in 0 .. Len(body) /\ j + 4 \in j .. Len(body) /\ j + 1 = 4 * k - 2 /\ j + 4 = 4 * k + 1
      BY <1>2, <2>1
    <3>. DEFINE e == j + 4
                c == SubSeq(body, j + 1, e)
    <3>. HIDE DEF j
    <3>2. \A i \in 1 .. 4 : c[i] = body[j + i]
      <4>1. j \in 0 .. Len(body) /\ e \in j .. Len(body) /\ e - j = 4
        BY <3>1, <1>2
      <4>. HIDE DEF e
      <4>2. \A i \in 1 .. e - j : c[i] = body[j + i]
        BY <1>2, <4>1, CutOut
      <4>. QED  BY <4>1, <4>2
    <3>0. c = SubSeq(body, 4 * k - 2, 4 * k + 1)
      BY <3>1
    <3>3. ASSUME NEW i \in 1 .. 4 PROVE body[j + i] = SendBuffer(m)[4 * k + 1 + i]
      <4>. DEFINE q == j + i
      <4>1. q \in 1 .. n /\ 4 + q = 4 * k + 1 + i
        BY <2>1, <3>1, SMTT(30)
      <4>. HIDE DEF q
      <4>2. body[q] = SendBuffer(m)[4 + q]
        BY <1>2, <4>1
      <4>. QED  BY <4>1, <4>2 DEF q
    <3>. HIDE DEF c
    <3>4. \A i \in 1 .. 4 : c[i] = SendBuffer(m)[4 * k + 1 + i]
      BY <3>2, <3>3
    <3>. QED  BY <3>0, <3>4
  <2>4. Field(1) = ask.index /\ Field(2) = ask.begin /\ Field(3) = BlockSize
    <3>1. \A i \in 1 .. 4 : SubSeq(body, 4 * 1 - 2, 4 * 1 + 1)[i] = FourBytes(ask.index)[i]
      BY <2>1, <2>3, SMTT(30)
    <3>2. \A i \in 1 .. 4 : SubSeq(body, 4 * 2 - 2, 4 * 2 + 1)[i] = FourBytes(ask.begin)[i]
      BY <2>1, <2>3, SMTT(30)
    <3>3. \A i \in 1 .. 4 : SubSeq(body, 4 * 3 - 2, 4 * 3 + 1)[i] = FourBytes(BlockSize)[i]
      BY <2>1, <2>3, SMTT(30)
    <3>. QED  BY <3>1, <3>2, <3>3, AsksNumbers, NumberOfBytes
  <2>. HIDE DEF Field
  <2>5. [k \in 1 .. (n - 1) \div 4 |-> Field(k)] = <<ask.index, ask.begin, BlockSize>>
    BY <2>1, <2>4
  <2>. QED  BY <1>3, <1>5, <2>2, <2>5 DEF Request, n
<1>. QED  BY <1>4, <1>5 DEF Asked, n

LEMMA OutboundInit == Init => OutboundInv
<1>. SUFFICES ASSUME Init PROVE OutboundInv
  OBVIOUS
<1>. DEFINE at == [j \in 1 .. 1 |-> 0]
<1>1. Len(asked) = 0 /\ Len(outbound) = 0 /\ 0 \in 0 .. Len(asked)
  BY DEF Init
<1>2. Stands(at, outbound, Len(asked), OutFrame)
  BY <1>1 DEF Stands
<1>3. taken = SubSeq(asked, 1, 0) /\ at[0 + 1] = 0
  BY DEF Init
<1>. QED  BY <1>1, <1>2, <1>3 DEF OutboundInv

LEMMA OutboundSend ==
  ASSUME TypeOK, OutboundInv, NEW m \in Asked, Send(m)
  PROVE  OutboundInv'
<1>. SUFFICES ASSUME ~ short' PROVE OutboundInv'
  BY DEF OutboundInv
<1>1. asked' = Append(asked, m) /\ taken' = taken /\ asked \in Seq(Asked)
  BY DEF Send, TypeOK
<1>2. ~ short /\ outbound' = outbound \o SendBuffer(m)
  <2>1. PICK n \in 1 .. Len(SendBuffer(m)) :
          /\ outbound' = outbound \o SubSeq(SendBuffer(m), 1, n)
          /\ n = Len(SendBuffer(m)) => SubSeq(SendBuffer(m), 1, n) = SendBuffer(m)
          /\ short' = (short \/ n < Len(SendBuffer(m)))
    BY SendStep
  <2>2. ~ short /\ ~ (n < Len(SendBuffer(m)))
    BY <2>1
  <2>3. Len(SendBuffer(m)) \in Nat
    BY BufferFacts, LenProperties
  <2>4. n = Len(SendBuffer(m))
    BY <2>2, <2>3
  <2>5. SubSeq(SendBuffer(m), 1, n) = SendBuffer(m)
    BY <2>1, <2>4
  <2>. QED  BY <2>1, <2>2, <2>5
<1>0. PICK at : \E n \in 0 .. Len(asked) :
        /\ Stands(at, outbound, Len(asked), OutFrame)
        /\ taken = SubSeq(asked, 1, n)
        /\ at[n + 1] = 0
  BY <1>2 DEF OutboundInv
<1>3. PICK n \in 0 .. Len(asked) :
        /\ Stands(at, outbound, Len(asked), OutFrame)
        /\ taken = SubSeq(asked, 1, n)
        /\ at[n + 1] = 0
  BY <1>0
<1>4. /\ Len(asked) \in Nat
      /\ OutFrame \in [1 .. Len(asked) -> Seq(Byte)]
      /\ \A j \in 1 .. Len(asked) : OutFrame[j] = SendBuffer(asked[j])
  BY OutFrameType
<1>5. /\ Len(asked') = Len(asked) + 1
      /\ asked'[Len(asked) + 1] = m
      /\ \A j \in 1 .. Len(asked) : asked'[j] = asked[j]
  BY <1>1, <1>4
<1>6. /\ OutFrame' \in [1 .. Len(asked) + 1 -> Seq(Byte)]
      /\ OutFrame'[Len(asked) + 1] = SendBuffer(m)
      /\ \A j \in 1 .. Len(asked) : OutFrame'[j] = OutFrame[j]
  <2>1. OutFrame' = [j \in 1 .. Len(asked) + 1 |-> SendBuffer(asked'[j])]
    BY <1>5 DEF OutFrame
  <2>2. SendBuffer(m) \in Seq(Byte)
    BY BufferFacts
  <2>3. \A j \in 1 .. Len(asked) + 1 :
          /\ j \in 1 .. Len(asked) => SendBuffer(asked'[j]) = OutFrame[j]
          /\ j \notin 1 .. Len(asked) => SendBuffer(asked'[j]) = SendBuffer(m)
    BY <1>4, <1>5
  <2>4. \A j \in 1 .. Len(asked) + 1 : SendBuffer(asked'[j]) \in Seq(Byte)
    BY <1>4, <2>2, <2>3
  <2>. QED  BY <1>4, <1>5, <2>1, <2>3, <2>4
<1>7. outbound \in Seq(Byte)
  BY DEF TypeOK
<1>. DEFINE to == Extended(at, Len(asked), Len(SendBuffer(m)))
<1>8. Stands(to, outbound', Len(asked) + 1, OutFrame')
  <2>. DEFINE N == Len(asked)
              F == OutFrame
              G == OutFrame'
  <2>1. /\ N \in Nat /\ F \in [1 .. N -> Seq(Byte)] /\ G \in [1 .. N + 1 -> Seq(Byte)]
        /\ \A j \in 1 .. N : G[j] = F[j]
        /\ Stands(at, outbound, N, F)
    BY <1>3, <1>4, <1>6
  <2>. HIDE DEF N, F, G
  <2>2. Stands(Extended(at, N, Len(G[N + 1])), outbound \o G[N + 1], N + 1, G)
    BY <1>7, <2>1, StandsAppend
  <2>. QED  BY <1>2, <1>6, <2>2 DEF N, F, G
<1>9. Stands(to, outbound', Len(asked'), OutFrame')
  BY <1>5, <1>8
<1>10. n \in 0 .. Len(asked') /\ to[n + 1] = 0
  BY <1>3, <1>4, <1>5 DEF Extended
<1>. HIDE DEF to
<1>11. taken' = SubSeq(asked', 1, n)
  <2>1. SubSeq(Append(asked, m), 1, n) = SubSeq(asked, 1, n)
    BY <1>1, <1>3, <1>4
  <2>. QED  BY <1>1, <1>3, <2>1
<1>. QED  BY <1>9, <1>10, <1>11 DEF OutboundInv

LEMMA OutboundTake ==
  ASSUME TypeOK, OutboundInv, PeerTakes
  PROVE  OutboundInv'
<1>. SUFFICES ASSUME ~ short' PROVE OutboundInv'
  BY DEF OutboundInv
<1>1. ~ short /\ asked' = asked /\ outbound \in Seq(Byte) /\ Len(outbound) \in Nat
  BY LenProperties DEF PeerTakes, TypeOK
<1>0. PICK at : \E n \in 0 .. Len(asked) :
        /\ Stands(at, outbound, Len(asked), OutFrame)
        /\ taken = SubSeq(asked, 1, n)
        /\ at[n + 1] = 0
  BY <1>1 DEF OutboundInv
<1>2. PICK n \in 0 .. Len(asked) :
        /\ Stands(at, outbound, Len(asked), OutFrame)
        /\ taken = SubSeq(asked, 1, n)
        /\ at[n + 1] = 0
  BY <1>0
<1>3. /\ Len(asked) \in Nat
      /\ OutFrame \in [1 .. Len(asked) -> Seq(Byte)]
      /\ \A j \in 1 .. Len(asked) : asked[j] \in Asked /\ OutFrame[j] = SendBuffer(asked[j])
  BY OutFrameType
<1>4. n < Len(asked)
  <2>1. Len(outbound) >= 4
    BY DEF PeerTakes, WholeMessage
  <2>2. at[Len(asked) + 1] = Len(outbound)
    BY <1>2 DEF Stands
  <2>. QED  BY <1>1, <1>2, <1>3, <2>1, <2>2
<1>. DEFINE m == asked[n + 1]
            L == BodyOf(m)
<1>5. m \in Asked /\ OutFrame[n + 1] = SendBuffer(m) /\ n + 1 \in 1 .. Len(asked)
  BY <1>3, <1>4
<1>6. /\ L \in Nat \ {0} /\ Len(SendBuffer(m)) = 4 + L
      /\ \A i \in 1 .. 4 : SendBuffer(m)[i] = FourBytes(L)[i]
      /\ Number(FourBytes(L)) = L
  BY <1>5, BufferFacts, BodyNumber
<1>7. /\ 4 + L <= Len(outbound)
      /\ at[n + 2] = 4 + L
      /\ \A i \in 1 .. 4 + L : outbound[i] = SendBuffer(m)[i]
  <2>. DEFINE k == n + 1
  <2>1. k \in 1 .. Len(asked) /\ at[k] = 0 /\ OutFrame[k] = SendBuffer(m) /\ k + 1 = n + 2
    BY <1>2, <1>5
  <2>. HIDE DEF k, m
  <2>2. /\ Len(OutFrame[k]) <= Len(outbound)
        /\ at[k + 1] = Len(OutFrame[k])
        /\ \A i \in 1 .. Len(OutFrame[k]) : outbound[i] = OutFrame[k][i]
    <3>. DEFINE N == Len(asked)
                F == OutFrame
    <3>1. N \in Nat /\ F \in [1 .. N -> Seq(Byte)] /\ k \in 1 .. N /\ Stands(at, outbound, N, F)
      BY <1>2, <1>3, <2>1
    <3>. HIDE DEF N, F
    <3>2. at[k + 1] = Len(F[k]) /\ StartsWith(outbound, F[k])
      BY <1>1, <2>1, <3>1, NextFrame
    <3>. QED  BY <3>2 DEF F, StartsWith
  <2>. QED  BY <1>6, <2>1, <2>2
<1>. HIDE DEF m, L
<1>8. BodyLength = L
  <2>1. Len(outbound) >= 4
    BY <1>1, <1>6, <1>7
  <2>2. \A i \in 1 .. 4 : SubSeq(outbound, 1, 4)[i] = FourBytes(L)[i]
    BY <1>1, <1>6, <1>7, <2>1, NumberType
  <2>3. Number(SubSeq(outbound, 1, 4)) = Number(FourBytes(L))
    BY <2>2 DEF Number
  <2>. QED  BY <1>6, <2>3 DEF BodyLength
<1>9. TakenMessage(L) = m
  BY <1>1, <1>5, <1>7, FirstTaken DEF L
<1>10. outbound' = Drop(outbound, 4 + L) /\ taken' = Append(taken, m)
  BY <1>6, <1>8, <1>9 DEF PeerTakes, TakenMessage
<1>11. taken' = SubSeq(asked, 1, n + 1)
  BY <1>2, <1>3, <1>4, <1>10 DEF m, TypeOK
<1>. DEFINE to == Shifted(at, Len(asked), 4 + L)
<1>12. Stands(to, Drop(outbound, 4 + L), Len(asked), OutFrame)
  <2>1. 4 + L \in 0 .. Len(outbound)
    BY <1>1, <1>6, <1>7
  <2>. DEFINE N == Len(asked)
              F == OutFrame
              k == 4 + L
  <2>2. N \in Nat /\ F \in [1 .. N -> Seq(Byte)] /\ Stands(at, outbound, N, F) /\ k \in 0 .. Len(outbound)
    BY <1>2, <1>3, <2>1
  <2>. HIDE DEF N, F, k
  <2>3. Stands(Shifted(at, N, k), Drop(outbound, k), N, F)
    BY <1>1, <2>2, StandsDrop
  <2>. QED  BY <2>3 DEF N, F, k
<1>13. n + 1 \in 0 .. Len(asked) /\ to[n + 1 + 1] = 0
  BY <1>3, <1>4, <1>6, <1>7 DEF Shifted
<1>. HIDE DEF to
<1>14. OutFrame' = OutFrame
  BY <1>1 DEF OutFrame
<1>. QED  BY <1>1, <1>10, <1>11, <1>12, <1>13, <1>14 DEF OutboundInv

LEMMA OutboundStep == TypeOK /\ OutboundInv /\ [Next]_vars => OutboundInv'
<1>. SUFFICES ASSUME TypeOK, OutboundInv, [Next]_vars PROVE OutboundInv'
  OBVIOUS
<1>1. CASE PeerTakes
  BY <1>1, OutboundTake
<1>2. CASE SendInterested
  BY <1>2, OutboundSend DEF SendInterested, Asked
<1>3. CASE SendRequest
  BY <1>3, OutboundSend DEF SendRequest, Asked
<1>4. CASE UNCHANGED <<outbound, short, asked, taken>>
  <2>1. OutFrame' = OutFrame
    BY <1>4 DEF OutFrame
  <2>. QED  BY <1>4, <2>1 DEF OutboundInv
<1>. QED
  BY <1>1, <1>2, <1>3, <1>4
     DEF Next, Session, PeerSends, Open, Handshake, ReadHeader, ReadPayload, ReceiveNext,
         Close, Fail, vars, writing

\* What the peer takes are the client's messages, and one it has not taken
\* stands whole at the front.
LEMMA IntactRequests == TypeOK /\ OutboundInv => RequestsIntact
<1>. SUFFICES ASSUME TypeOK, OutboundInv, ~ short
     PROVE  IsPrefix(taken, asked) /\ (taken # asked => WholeMessage)
  BY DEF RequestsIntact
<1>0. PICK at : \E n \in 0 .. Len(asked) :
        /\ Stands(at, outbound, Len(asked), OutFrame)
        /\ taken = SubSeq(asked, 1, n)
        /\ at[n + 1] = 0
  BY DEF OutboundInv
<1>1. PICK n \in 0 .. Len(asked) :
        /\ Stands(at, outbound, Len(asked), OutFrame)
        /\ taken = SubSeq(asked, 1, n)
        /\ at[n + 1] = 0
  BY <1>0
<1>2. /\ Len(asked) \in Nat /\ asked \in Seq(Asked)
      /\ OutFrame \in [1 .. Len(asked) -> Seq(Byte)]
      /\ \A j \in 1 .. Len(asked) : asked[j] \in Asked /\ OutFrame[j] = SendBuffer(asked[j])
  BY OutFrameType DEF TypeOK
<1>3. outbound \in Seq(Byte) /\ Len(outbound) \in Nat
  BY LenProperties DEF TypeOK
<1>4. IsPrefix(taken, asked)
  <2>1. Len(taken) = n /\ SubSeq(taken, 1, n) = SubSeq(asked, 1, n)
    BY <1>1, <1>2
  <2>. QED  BY <1>1, <1>2, <2>1 DEF IsPrefix
<1>5. ASSUME taken # asked PROVE WholeMessage
  <2>1. n < Len(asked)
    BY <1>1, <1>2, <1>5, SubSeqFull
  <2>. DEFINE k == n + 1
              m == asked[k]
              L == BodyOf(m)
  <2>2. m \in Asked /\ OutFrame[k] = SendBuffer(m) /\ k \in 1 .. Len(asked) /\ at[k] = 0
    BY <1>1, <1>2, <2>1
  <2>. HIDE DEF k, m
  <2>3. /\ Len(OutFrame[k]) <= Len(outbound)
        /\ \A i \in 1 .. Len(OutFrame[k]) : outbound[i] = OutFrame[k][i]
    <3>1. StartsWith(outbound, OutFrame[k])
      BY <1>1, <1>2, <1>3, <2>2, NextFrame
    <3>. QED  BY <3>1 DEF StartsWith
  <2>4. /\ L \in Nat \ {0} /\ Len(SendBuffer(m)) = 4 + L
        /\ \A i \in 1 .. 4 : SendBuffer(m)[i] = FourBytes(L)[i]
        /\ Number(FourBytes(L)) = L
    BY <2>2, BufferFacts, BodyNumber
  <2>. HIDE DEF L
  <2>5. Len(outbound) >= 4 + L /\ Len(outbound) >= 4
    BY <1>3, <2>2, <2>3, <2>4
  <2>6. \A i \in 1 .. 4 : SubSeq(outbound, 1, 4)[i] = FourBytes(L)[i]
    <3>1. \A i \in 1 .. 4 : outbound[i] = FourBytes(L)[i]
      BY <2>2, <2>3, <2>4
    <3>. QED  BY <1>3, <2>5, <3>1, NumberType
  <2>7. BodyLength = L
    BY <2>4, <2>6 DEF BodyLength, Number
  <2>. QED  BY <2>5, <2>7 DEF WholeMessage
<1>. QED  BY <1>4, <1>5

\* As long as every async_send wrote its whole buffer, the peer takes the
\* client's messages as they were meant and is left waiting for no byte of them.
THEOREM RequestsArrive == Spec => []RequestsIntact
BY TypeInit, TypeStep, OutboundInit, OutboundStep, IntactRequests, PTL DEF Spec

-----------------------------------------------------------------------------
(* What the client receives.                                               *)

InFrame == [j \in 1 .. Len(sent) |-> Framed(sent[j])]

\* The first k messages of the peer are those before its first keep-alive.
IsBefore(k) ==
  /\ k \in 0 .. Len(sent)
  /\ \A j \in 1 .. k : sent[j] # KeepAlive
  /\ k < Len(sent) => sent[k + 1] = KeepAlive

LEMMA BeforeIs == \A k : IsBefore(k) => BeforeKeepAlive = k
<1>. DEFINE b == BeforeKeepAlive
            Sent == Len(sent)
<1>. SUFFICES ASSUME NEW k, IsBefore(k) PROVE b = k
  OBVIOUS
<1>1. b = CHOOSE l \in 0 .. Len(sent) :
             /\ \A j \in 1 .. l : sent[j] # KeepAlive
             /\ l < Len(sent) => sent[l + 1] = KeepAlive
  BY DEF BeforeKeepAlive
<1>2. IsBefore(b)
  BY <1>1 DEF IsBefore
<1>3. \A l, h : IsBefore(l) /\ IsBefore(h) => ~ (l < h)
  <2>. SUFFICES ASSUME NEW l, NEW h, IsBefore(l), IsBefore(h), l < h PROVE FALSE
    OBVIOUS
  <2>1. l \in Int /\ h \in Int /\ l + 1 \in 1 .. h
    BY DEF IsBefore
  <2>2. sent[l + 1] # KeepAlive
    BY <2>1 DEF IsBefore
  <2>3. h <= Sent
    BY DEF IsBefore
  <2>. QED  BY <2>1, <2>2, <2>3 DEF IsBefore
<1>. QED  BY <1>2, <1>3 DEF IsBefore

LEMMA BeforeIsNext == (\A k : IsBefore(k) => BeforeKeepAlive = k)'
BY BeforeIs, PTL

Choked == [length |-> 0, id |-> CHOKE, payload |-> <<>>]

ReceivedInv(k) ==
  /\ \A j \in 1 .. Len(received) : j <= k => received[j] = sent[j]
  /\ Len(received) > k => k < Len(sent) /\ received[k + 1] = Choked

\* Until the keep-alive the session reads at the border of a message, or behind
\* the header of one.
PositionInv(k, at) ==
  /\ pc = "connect" => sent = <<>>
  /\ pc \in {"connect", "greet"} => received = <<>>
  /\ pc = "greet" => at[1] = HandshakeBytes
  /\ pc \in {"header", "turn"} /\ Len(received) <= k => at[Len(received) + 1] = 0
  /\ pc = "payload" /\ Len(received) <= k =>
       /\ Len(received) < k
       /\ at[Len(received) + 1] = -5
       /\ message = [length |-> sent[Len(received) + 1].length,
                     id |-> sent[Len(received) + 1].id, payload |-> <<>>]

StreamInv(k) ==
  ~ Over => \E at : Stands(at, inbound, Len(sent), InFrame) /\ PositionInv(k, at)

InboundInv == \E k : IsBefore(k) /\ ReceivedInv(k) /\ StreamInv(k)

LEMMA InFrameType ==
  TypeOK => /\ Len(sent) \in Nat /\ Len(received) \in Nat /\ Len(inbound) \in Nat
            /\ InFrame \in [1 .. Len(sent) -> Seq(Byte)]
            /\ \A j \in 1 .. Len(sent) : sent[j] \in PeerMessages /\ InFrame[j] = Framed(sent[j])
<1>. SUFFICES ASSUME TypeOK
     PROVE /\ Len(sent) \in Nat /\ Len(received) \in Nat /\ Len(inbound) \in Nat
           /\ InFrame \in [1 .. Len(sent) -> Seq(Byte)]
           /\ \A j \in 1 .. Len(sent) : sent[j] \in PeerMessages /\ InFrame[j] = Framed(sent[j])
  OBVIOUS
<1>1. Len(sent) \in Nat /\ \A j \in 1 .. Len(sent) : sent[j] \in PeerMessages
  BY LenProperties, ElementOfSeq DEF TypeOK
<1>2. \A j \in 1 .. Len(sent) : Framed(sent[j]) \in Seq(Byte)
  BY <1>1, FramedFacts
<1>3. Len(received) \in Nat /\ Len(inbound) \in Nat
  BY LenProperties DEF TypeOK
<1>. QED  BY <1>1, <1>2, <1>3 DEF InFrame

LEMMA InboundInit == Init => InboundInv
<1>. SUFFICES ASSUME Init PROVE InboundInv
  OBVIOUS
<1>. DEFINE at == [j \in 1 .. 1 |-> 0]
<1>1. Len(sent) = 0 /\ Len(inbound) = 0 /\ Len(received) = 0
  BY DEF Init
<1>2. IsBefore(0) /\ ReceivedInv(0)
  BY <1>1 DEF IsBefore, ReceivedInv
<1>3. Stands(at, inbound, Len(sent), InFrame)
  BY <1>1 DEF Stands
<1>4. PositionInv(0, at)
  BY DEF Init, PositionInv
<1>. QED  BY <1>2, <1>3, <1>4 DEF InboundInv, StreamInv

\* A peer's message goes behind all others.
LEMMA InboundSends ==
  ASSUME TypeOK, InboundInv, NEW m \in PeerMessages, PeerSends(m)
  PROVE  InboundInv'
<1>1. PICK k : IsBefore(k) /\ ReceivedInv(k) /\ StreamInv(k)
  BY DEF InboundInv
<1>2. /\ Len(sent) \in Nat /\ Len(received) \in Nat
      /\ InFrame \in [1 .. Len(sent) -> Seq(Byte)]
      /\ \A j \in 1 .. Len(sent) : InFrame[j] = Framed(sent[j])
  BY InFrameType
<1>3. /\ sent' = Append(sent, m) /\ inbound' = inbound \o Framed(m) /\ sent \in Seq(PeerMessages)
      /\ UNCHANGED <<pc, message, received>> /\ pc # "connect" /\ ~ Over /\ inbound \in Seq(Byte)
  BY DEF PeerSends, TypeOK
<1>4. /\ Len(sent') = Len(sent) + 1
      /\ sent'[Len(sent) + 1] = m
      /\ \A j \in 1 .. Len(sent) : sent'[j] = sent[j]
  BY <1>2, <1>3
<1>l. PICK l : l = IF k = Len(sent) /\ m # KeepAlive THEN k + 1 ELSE k
  OBVIOUS
<1>5. k \in 0 .. Len(sent)
  BY <1>1 DEF IsBefore
<1>6. Len(received) <= k \/ k < Len(sent)
  BY <1>1, <1>2, <1>5 DEF ReceivedInv
<1>7. IsBefore(l)'
  <2>1. CASE k = Len(sent) /\ m # KeepAlive
    <3>1. \A j \in 1 .. k + 1 : sent'[j] # KeepAlive
      BY <1>1, <1>2, <1>4, <2>1 DEF IsBefore
    <3>. QED  BY <1>2, <1>4, <1>l, <2>1, <3>1 DEF IsBefore
  <2>2. CASE k = Len(sent) /\ m = KeepAlive
    BY <1>1, <1>2, <1>4, <1>l, <2>2 DEF IsBefore
  <2>3. CASE k # Len(sent)
    BY <1>1, <1>2, <1>4, <1>5, <1>l, <2>3 DEF IsBefore
  <2>. QED  BY <2>1, <2>2, <2>3
<1>8. ReceivedInv(l)'
  <2>1. \A j \in 1 .. Len(received) : j <= l => j <= k /\ j \in 1 .. Len(sent)
    BY <1>2, <1>5, <1>6, <1>l
  <2>2. Len(received) > l => Len(received) > k /\ l = k
    BY <1>2, <1>5, <1>6, <1>l
  <2>3. \A j \in 1 .. Len(received) : j <= l => received[j] = sent'[j]
    BY <1>1, <1>4, <2>1 DEF ReceivedInv
  <2>4. Len(received) > l => l < Len(sent') /\ received[l + 1] = Choked
    BY <1>1, <1>2, <1>4, <1>5, <2>2 DEF ReceivedInv
  <2>. QED  BY <1>3, <2>3, <2>4 DEF ReceivedInv, Choked
<1>9. PICK at : Stands(at, inbound, Len(sent), InFrame) /\ PositionInv(k, at)
  BY <1>1, <1>3 DEF StreamInv
<1>t. PICK to : to = Extended(at, Len(sent), Len(Framed(m)))
  OBVIOUS
<1>10. /\ InFrame' \in [1 .. Len(sent) + 1 -> Seq(Byte)]
       /\ InFrame'[Len(sent) + 1] = Framed(m)
       /\ \A j \in 1 .. Len(sent) : InFrame'[j] = InFrame[j]
  <2>1. InFrame' = [j \in 1 .. Len(sent) + 1 |-> Framed(sent'[j])]
    BY <1>4 DEF InFrame
  <2>2. Framed(m) \in Seq(Byte)
    BY FramedFacts
  <2>3. \A j \in 1 .. Len(sent) + 1 :
          /\ j \in 1 .. Len(sent) => Framed(sent'[j]) = InFrame[j]
          /\ j \notin 1 .. Len(sent) => Framed(sent'[j]) = Framed(m)
    BY <1>2, <1>4
  <2>4. \A j \in 1 .. Len(sent) + 1 : Framed(sent'[j]) \in Seq(Byte)
    BY <1>2, <2>2, <2>3
  <2>. QED  BY <1>2, <1>4, <2>1, <2>3, <2>4
<1>11. Stands(to, inbound', Len(sent'), InFrame')
  <2>. DEFINE N == Len(sent)
              F == InFrame
              G == InFrame'
  <2>1. /\ N \in Nat /\ F \in [1 .. N -> Seq(Byte)] /\ G \in [1 .. N + 1 -> Seq(Byte)]
        /\ \A j \in 1 .. N : G[j] = F[j]
        /\ Stands(at, inbound, N, F)
    BY <1>2, <1>9, <1>10
  <2>. HIDE DEF N, F, G
  <2>2. Stands(Extended(at, N, Len(G[N + 1])), inbound \o G[N + 1], N + 1, G)
    BY <1>3, <2>1, StandsAppend
  <2>. QED  BY <1>3, <1>4, <1>10, <1>t, <2>2 DEF N, F, G
<1>12. \A j \in 1 .. Len(sent) + 1 : to[j] = at[j]
  BY <1>2, <1>t DEF Extended
<1>13. PositionInv(l, to)'
  <2>1. Len(received) <= l => Len(received) <= k /\ Len(received) + 1 \in 1 .. Len(sent) + 1
    BY <1>2, <1>5, <1>6, <1>l
  <2>2. Len(received) < k => Len(received) < l /\ Len(received) + 1 \in 1 .. Len(sent)
    BY <1>2, <1>5, <1>l
  <2>3. pc = "greet" => to[1] = HandshakeBytes
    BY <1>2, <1>9, <1>12 DEF PositionInv
  <2>4. pc \in {"header", "turn"} /\ Len(received) <= l => to[Len(received) + 1] = 0
    BY <1>9, <1>12, <2>1 DEF PositionInv
  <2>5. pc = "payload" /\ Len(received) <= l =>
          /\ Len(received) < l
          /\ to[Len(received) + 1] = -5
          /\ message = [length |-> sent'[Len(received) + 1].length,
                        id |-> sent'[Len(received) + 1].id, payload |-> <<>>]
    BY <1>4, <1>9, <1>12, <2>1, <2>2 DEF PositionInv
  <2>6. pc = "greet" => received = <<>>
    BY <1>9 DEF PositionInv
  <2>. QED  BY <1>3, <2>3, <2>4, <2>5, <2>6 DEF PositionInv
<1>. QED  BY <1>7, <1>8, <1>11, <1>13 DEF InboundInv, StreamInv

\* Before a keep-alive the header is that of the next message; a keep-alive is
\* read as a choke.
LEMMA HeaderRead ==
  ASSUME TypeOK, NEW k, IsBefore(k), NEW at, Stands(at, inbound, Len(sent), InFrame),
         Len(received) <= k, at[Len(received) + 1] = 0, Len(inbound) >= 5
  PROVE  /\ Len(received) < Len(sent)
         /\ Len(received) < k =>
              /\ sent[Len(received) + 1] # KeepAlive
              /\ HeaderMessage = [length |-> sent[Len(received) + 1].length,
                                 id |-> sent[Len(received) + 1].id, payload |-> <<>>]
         /\ Len(received) = k => HeaderMessage = Choked
<1>. DEFINE r == Len(received)
            m == sent[r + 1]
<1>1. /\ Len(sent) \in Nat /\ r \in Nat /\ Len(inbound) \in Nat /\ inbound \in Seq(Byte)
      /\ InFrame \in [1 .. Len(sent) -> Seq(Byte)]
      /\ \A j \in 1 .. Len(sent) : sent[j] \in PeerMessages /\ InFrame[j] = Framed(sent[j])
  BY InFrameType DEF TypeOK
<1>2. k \in 0 .. Len(sent) /\ r <= k
  BY DEF IsBefore
<1>3. r < Len(sent)
  <2>1. at[Len(sent) + 1] = Len(inbound)
    BY DEF Stands
  <2>. QED  BY <1>1, <1>2, <2>1
<1>4. m \in PeerMessages /\ InFrame[r + 1] = Framed(m) /\ r + 1 \in 1 .. Len(sent)
  BY <1>1, <1>3
<1>5. StartsWith(inbound, Framed(m)) /\ at[r + 2] = Len(Framed(m))
  <2>. DEFINE N == Len(sent)
              F == InFrame
              p == r + 1
  <2>1. N \in Nat /\ F \in [1 .. N -> Seq(Byte)] /\ p \in 1 .. N /\ Stands(at, inbound, N, F) /\ at[p] = 0
    BY <1>1, <1>4
  <2>2. r + 2 = p + 1
    BY <1>1
  <2>. HIDE DEF N, F, p
  <2>3. at[p + 1] = Len(F[p]) /\ StartsWith(inbound, F[p])
    BY <1>1, <2>1, NextFrame
  <2>4. F[p] = Framed(m)
    BY <1>4 DEF F, p
  <2>. QED  BY <2>2, <2>3, <2>4
<1>. HIDE DEF m
<1>6. /\ m.length \in Nat /\ Len(Framed(m)) = 4 + m.length
      /\ \A i \in 1 .. 4 : Framed(m)[i] = FourBytes(m.length)[i]
      /\ AsInt(FourBytes(m.length)) = m.length
      /\ m = KeepAlive <=> m.length = 0
      /\ m # KeepAlive => Framed(m)[5] = m.id
  BY <1>4, FramedFacts
<1>7. AsInt(SubSeq(inbound, 1, 4)) = m.length
  <2>1. \A i \in 1 .. 4 : SubSeq(inbound, 1, 4)[i] = inbound[i]
    BY <1>1, NumberType
  <2>2. \A i \in 1 .. 4 : inbound[i] = FourBytes(m.length)[i]
    <3>. TAKE i \in 1 .. 4
    <3>1. i \in 1 .. Len(Framed(m))
      BY <1>6
    <3>2. inbound[i] = Framed(m)[i]
      BY <1>5, <3>1 DEF StartsWith
    <3>. QED  BY <1>6, <3>2
  <2>3. \A i \in 1 .. 4 : SubSeq(inbound, 1, 4)[i] = FourBytes(m.length)[i]
    BY <2>1, <2>2
  <2>4. Number(SubSeq(inbound, 1, 4)) = Number(FourBytes(m.length))
    BY <2>3 DEF Number
  <2>. QED  BY <1>6, <2>4 DEF AsInt
<1>8. CASE r < k
  <2>1. m # KeepAlive
    BY <1>1, <1>2, <1>8 DEF IsBefore, m
  <2>2. inbound[5] = m.id
    BY <1>5, <1>6, <2>1 DEF StartsWith
  <2>. QED  BY <1>3, <1>7, <1>8, <2>1, <2>2 DEF HeaderMessage, m
<1>9. CASE r = k
  <2>1. m = KeepAlive /\ m.length = 0
    BY <1>2, <1>3, <1>6, <1>9 DEF IsBefore, m
  <2>2. at[r + 2] = 4
    BY <1>5, <1>6, <2>1
  <2>3. r + 1 < Len(sent)
    <3>. SUFFICES ASSUME r + 1 = Len(sent) PROVE FALSE
      BY <1>1, <1>3
    <3>1. at[Len(sent) + 1] = Len(inbound) /\ Len(sent) + 1 = r + 2
      BY <1>1 DEF Stands
    <3>. QED  BY <1>1, <2>2, <3>1
  <2>. DEFINE p == r + 2
              next == sent[p]
  <2>4. p \in 1 .. Len(sent) /\ next \in PeerMessages /\ InFrame[p] = Framed(next)
    BY <1>1, <2>3
  <2>. HIDE DEF next
  <2>5. Framed(next)[1] = 0 /\ Len(Framed(next)) \in Nat /\ Len(Framed(next)) >= 4
    BY <2>4, FramedFacts
  <2>6. inbound[5] = 0
    <3>. HIDE DEF p
    <3>1. \A i \in 1 .. Len(InFrame[p]) : at[p] + i >= 1 => inbound[at[p] + i] = InFrame[p][i]
      BY <2>4 DEF Stands
    <3>2. at[p] = 4 /\ 1 \in 1 .. Len(InFrame[p])
      BY <2>2, <2>4, <2>5 DEF p
    <3>3. inbound[at[p] + 1] = InFrame[p][1]
      BY <3>1, <3>2
    <3>. QED  BY <2>4, <2>5, <3>2, <3>3
  <2>. QED  BY <1>3, <1>7, <1>9, <2>1, <2>6 DEF HeaderMessage, Choked, CHOKE
<1>. QED  BY <1>1, <1>2, <1>8, <1>9

\* What a return of receive() has to respect.
LEMMA ReturnKeeps ==
  ASSUME TypeOK, NEW k, IsBefore(k), ReceivedInv(k),
         NEW m, received' = Append(received, m), sent' = sent,
         Len(received) < k => m = sent[Len(received) + 1],
         Len(received) = k => k < Len(sent) /\ m = Choked
  PROVE  ReceivedInv(k)' /\ Len(received') = Len(received) + 1
<1>1. Len(received) \in Nat /\ received \in Seq(Received) /\ k \in Nat
  BY InFrameType DEF TypeOK, IsBefore
<1>2. /\ Len(received') = Len(received) + 1
      /\ received'[Len(received) + 1] = m
      /\ \A j \in 1 .. Len(received) : received'[j] = received[j]
  BY <1>1
<1>3. \A j \in 1 .. Len(received') : j <= k => received'[j] = sent[j]
  <2>. SUFFICES ASSUME NEW j \in 1 .. Len(received'), j <= k PROVE received'[j] = sent[j]
    OBVIOUS
  <2>1. CASE j \in 1 .. Len(received)
    BY <1>2, <2>1 DEF ReceivedInv
  <2>2. CASE j = Len(received) + 1
    BY <1>1, <1>2, <2>2
  <2>. QED  BY <1>1, <1>2, <2>1, <2>2
<1>4. Len(received') > k => k < Len(sent) /\ received'[k + 1] = Choked
  <2>1. CASE Len(received) > k
    <3>1. k + 1 \in 1 .. Len(received)
      BY <1>1, <2>1
    <3>. QED  BY <1>2, <2>1, <3>1 DEF ReceivedInv
  <2>2. CASE Len(received) = k
    BY <1>2, <2>2
  <2>. QED  BY <1>1, <1>2, <2>1, <2>2
<1>. QED  BY <1>2, <1>3, <1>4 DEF ReceivedInv, Choked

LEMMA InboundHeader ==
  ASSUME TypeOK, InboundInv, ReadHeader
  PROVE  InboundInv'
<1>1. PICK k : IsBefore(k) /\ ReceivedInv(k) /\ StreamInv(k)
  BY DEF InboundInv
<1>2. /\ pc = "header" /\ Len(inbound) >= 5 /\ inbound' = Drop(inbound, 5)
      /\ sent' = sent
      /\ \/ /\ HeaderMessage.length > 1
            /\ message' = HeaderMessage
            /\ pc' = "payload"
            /\ UNCHANGED received
         \/ ~ (HeaderMessage.length > 1) /\ Return(HeaderMessage)
  BY HeaderStep
<1>3. /\ Len(sent) \in Nat /\ Len(received) \in Nat /\ Len(inbound) \in Nat
      /\ inbound \in Seq(Byte) /\ k \in 0 .. Len(sent)
      /\ InFrame \in [1 .. Len(sent) -> Seq(Byte)]
      /\ \A j \in 1 .. Len(sent) : sent[j] \in PeerMessages /\ InFrame[j] = Framed(sent[j])
  BY <1>1, InFrameType DEF TypeOK, IsBefore
<1>4. PICK at : /\ Stands(at, inbound, Len(sent), InFrame)
                /\ Len(received) <= k => at[Len(received) + 1] = 0
  BY <1>1, <1>2 DEF StreamInv, PositionInv, Over
<1>5. PICK to : to = Shifted(at, Len(sent), 5)
  OBVIOUS
<1>6. Stands(to, inbound', Len(sent'), InFrame')
  <2>. DEFINE N == Len(sent)
              F == InFrame
  <2>1. /\ N \in Nat /\ F \in [1 .. N -> Seq(Byte)] /\ Stands(at, inbound, N, F)
        /\ 5 \in 0 .. Len(inbound)
    BY <1>2, <1>3, <1>4
  <2>. HIDE DEF N, F
  <2>2. Stands(Shifted(at, N, 5), Drop(inbound, 5), N, F)
    BY <1>3, <2>1, StandsDrop
  <2>3. N = Len(sent') /\ F = InFrame'
    BY <1>2 DEF N, F, InFrame
  <2>. QED  BY <1>2, <1>5, <2>2, <2>3 DEF N
<1>7. IsBefore(k)'
  BY <1>1, <1>2 DEF IsBefore
<1>8. CASE Len(received) > k
  <2>1. CASE UNCHANGED received /\ pc' = "payload"
    BY <1>1, <1>2, <1>3, <1>6, <1>7, <1>8, <2>1
       DEF InboundInv, StreamInv, PositionInv, ReceivedInv, Choked
  <2>2. CASE Return(HeaderMessage)
    <3>1. ReceivedInv(k)' /\ Len(received') = Len(received) + 1
      BY <1>1, <1>2, <1>3, <1>8, <2>2, ReturnKeeps DEF Return
    <3>2. pc' \in {"failed", "closed", "turn"} /\ ~ (Len(received') <= k)
      BY <1>3, <1>8, <2>2, <3>1 DEF Return
    <3>. QED  BY <1>6, <1>7, <3>1, <3>2 DEF InboundInv, StreamInv, PositionInv
  <2>. QED  BY <1>2, <2>1, <2>2
<1>9. CASE Len(received) = k
  <2>1. k < Len(sent) /\ HeaderMessage = Choked
    BY <1>1, <1>2, <1>3, <1>4, <1>9, HeaderRead
  <2>2. Return(HeaderMessage)
    BY <1>2, <2>1 DEF Choked
  <2>3. ReceivedInv(k)' /\ Len(received') = Len(received) + 1
    BY <1>1, <1>2, <1>3, <1>9, <2>1, <2>2, ReturnKeeps DEF Return
  <2>4. pc' \in {"failed", "closed", "turn"} /\ ~ (Len(received') <= k)
    BY <1>3, <1>9, <2>2, <2>3 DEF Return
  <2>. QED  BY <1>6, <1>7, <2>3, <2>4 DEF InboundInv, StreamInv, PositionInv
<1>10. CASE Len(received) < k
  <2>. DEFINE r == Len(received)
              m == sent[r + 1]
  <2>1. /\ r < Len(sent) /\ m # KeepAlive
        /\ HeaderMessage = [length |-> m.length, id |-> m.id, payload |-> <<>>]
    BY <1>1, <1>2, <1>3, <1>4, <1>10, HeaderRead
  <2>2. m \in PeerMessages /\ InFrame[r + 1] = Framed(m) /\ r + 1 \in 1 .. Len(sent)
    BY <1>3, <2>1
  <2>3. /\ m \in [length : Nat, id : Byte, payload : Seq(Byte)]
        /\ Len(Framed(m)) = 4 + m.length /\ Len(m.payload) = m.length - 1 /\ m.length # 0
    BY <2>1, <2>2, FramedFacts
  <2>4. at \in [1 .. Len(sent) + 1 -> Int] /\ at[r + 1] = 0 /\ at[r + 1 + 1] = 4 + m.length
    <3>1. at[r + 1] = 0
      BY <1>3, <1>4, <1>10
    <3>2. at[r + 1 + 1] = at[r + 1] + Len(InFrame[r + 1])
      BY <1>4, <2>2 DEF Stands
    <3>3. at[r + 1 + 1] = 4 + m.length
      BY <2>2, <2>3, <3>1, <3>2
    <3>. QED  BY <1>4, <3>1, <3>3 DEF Stands
  <2>5. to[r + 1] = -5 /\ to[r + 1 + 1] = m.length - 1
    <3>1. r + 1 \in 1 .. Len(sent) + 1 /\ r + 1 + 1 \in 1 .. Len(sent) + 1
      BY <1>3, <2>2
    <3>2. to[r + 1] = at[r + 1] - 5 /\ to[r + 1 + 1] = at[r + 1 + 1] - 5
      BY <1>5, <3>1 DEF Shifted
    <3>. QED  BY <2>3, <2>4, <3>2
  <2>6. CASE message' = HeaderMessage /\ pc' = "payload" /\ UNCHANGED received
    <3>1. ReceivedInv(k)'
      BY <1>1, <1>2, <2>6 DEF ReceivedInv, Choked
    <3>2. PositionInv(k, to)'
      BY <1>2, <1>10, <2>1, <2>5, <2>6 DEF PositionInv
    <3>. QED  BY <1>6, <1>7, <3>1, <3>2 DEF InboundInv, StreamInv
  <2>7. CASE ~ (HeaderMessage.length > 1) /\ Return(HeaderMessage)
    <3>1. m.length = 1 /\ HeaderMessage = m
      <4>1. m.length = 1
        BY <2>1, <2>3, <2>7
      <4>2. m.payload = <<>>
        BY <2>3, <4>1, EmptySeq
      <4>. QED  BY <2>1, <2>3, <4>1, <4>2
    <3>2. ReceivedInv(k)' /\ Len(received') = r + 1
      BY <1>1, <1>2, <1>3, <1>10, <2>7, <3>1, ReturnKeeps DEF Return
    <3>3. pc' \in {"failed", "closed", "turn"}
      BY <2>7 DEF Return
    <3>4. PositionInv(k, to)'
      BY <2>5, <3>1, <3>2, <3>3 DEF PositionInv
    <3>. QED  BY <1>6, <1>7, <3>2, <3>4 DEF InboundInv, StreamInv
  <2>. QED  BY <1>2, <2>6, <2>7
<1>. QED  BY <1>3, <1>8, <1>9, <1>10

LEMMA InboundPayload ==
  ASSUME TypeOK, InboundInv, ReadPayload
  PROVE  InboundInv'
<1>. DEFINE size == message.length - 1
            whole == [message EXCEPT !.payload = SubSeq(inbound, 1, size)]
<1>1. PICK k : IsBefore(k) /\ ReceivedInv(k) /\ StreamInv(k)
  BY DEF InboundInv
<1>2. /\ pc = "payload" /\ size \in 0 .. Len(inbound) /\ inbound' = Drop(inbound, size)
      /\ sent' = sent /\ Return(whole)
  BY PayloadStep DEF ReadPayload
<1>3. /\ Len(sent) \in Nat /\ Len(received) \in Nat /\ Len(inbound) \in Nat
      /\ inbound \in Seq(Byte) /\ k \in 0 .. Len(sent)
      /\ InFrame \in [1 .. Len(sent) -> Seq(Byte)]
      /\ \A j \in 1 .. Len(sent) : sent[j] \in PeerMessages /\ InFrame[j] = Framed(sent[j])
  BY <1>1, InFrameType DEF TypeOK, IsBefore
<1>4. PICK at : Stands(at, inbound, Len(sent), InFrame) /\ PositionInv(k, at)
  BY <1>1, <1>2 DEF StreamInv, Over
<1>5. PICK to : to = Shifted(at, Len(sent), size)
  OBVIOUS
<1>6. Stands(to, inbound', Len(sent'), InFrame')
  <2>. DEFINE N == Len(sent)
              F == InFrame
  <2>1. N \in Nat /\ F \in [1 .. N -> Seq(Byte)] /\ Stands(at, inbound, N, F)
    BY <1>3, <1>4
  <2>. HIDE DEF N, F, size
  <2>2. Stands(Shifted(at, N, size), Drop(inbound, size), N, F)
    BY <1>2, <1>3, <2>1, StandsDrop
  <2>3. N = Len(sent') /\ F = InFrame'
    BY <1>2 DEF N, F, InFrame
  <2>. QED  BY <1>2, <1>5, <2>2, <2>3 DEF N
<1>7. IsBefore(k)'
  BY <1>1, <1>2 DEF IsBefore
<1>. HIDE DEF whole
<1>8. pc' \in {"failed", "closed", "turn"} /\ received' = Append(received, whole)
  BY <1>2 DEF Return
<1>9. CASE Len(received) > k
  <2>1. ReceivedInv(k)' /\ Len(received') = Len(received) + 1
    BY <1>1, <1>2, <1>3, <1>8, <1>9, ReturnKeeps, SMTT(30)
  <2>2. ~ (Len(received') <= k)
    BY <1>3, <1>9, <2>1
  <2>. QED  BY <1>6, <1>7, <1>8, <2>1, <2>2 DEF InboundInv, StreamInv, PositionInv
<1>10. CASE Len(received) <= k
  <2>. DEFINE r == Len(received)
              m == sent[r + 1]
  <2>1. /\ r < k /\ at[r + 1] = -5
        /\ message = [length |-> m.length, id |-> m.id, payload |-> <<>>]
    BY <1>2, <1>4, <1>10 DEF PositionInv
  <2>2. /\ m \in PeerMessages /\ InFrame[r + 1] = Framed(m) /\ r + 1 \in 1 .. Len(sent)
        /\ m # KeepAlive
    BY <1>1, <1>3, <2>1 DEF IsBefore
  <2>. HIDE DEF m
  <2>3. /\ m \in [length : Nat, id : Byte, payload : Seq(Byte)]
        /\ Len(Framed(m)) = 4 + m.length /\ Len(m.payload) = m.length - 1
        /\ \A i \in 1 .. m.length - 1 : Framed(m)[5 + i] = m.payload[i]
        /\ size = m.length - 1
    BY <2>1, <2>2, FramedFacts
  <2>4. /\ at[r + 1 + 1] = m.length - 1
        /\ \A i \in 1 .. m.length - 1 : inbound[i] = Framed(m)[5 + i]
    <3>. DEFINE p == r + 1
    <3>. HIDE DEF p
    <3>1. /\ at[p + 1] = at[p] + Len(InFrame[p])
          /\ \A i \in 1 .. Len(InFrame[p]) : at[p] + i >= 1 => inbound[at[p] + i] = InFrame[p][i]
      BY <1>4, <2>2 DEF Stands, p
    <3>2. at[p] = -5 /\ InFrame[p] = Framed(m)
      BY <2>1, <2>2 DEF p
    <3>3. at[p + 1] = m.length - 1
      BY <2>3, <3>1, <3>2
    <3>4. ASSUME NEW i \in 1 .. m.length - 1 PROVE inbound[i] = Framed(m)[5 + i]
      <4>. DEFINE q == 5 + i
      <4>1. q \in 1 .. Len(InFrame[p]) /\ at[p] + q = i /\ i >= 1
        BY <2>3, <3>2
      <4>. HIDE DEF q
      <4>2. inbound[at[p] + q] = InFrame[p][q]
        BY <3>1, <4>1
      <4>. QED  BY <3>2, <4>1, <4>2 DEF q
    <3>. QED  BY <3>3, <3>4 DEF p
  <2>5. whole = m
    <3>. DEFINE c == SubSeq(inbound, 1, size)
    <3>1. c \in Seq(Byte) /\ Len(c) = size /\ \A i \in 1 .. size : c[i] = inbound[i]
      <4>. DEFINE d == SubSeq(inbound, 0 + 1, size)
      <4>. HIDE DEF size
      <4>1. d \in Seq(Byte)
        BY <1>2, <1>3, CutOut
      <4>2. Len(d) = size - 0
        BY <1>2, <1>3, CutOut
      <4>3. \A i \in 1 .. size - 0 : d[i] = inbound[0 + i]
        BY <1>2, <1>3, CutOut
      <4>. QED  BY <1>2, <1>3, <4>1, <4>2, <4>3
    <3>. HIDE DEF c
    <3>2. c = m.payload
      <4>1. m.payload \in Seq(Byte) /\ Len(c) = Len(m.payload)
        BY <2>3, <3>1
      <4>2. \A i \in 1 .. Len(c) : c[i] = m.payload[i]
        BY <2>3, <2>4, <3>1
      <4>. QED  BY <3>1, <4>1, <4>2, SeqEqual
    <3>. QED  BY <2>1, <2>3, <3>2 DEF c, whole
  <2>6. ReceivedInv(k)' /\ Len(received') = r + 1
    BY <1>1, <1>2, <1>3, <1>8, <2>1, <2>5, ReturnKeeps DEF m
  <2>7. to[r + 1 + 1] = 0
    <3>1. at \in [1 .. Len(sent) + 1 -> Int] /\ r + 1 + 1 \in 1 .. Len(sent) + 1
      BY <1>3, <1>4, <2>2 DEF Stands
    <3>. QED  BY <1>5, <2>3, <2>4, <3>1 DEF Shifted
  <2>8. PositionInv(k, to)'
    BY <1>8, <2>6, <2>7 DEF PositionInv
  <2>. QED  BY <1>6, <1>7, <2>6, <2>8 DEF InboundInv, StreamInv
<1>. QED  BY <1>3, <1>9, <1>10

LEMMA InboundStep == TypeOK /\ InboundInv /\ [Next]_vars => InboundInv'
<1>. SUFFICES ASSUME TypeOK, InboundInv, [Next]_vars PROVE InboundInv'
  OBVIOUS
<1>1. ASSUME NEW m \in PeerMessages, PeerSends(m) PROVE InboundInv'
  BY <1>1, InboundSends
<1>2. CASE ReadHeader
  BY <1>2, InboundHeader
<1>3. CASE ReadPayload
  BY <1>3, InboundPayload
<1>4. PICK k : IsBefore(k) /\ ReceivedInv(k) /\ StreamInv(k)
  BY DEF InboundInv
<1>5. ASSUME sent' = sent, received' = received PROVE IsBefore(k)' /\ ReceivedInv(k)' /\ InFrame' = InFrame
  BY <1>4, <1>5 DEF IsBefore, ReceivedInv, Choked, InFrame
<1>6. CASE Open
  <2>1. PICK at : Stands(at, inbound, Len(sent), InFrame) /\ PositionInv(k, at)
    BY <1>4, <1>6 DEF Open, StreamInv, Over
  <2>2. sent = <<>> /\ received = <<>>
    BY <1>6, <2>1 DEF Open, PositionInv
  <2>3. PICK to : to = [j \in 1 .. 1 |-> HandshakeBytes]
    OBVIOUS
  <2>4. /\ sent' = sent /\ received' = received /\ inbound' = Greeting /\ pc' = "greet"
    BY <1>6 DEF Open
  <2>5. Stands(to, inbound', Len(sent'), InFrame')
    <3>1. Len(sent') = 0 /\ Len(inbound') = HandshakeBytes
      BY <2>2, <2>4, GreetingType
    <3>. QED  BY <2>3, <3>1, HandshakeAssumption DEF Stands
  <2>6. PositionInv(k, to)'
    BY <2>2, <2>3, <2>4 DEF PositionInv
  <2>. QED  BY <1>5, <2>4, <2>5, <2>6 DEF InboundInv, StreamInv
<1>7. CASE Handshake
  <2>1. PICK at : Stands(at, inbound, Len(sent), InFrame) /\ PositionInv(k, at)
    BY <1>4, <1>7 DEF Handshake, StreamInv, Over
  <2>2. /\ received = <<>> /\ at[1] = HandshakeBytes
        /\ sent' = sent /\ received' = received /\ pc' = "header"
        /\ inbound' = Drop(inbound, HandshakeBytes)
    BY <1>7, <2>1 DEF Handshake, PositionInv
  <2>3. PICK to : to = Shifted(at, Len(sent), HandshakeBytes)
    OBVIOUS
  <2>4. Stands(to, inbound', Len(sent), InFrame)
    <3>1. HandshakeBytes \in 0 .. Len(inbound) /\ inbound \in Seq(Byte)
      BY <1>7, HandshakeAssumption, InFrameType DEF Handshake, TypeOK
    <3>. QED  BY <2>1, <2>2, <2>3, <3>1, InFrameType, StandsDrop
  <2>5. to[1] = 0
    BY <2>2, <2>3, InFrameType, HandshakeAssumption DEF Shifted
  <2>6. PositionInv(k, to)'
    BY <2>2, <2>5 DEF PositionInv
  <2>. QED  BY <1>5, <2>2, <2>4, <2>6 DEF InboundInv, StreamInv
<1>8. CASE PeerTakes \/ SendInterested \/ SendRequest \/ UNCHANGED vars
  <2>1. UNCHANGED <<pc, inbound, message, received, sent>>
    BY <1>8 DEF PeerTakes, SendInterested, SendRequest, Send, vars, reading
  <2>2. StreamInv(k)'
    BY <1>4, <1>5, <2>1 DEF StreamInv, PositionInv, Over
  <2>. QED  BY <1>5, <2>1, <2>2 DEF InboundInv
<1>9. CASE ReceiveNext
  <2>1. pc = "turn" /\ pc' = "header" /\ UNCHANGED <<inbound, message, received, sent>>
    BY <1>9 DEF ReceiveNext, reading
  <2>2. StreamInv(k)'
    BY <1>4, <1>5, <2>1 DEF StreamInv, PositionInv, Over
  <2>. QED  BY <1>5, <2>1, <2>2 DEF InboundInv
<1>10. CASE Close \/ Fail
  <2>1. pc' \in {"closed", "failed"} /\ UNCHANGED <<received, sent>>
    BY <1>10 DEF Close, Fail, reading
  <2>2. StreamInv(k)'
    BY <2>1 DEF StreamInv, Over
  <2>. QED  BY <1>5, <2>1, <2>2 DEF InboundInv
<1>. QED
  BY <1>1, <1>2, <1>3, <1>6, <1>7, <1>8, <1>9, <1>10 DEF Next, Session

\* A keep-alive is returned as a CHOKE the peer never sent, made of the first
\* byte of the next message, whatever that is.
LEMMA ChokedByKeepAlive == TypeOK /\ InboundInv => KeepAliveIsChoke
<1>. SUFFICES ASSUME TypeOK, InboundInv PROVE KeepAliveIsChoke
  OBVIOUS
<1>1. PICK k : IsBefore(k) /\ ReceivedInv(k)
  BY DEF InboundInv
<1>2. BeforeKeepAlive = k /\ k \in Nat
  BY <1>1, BeforeIs DEF IsBefore
<1>. HIDE DEF BeforeKeepAlive
<1>3. k + 1 <= Len(received) => received[k + 1] = Choked
  BY <1>1, <1>2, InFrameType DEF ReceivedInv
<1>. QED  BY <1>2, <1>3 DEF KeepAliveIsChoke, Choked

THEOREM KeepAliveChokes == Spec => []KeepAliveIsChoke
BY TypeInit, TypeStep, InboundInit, InboundStep, ChokedByKeepAlive, PTL DEF Spec

-----------------------------------------------------------------------------
(* Until its first keep-alive a peer's messages go through a Channel.      *)

\* What the channel delivered.
Delivered(k) == SubSeq(received, 1, IF Len(received) < k THEN Len(received) ELSE k)

LEMMA FramingInit == Init => Framing!Init
<1>. SUFFICES ASSUME Init PROVE Framing!Init
  OBVIOUS
<1>1. IsBefore(0) /\ sent = <<>> /\ received = <<>>
  BY DEF Init, IsBefore
<1>2. BeforeKeepAlive = 0
  BY <1>1, BeforeIs
<1>. QED  BY <1>1, <1>2 DEF Framing!Init

LEMMA FramingStep ==
  TypeOK /\ InboundInv /\ TypeOK' /\ InboundInv' /\ [Next]_vars => [Framing!Next]_(Framing!channelVars)
<1>. SUFFICES ASSUME TypeOK, InboundInv, TypeOK', InboundInv', [Next]_vars
     PROVE [Framing!Next]_(Framing!channelVars)
  OBVIOUS
<1>1. PICK k : IsBefore(k) /\ ReceivedInv(k)
  BY DEF InboundInv
<1>2. PICK l : IsBefore(l)' /\ ReceivedInv(l)'
  BY DEF InboundInv
<1>3. BeforeKeepAlive = k /\ (BeforeKeepAlive)' = l
  <2>1. BeforeKeepAlive = k
    BY <1>1, BeforeIs
  <2>2. (BeforeKeepAlive)' = l
    BY <1>2, BeforeIsNext
  <2>. QED  BY <2>1, <2>2
<1>4. /\ Len(sent) \in Nat /\ Len(received) \in Nat /\ k \in 0 .. Len(sent)
      /\ sent \in Seq(PeerMessages) /\ received \in Seq(Received)
  BY <1>1, InFrameType DEF TypeOK, IsBefore
<1>. HIDE DEF BeforeKeepAlive
<1>5. /\ \A j \in 1 .. k : sent[j] # KeepAlive
      /\ k < Len(sent) => sent[k + 1] = KeepAlive
      /\ l \in 0 .. Len(sent')
      /\ \A j \in 1 .. l : sent'[j] # KeepAlive
      /\ l < Len(sent') => sent'[l + 1] = KeepAlive
  BY <1>1, <1>2 DEF IsBefore
<1>6. CASE sent' = sent
  <2>1. l = k
    <3>1. ~ (l < k)
      <4>. SUFFICES ASSUME l < k PROVE FALSE
        OBVIOUS
      <4>1. l + 1 \in 1 .. k /\ l < Len(sent')
        BY <1>4, <1>5, <1>6
      <4>. QED  BY <1>5, <1>6, <4>1
    <3>2. ~ (k < l)
      <4>. SUFFICES ASSUME k < l PROVE FALSE
        OBVIOUS
      <4>1. k + 1 \in 1 .. l /\ k < Len(sent)
        BY <1>4, <1>5, <1>6
      <4>. QED  BY <1>5, <1>6, <4>1
    <3>. QED  BY <1>4, <1>5, <3>1, <3>2
  <2>2. CASE received' = received
    BY <1>3, <1>6, <2>1, <2>2 DEF Framing!channelVars
  <2>3. CASE \E m : received' = Append(received, m)
    <3>1. PICK m : received' = Append(received, m)
      BY <2>3
    <3>2. received' \in Seq(Received) /\ Len(received') = Len(received) + 1
          /\ received'[Len(received) + 1] = m
      BY <1>4, <3>1 DEF TypeOK
    <3>3. CASE Len(received) < k
      <4>1. Delivered(k) = received
        BY <1>4, <3>3, SubSeqFull DEF Delivered
      <4>2. Delivered(k)' = received'
        <5>1. (IF Len(received') < k THEN Len(received') ELSE k) = Len(received')
          BY <1>4, <3>2, <3>3
        <5>2. SubSeq(received', 1, Len(received')) = received'
          BY <3>2, SubSeqFull
        <5>. QED  BY <5>1, <5>2 DEF Delivered
      <4>3. m = sent[Len(received) + 1]
        BY <1>2, <1>4, <1>6, <2>1, <3>2, <3>3 DEF ReceivedInv
      <4>4. /\ Len(SubSeq(sent, 1, k)) = k
            /\ SubSeq(sent, 1, k)[Len(received) + 1] = m
        BY <1>4, <3>3, <4>3
      <4>5. Framing!Deliver
        BY <1>3, <1>4, <1>6, <2>1, <3>1, <3>3, <4>1, <4>2, <4>4 DEF Framing!Deliver, Delivered
      <4>. QED  BY <4>5 DEF Framing!Next
    <3>4. CASE ~ (Len(received) < k)
      <4>1. SubSeq(Append(received, m), 1, k) = SubSeq(received, 1, k)
        BY <1>4, <3>4
      <4>2. ~ (Len(received') < k)
        BY <1>4, <3>2, <3>4
      <4>. QED  BY <1>3, <1>6, <2>1, <3>1, <3>4, <4>1, <4>2 DEF Framing!channelVars
    <3>. QED  BY <3>3, <3>4
  <2>4. received' = received \/ \E m : received' = Append(received, m)
    BY <1>6 DEF Next, Session, PeerSends, PeerTakes, Open, Handshake, ReadHeader, ReadPayload,
         Return, SendInterested, SendRequest, Send, ReceiveNext, Close, Fail, vars, reading
  <2>. QED  BY <2>2, <2>3, <2>4
<1>7. ASSUME NEW m \in PeerMessages, PeerSends(m)
      PROVE [Framing!Next]_(Framing!channelVars)
  <2>1. sent' = Append(sent, m) /\ received' = received
    BY <1>7 DEF PeerSends
  <2>2. /\ Len(sent') = Len(sent) + 1
        /\ sent'[Len(sent) + 1] = m
        /\ \A j \in 1 .. Len(sent) : sent'[j] = sent[j]
    BY <1>4, <2>1
  <2>3. ~ (l < k)
    <3>. SUFFICES ASSUME l < k PROVE FALSE
      OBVIOUS
    <3>1. l + 1 \in 1 .. k /\ l + 1 \in 1 .. Len(sent) /\ l < Len(sent')
      BY <1>4, <1>5, <2>2
    <3>. QED  BY <1>5, <2>2, <3>1
  <2>4. CASE l = k
    <3>1. SubSeq(Append(sent, m), 1, k) = SubSeq(sent, 1, k)
      BY <1>4
    <3>. QED  BY <1>3, <2>1, <2>4, <3>1 DEF Framing!channelVars
  <2>5. CASE k < l
    <3>1. k = Len(sent) /\ l = Len(sent) + 1
      <4>1. k < Len(sent) => k + 1 \in 1 .. l /\ k + 1 \in 1 .. Len(sent)
        BY <1>4, <1>5, <2>5
      <4>2. ~ (k < Len(sent))
        BY <1>5, <2>2, <4>1
      <4>. QED  BY <1>4, <1>5, <2>2, <2>5, <4>2
    <3>2. SubSeq(sent, 1, k) = sent /\ SubSeq(sent', 1, l) = sent'
      <4>1. sent' \in Seq(PeerMessages)
        BY DEF TypeOK
      <4>. QED  BY <1>4, <2>2, <3>1, <4>1, SubSeqFull
    <3>3. ~ (Len(received) > k)
      BY <1>1, <1>4, <3>1 DEF ReceivedInv
    <3>4. (IF Len(received) < k THEN Len(received) ELSE k) = Len(received)
          /\ (IF Len(received) < l THEN Len(received) ELSE l) = Len(received)
      BY <1>4, <3>1, <3>3
    <3>5. Framing!Send(m)
      BY <1>3, <2>1, <3>2, <3>4 DEF Framing!Send
    <3>. QED  BY <3>5 DEF Framing!Next
  <2>. QED  BY <1>4, <1>5, <2>3, <2>4, <2>5
<1>8. sent' = sent \/ \E m \in PeerMessages : PeerSends(m)
  BY DEF Next, Session, PeerTakes, Open, Handshake, ReadHeader, ReadPayload,
         SendInterested, SendRequest, Send, ReceiveNext, Close, Fail, vars, reading
<1>. QED  BY <1>6, <1>7, <1>8

\* receive() returns the messages of a peer whole and in order, until the peer
\* sends a keep-alive.
THEOREM ImplementsChannel == Spec => FramingSpec
<1>1. Spec => [](TypeOK /\ InboundInv)
  BY TypeInit, TypeStep, InboundInit, InboundStep, PTL DEF Spec
<1>. QED
  BY <1>1, FramingInit, FramingStep, PTL DEF Spec, FramingSpec, Framing!Spec

=============================================================================
