------------------------ MODULE ParseTorrentProofs ------------------------
(***************************************************************************)
(* Proofs about the sizes taken from a torrent file, for every width of    *)
(* the integers, block size and torrent.                                   *)
(***************************************************************************)
EXTENDS ParseTorrent, DivisionFacts, TLAPS

-----------------------------------------------------------------------------
(* Pieces.                                                                 *)

\* The pieces cover the length, the last one with what is left for it.
LEMMA PiecesCover ==
  ASSUME NEW l \in Nat, NEW pl \in Nat \ {0}
  PROVE  LET n == PiecesNumOf(l, pl)  r == LastPieceLengthOf(l, pl) IN
         /\ n \in Nat /\ r \in 0 .. pl - 1
         /\ l # 0 => n >= 1 /\ pl * (n - 1) < l
         /\ l <= pl * n
         /\ r > 0 => n >= 1 /\ l = pl * (n - 1) + r
<1>. DEFINE q == l \div pl
            r == l % pl
<1>1. q \in Nat /\ r \in 0 .. pl - 1 /\ l = pl * q + r
  BY Division
<1>2. CASE r > 0
  <2>1. PiecesNumOf(l, pl) = q + 1
    BY <1>1, <1>2 DEF PiecesNumOf
  <2>2. pl * ((q + 1) - 1) = pl * q /\ pl * (q + 1) = pl * q + pl
    BY <1>1
  <2>. QED  BY <1>1, <1>2, <2>1, <2>2 DEF LastPieceLengthOf
<1>3. CASE r = 0
  <2>1. PiecesNumOf(l, pl) = q
    BY <1>1, <1>3 DEF PiecesNumOf
  <2>2. l # 0 => q >= 1
    BY <1>1, <1>3
  <2>3. pl * (q - 1) = pl * q - pl
    BY <1>1
  <2>. QED  BY <1>1, <1>3, <2>1, <2>2, <2>3 DEF LastPieceLengthOf
<1>. QED  BY <1>1, <1>2, <1>3

-----------------------------------------------------------------------------
(* What a completed piece says about the file.                             *)

SizesInv ==
  /\ fileLength \in 0 .. MaxSize /\ filePieceLength \in 0 .. MaxSize
  /\ phase = "parsed" =>
       /\ length = UnsignedInt(fileLength)
       /\ pieceLength = UnsignedInt(filePieceLength) /\ pieceLength # 0
       /\ lastPieceLength = LastPieceLengthOf(length, pieceLength)
       /\ piecesNum = PiecesNumOf(length, pieceLength)

\* The integers of the client and of the file.
LEMMA Truncated ==
  ASSUME NEW n \in Nat
  PROVE  /\ UnsignedInt(n) \in Nat /\ UnsignedInt(n) <= n
         /\ UnsignedInt(n) < 2 ^ Width
         /\ \E k \in Nat : n = (2 ^ Width) * k + UnsignedInt(n)
         /\ n < 2 ^ Width => UnsignedInt(n) = n
<1>. DEFINE W == 2 ^ Width
            k == n \div W
<1>1. W \in Nat \ {0}
  BY WidthAssumption
<1>. HIDE DEF W
<1>2. k \in Nat /\ n % W \in 0 .. W - 1 /\ n = W * k + (n % W)
  BY <1>1, Division
<1>3. W * k >= 0
  BY <1>1, <1>2
<1>4. n < W => n % W = n
  BY <1>1, Unchanged
<1>5. UnsignedInt(n) = n % W
  BY DEF UnsignedInt, W
<1>6. /\ UnsignedInt(n) \in Nat /\ UnsignedInt(n) <= n /\ UnsignedInt(n) < W
      /\ n = W * k + UnsignedInt(n)
      /\ n < W => UnsignedInt(n) = n
  BY <1>1, <1>2, <1>3, <1>4, <1>5
<1>. QED  BY <1>2, <1>6 DEF W

LEMMA SizesFacts ==
  ASSUME SizesInv, phase = "parsed"
  PROVE  /\ length \in Nat /\ length < 2 ^ Width /\ length <= fileLength
         /\ pieceLength \in Nat \ {0} /\ pieceLength <= filePieceLength
         /\ lastPieceLength \in 0 .. pieceLength - 1
         /\ piecesNum \in Nat
         /\ length # 0 => piecesNum >= 1 /\ pieceLength * (piecesNum - 1) < length
         /\ length <= pieceLength * piecesNum
         /\ lastPieceLength > 0 =>
              piecesNum >= 1 /\ length = pieceLength * (piecesNum - 1) + lastPieceLength
<1>1. fileLength \in Nat /\ filePieceLength \in Nat
  BY MaxSizeAssumption DEF SizesInv
<1>2. length \in Nat /\ length < 2 ^ Width /\ length <= fileLength
  BY <1>1, Truncated DEF SizesInv
<1>3. pieceLength \in Nat \ {0} /\ pieceLength <= filePieceLength
  BY <1>1, Truncated DEF SizesInv
<1>. QED  BY <1>2, <1>3, PiecesCover DEF SizesInv

\* Piece i starts inside the length, so that its place does not wrap.
LEMMA PlaceOf ==
  ASSUME SizesInv, phase = "parsed", NEW i \in 0 .. piecesNum - 1
  PROVE  Place(i) = pieceLength * i /\ pieceLength * i < length
<1>1. /\ length \in Nat /\ length < 2 ^ Width
      /\ pieceLength \in Nat \ {0} /\ piecesNum \in Nat
      /\ length # 0 => pieceLength * (piecesNum - 1) < length
  BY SizesFacts
<1>2. length # 0
  <2>1. length = 0 => piecesNum = 0
    <3>. SUFFICES ASSUME length = 0 PROVE piecesNum = 0
      OBVIOUS
    <3>1. 0 \div pieceLength = 0 /\ 0 % pieceLength = 0
      BY <1>1, Unchanged
    <3>. QED  BY <3>1 DEF SizesInv, PiecesNumOf
  <2>. QED  BY <2>1
<1>3. pieceLength * i <= pieceLength * (piecesNum - 1)
  <2>1. pieceLength * (piecesNum - 1) = pieceLength * i + pieceLength * (piecesNum - 1 - i)
    BY <1>1
  <2>2. pieceLength * (piecesNum - 1 - i) >= 0
    BY <1>1
  <2>3. pieceLength * i \in Nat /\ pieceLength * (piecesNum - 1 - i) \in Int
    BY <1>1
  <2>. QED  BY <2>1, <2>2, <2>3
<1>4. i * pieceLength = pieceLength * i /\ pieceLength * i \in Nat
  BY <1>1
<1>5. pieceLength * i < length
  BY <1>1, <1>2, <1>3, <1>4
<1>6. UnsignedInt(pieceLength * i) = pieceLength * i
  BY <1>1, <1>4, <1>5, Truncated, WidthAssumption
<1>. QED  BY <1>4, <1>5, <1>6 DEF Place

\* A piece before the last completes only if the piece length was not cut.
LEMMA FullPiece ==
  ASSUME SizesInv, phase = "parsed", NEW i \in 0 .. piecesNum - 2, Completes(i)
  PROVE  filePieceLength = pieceLength
<1>. DEFINE W == 2 ^ Width
<1>1. /\ length \in Nat /\ length < W /\ pieceLength \in Nat \ {0}
      /\ piecesNum \in Nat /\ fileLength \in Nat /\ filePieceLength \in Nat
      /\ W \in Nat \ {0}
  BY SizesFacts, WidthAssumption, MaxSizeAssumption DEF SizesInv
<1>2. pieceLength = TrueLengthOf(fileLength, filePieceLength, i)
  <2>1. i # piecesNum - 1
    BY <1>1
  <2>. QED  BY <2>1 DEF Completes, BufferLength, TrueLength
<1>3. CASE (i + 1) * filePieceLength <= fileLength
  BY <1>2, <1>3 DEF TrueLengthOf
<1>4. CASE ~ ((i + 1) * filePieceLength <= fileLength)
  <2>1. fileLength = i * filePieceLength + pieceLength
    <3>1. pieceLength = fileLength - i * filePieceLength
      BY <1>2, <1>4 DEF TrueLengthOf
    <3>2. i * filePieceLength \in Int
      BY <1>1
    <3>. QED  BY <1>1, <3>1, <3>2
  <2>2. PICK k \in Nat : filePieceLength = W * k + pieceLength
    BY <1>1, Truncated DEF SizesInv
  <2>3. pieceLength * (i + 1) < length
    BY <1>1, PlaceOf, i + 1 \in 0 .. piecesNum - 1
  <2>4. fileLength = W * (k * i) + pieceLength * (i + 1)
    <3>. HIDE DEF W
    <3>1. i * (W * k + pieceLength) + pieceLength = W * (k * i) + pieceLength * (i + 1)
      BY <1>1
    <3>. QED  BY <2>1, <2>2, <3>1
  <2>5. length = pieceLength * (i + 1)
    <3>1. k * i \in Nat /\ pieceLength * (i + 1) \in 0 .. W - 1
      BY <1>1, <2>3
    <3>2. fileLength % W = pieceLength * (i + 1)
      BY <1>1, <2>4, <3>1, Quotient
    <3>. QED  BY <3>2 DEF SizesInv, UnsignedInt
  <2>. QED  BY <1>1, <2>3, <2>5
<1>. QED  BY <1>3, <1>4

\* The last piece completes only if it is what the file has left at its index.
LEMMA LastPiece ==
  ASSUME SizesInv, phase = "parsed", piecesNum >= 1, Completes(piecesNum - 1)
  PROVE  /\ lastPieceLength > 0 /\ lastPieceLength < filePieceLength
         /\ fileLength = filePieceLength * (piecesNum - 1) + lastPieceLength
<1>. DEFINE i == piecesNum - 1
<1>1. /\ pieceLength \in Nat \ {0} /\ pieceLength <= filePieceLength
      /\ lastPieceLength \in 0 .. pieceLength - 1
      /\ i \in Nat /\ fileLength \in Nat /\ filePieceLength \in Nat
  BY SizesFacts, MaxSizeAssumption DEF SizesInv
<1>2. BlocksCount(i) > 0 /\ lastPieceLength = TrueLengthOf(fileLength, filePieceLength, i)
  BY DEF Completes, BufferLength, TrueLength
<1>3. lastPieceLength > 0
  <2>1. 0 \div BlockSize = 0
    BY BlockSizeAssumption, Unchanged
  <2>. QED  BY <1>1, <1>2, <2>1 DEF BlocksCount, BufferLength
<1>4. lastPieceLength # filePieceLength
  BY <1>1
<1>5. lastPieceLength = fileLength - i * filePieceLength
  BY <1>2, <1>4 DEF TrueLengthOf
<1>6. i * filePieceLength = filePieceLength * i /\ i * filePieceLength \in Nat
  BY <1>1
<1>. QED  BY <1>1, <1>3, <1>5, <1>6

\* Where the bytes of a completed piece go, when the piece length was not cut or
\* there is one piece only.
LEMMA PieceBytes ==
  ASSUME SizesInv, phase = "parsed", filePieceLength = pieceLength \/ piecesNum = 1,
         NEW i \in 0 .. piecesNum - 1, Completes(i),
         NEW o \in Nat, Place(i) <= o, o < Place(i) + BufferLength(i)
  PROVE  o < fileLength /\ o \div filePieceLength = i
<1>1. /\ length \in Nat /\ length <= fileLength /\ fileLength \in Nat
      /\ pieceLength \in Nat \ {0} /\ pieceLength <= filePieceLength
      /\ filePieceLength \in Nat \ {0}
      /\ lastPieceLength \in 0 .. pieceLength - 1 /\ piecesNum \in Nat
  BY SizesFacts, MaxSizeAssumption DEF SizesInv
<1>2. Place(i) = pieceLength * i
  BY PlaceOf
<1>. DEFINE r == o - pieceLength * i
<1>3. pieceLength * i \in Nat
  BY <1>1
<1>4. CASE i # piecesNum - 1
  <2>1. filePieceLength = pieceLength
    BY <1>1, <1>4
  <2>2. BufferLength(i) = pieceLength
    BY <1>4 DEF BufferLength
  <2>3. r \in 0 .. pieceLength - 1 /\ o = pieceLength * i + r
    BY <1>1, <1>2, <1>3, <2>2
  <2>4. o \div filePieceLength = i
    BY <1>1, <2>1, <2>3, Quotient
  <2>5. pieceLength * (i + 1) < length
    BY <1>1, <1>4, PlaceOf, i + 1 \in 0 .. piecesNum - 1
  <2>6. pieceLength * (i + 1) = pieceLength * i + pieceLength
    BY <1>1
  <2>. QED  BY <1>1, <1>3, <2>3, <2>4, <2>5, <2>6
<1>5. CASE i = piecesNum - 1
  <2>1. /\ lastPieceLength < filePieceLength
        /\ fileLength = filePieceLength * i + lastPieceLength
    BY <1>1, <1>5, LastPiece
  <2>2. filePieceLength * i = pieceLength * i
    <3>1. CASE piecesNum = 1
      BY <1>1, <1>5, <3>1
    <3>. QED  BY <3>1
  <2>3. BufferLength(i) = lastPieceLength
    BY <1>5 DEF BufferLength
  <2>4. r \in 0 .. lastPieceLength - 1 /\ o = filePieceLength * i + r
    BY <1>1, <1>2, <1>3, <2>2, <2>3
  <2>5. o \div filePieceLength = i
    BY <1>1, <2>1, <2>4, Quotient
  <2>. QED  BY <1>1, <1>3, <2>1, <2>2, <2>4, <2>5
<1>. QED  BY <1>4, <1>5

-----------------------------------------------------------------------------
(* The invariant.                                                          *)

InPiece(i, o) == Place(i) <= o /\ o < Place(i) + BufferLength(i)

\* A byte was written for a stored piece it belongs to.
WrittenInv ==
  /\ written \in [Places -> Int]
  /\ \A o \in Places : written[o] # Nowhere => written[o] \in stored /\ InPiece(written[o], o)

\* A stored piece completed, and all its bytes were written.
StoredInv ==
  /\ phase # "parsed" => stored = {}
  /\ stored \subseteq 0 .. piecesNum - 1
  /\ \A i \in stored :
       Completes(i) /\ \A o \in Places : InPiece(i, o) => written[o] # Nowhere

FileInv == SizesInv /\ WrittenInv /\ StoredInv

LEMMA FileInit == Init => FileInv
<1>. SUFFICES ASSUME Init PROVE FileInv
  OBVIOUS
<1>1. SizesInv
  BY DEF Init, SizesInv
<1>2. WrittenInv
  BY DEF Init, WrittenInv, Nowhere
<1>3. StoredInv
  BY DEF Init, StoredInv
<1>. QED  BY <1>1, <1>2, <1>3 DEF FileInv

LEMMA FileStep == FileInv /\ [Next]_vars => FileInv'
<1>. SUFFICES ASSUME FileInv, [Next]_vars PROVE FileInv'
  OBVIOUS
<1>. USE DEF FileInv
<1>1. ASSUME Parse PROVE FileInv'
  <2>1. SizesInv'
    BY <1>1 DEF Parse, SizesInv, LastLength, PiecesNumber, torrentFile, UnsignedInt
  <2>2. stored = {} /\ stored' = {} /\ written' = written
    BY <1>1 DEF Parse, StoredInv
  <2>3. WrittenInv' /\ StoredInv'
    BY <2>2 DEF WrittenInv, StoredInv
  <2>. QED  BY <2>1, <2>3
<1>2. ASSUME DivideByZero \/ ParseFails PROVE FileInv'
  <2>1. SizesInv'
    BY <1>2 DEF DivideByZero, ParseFails, SizesInv, torrentFile
  <2>2. stored = {} /\ stored' = {} /\ written' = written
    BY <1>2 DEF DivideByZero, ParseFails, StoredInv
  <2>3. WrittenInv' /\ StoredInv'
    BY <2>2 DEF WrittenInv, StoredInv
  <2>. QED  BY <2>1, <2>3
<1>3. ASSUME NEW i \in 0 .. MaxSize, StorePiece(i) PROVE FileInv'
  <2>. USE <1>3 DEF StorePiece, torrentFile, sizes
  <2>1. SizesInv'
    BY DEF SizesInv
  <2>2. \A j, o : /\ InPiece(j, o)' <=> InPiece(j, o)
                  /\ Completes(j)' <=> Completes(j)
    BY DEF InPiece, Place, BufferLength, Completes, BlocksCount, TrueLength, UnsignedInt
  <2>3. \A o \in Places : written'[o] = IF InPiece(i, o) THEN i ELSE written[o]
    BY DEF InPiece
  <2>4. i # Nowhere /\ i \in Int
    BY MaxSizeAssumption DEF Nowhere
  <2>5. WrittenInv'
    <3>1. written' \in [Places -> Int]
      BY <2>4 DEF WrittenInv
    <3>. QED  BY <2>2, <2>3, <3>1 DEF WrittenInv
  <2>6. StoredInv'
    BY <2>2, <2>3, <2>4 DEF StoredInv
  <2>. QED  BY <2>1, <2>5, <2>6
<1>4. ASSUME UNCHANGED vars PROVE FileInv'
  <2>. USE <1>4 DEF vars, torrentFile, sizes
  <2>1. SizesInv'
    BY DEF SizesInv
  <2>2. WrittenInv' /\ StoredInv'
    BY DEF WrittenInv, StoredInv, InPiece, Place, BufferLength, Completes, BlocksCount, TrueLength
  <2>. QED  BY <2>1, <2>2
<1>. QED  BY <1>1, <1>2, <1>3, <1>4 DEF Next

\* What is in the file and what the counters say of it.
THEOREM FileInvariant == Spec => []FileInv
BY FileInit, FileStep, PTL DEF Spec

\* With a piece length that fits the integer every byte is in its place.
THEOREM InPlace == Spec => []BytesInPlace
<1>1. FileInv => BytesInPlace
  <2>. SUFFICES ASSUME FileInv, filePieceLength = pieceLength,
                       NEW o \in Places, written[o] # Nowhere
                PROVE  o < fileLength /\ written[o] = o \div filePieceLength
    BY DEF BytesInPlace
  <2>1. /\ written[o] \in stored /\ InPiece(written[o], o) /\ phase = "parsed"
        /\ written[o] \in 0 .. piecesNum - 1 /\ Completes(written[o])
    BY DEF FileInv, WrittenInv, StoredInv
  <2>2. o \in Nat
    BY MaxSizeAssumption DEF Places
  <2>. QED  BY <2>1, <2>2, PieceBytes DEF FileInv, InPiece
<1>. QED  BY <1>1, FileInvariant, PTL

\* All pieces stored and something left of the length: the file is the torrent.
THEOREM WholeFile == Spec => []StoredIsWhole
<1>1. FileInv => StoredIsWhole
  <2>. SUFFICES ASSUME FileInv, AllStored, length # 0, NEW o \in 0 .. fileLength - 1
                PROVE  written[o] = o \div filePieceLength
    BY DEF StoredIsWhole, FileInv, SizesInv, AllStored
  <2>. DEFINE n == piecesNum
              i == o \div filePieceLength
              r == o % filePieceLength
  <2>1. /\ SizesInv /\ phase = "parsed" /\ stored = 0 .. n - 1
        /\ \A j \in 0 .. n - 1 : Completes(j)
    BY DEF FileInv, AllStored, StoredInv
  <2>2. /\ n \in Nat /\ n >= 1 /\ fileLength \in Nat /\ o \in Nat /\ o \in Places
        /\ pieceLength \in Nat \ {0} /\ filePieceLength \in Nat \ {0}
    BY <2>1, SizesFacts, MaxSizeAssumption DEF SizesInv, Places
  <2>3. /\ lastPieceLength > 0 /\ lastPieceLength < filePieceLength /\ lastPieceLength \in Nat
        /\ fileLength = filePieceLength * (n - 1) + lastPieceLength
    BY <2>1, <2>2, LastPiece, SizesFacts
  <2>4. pieceLength = filePieceLength \/ n = 1
    <3>1. n > 1 => Completes(0) /\ 0 \in 0 .. n - 2
      BY <2>1, <2>2
    <3>. QED  BY <2>1, <2>2, <3>1, FullPiece
  <2>5. i \in Nat /\ r \in 0 .. filePieceLength - 1 /\ o = filePieceLength * i + r
    BY <2>2, Division
  <2>6. i <= n - 1 /\ (i = n - 1 => r < lastPieceLength)
    <3>1. i > n - 1 => FALSE
      <4>. SUFFICES ASSUME i > n - 1 PROVE FALSE
        OBVIOUS
      <4>1. filePieceLength * (i - (n - 1)) >= filePieceLength
        BY <2>2, <2>5, ProductLarge
      <4>2. filePieceLength * i = filePieceLength * (n - 1) + filePieceLength * (i - (n - 1))
        BY <2>2, <2>5
      <4>3. filePieceLength * i \in Int /\ filePieceLength * (n - 1) \in Int
        BY <2>2, <2>5
      <4>. HIDE DEF i, r
      <4>. QED  BY <2>2, <2>3, <2>5, <4>1, <4>2, <4>3
    <3>2. i = n - 1 => r < lastPieceLength
      <4>1. filePieceLength * (n - 1) \in Int
        BY <2>2
      <4>. HIDE DEF i, r
      <4>. QED  BY <2>2, <2>3, <2>5, <4>1
    <3>. HIDE DEF i
    <3>. QED  BY <2>2, <2>5, <3>1, <3>2
  <2>. HIDE DEF i, r
  <2>7. i \in 0 .. n - 1
    BY <2>2, <2>5, <2>6
  <2>8. InPiece(i, o)
    <3>1. Place(i) = pieceLength * i
      BY <2>1, <2>7, PlaceOf
    <3>2. pieceLength * i = filePieceLength * i /\ pieceLength * i \in Nat
      <4>1. CASE n = 1
        BY <2>2, <2>7, <4>1
      <4>. QED  BY <2>2, <2>4, <2>7, <4>1
    <3>3. i # n - 1 => BufferLength(i) = filePieceLength
      BY <2>2, <2>4, <2>7 DEF BufferLength
    <3>4. i = n - 1 => BufferLength(i) = lastPieceLength
      BY DEF BufferLength
    <3>. QED  BY <2>2, <2>3, <2>5, <2>6, <3>1, <3>2, <3>3, <3>4 DEF InPiece
  <2>9. PICK j \in 0 .. n - 1 : written[o] = j /\ Completes(j) /\ InPiece(j, o)
    BY <2>1, <2>2, <2>7, <2>8 DEF FileInv, StoredInv, WrittenInv
  <2>10. o \div filePieceLength = j
    BY <2>1, <2>2, <2>4, <2>9, PieceBytes DEF InPiece
  <2>. QED  BY <2>9, <2>10
<1>. QED  BY <1>1, FileInvariant, PTL

-----------------------------------------------------------------------------
(* Torrents that can complete.                                             *)

LEMMA Filled ==
  ASSUME NEW n \in Nat \ {0}
  PROVE  n % BlockSize = 0 <=> n \div BlockSize > 0 /\ (n \div BlockSize) * BlockSize = n
<1>. DEFINE q == n \div BlockSize
            r == n % BlockSize
<1>1. q \in Nat /\ r \in 0 .. BlockSize - 1 /\ n = BlockSize * q + r
  BY BlockSizeAssumption, Division
<1>. HIDE DEF q, r
<1>2. q * BlockSize = BlockSize * q /\ BlockSize * q \in Nat /\ (q = 0 => BlockSize * q = 0)
  BY <1>1, BlockSizeAssumption
<1>3. r = 0 <=> q > 0 /\ q * BlockSize = n
  BY <1>1, <1>2
<1>. QED  BY <1>3 DEF q, r

\* A piece completes when whole blocks fill it and it is the file's.
LEMMA CompletesIff ==
  ASSUME NEW i, BufferLength(i) \in Nat
  PROVE  Completes(i) <=> /\ BufferLength(i) # 0
                          /\ BufferLength(i) % BlockSize = 0
                          /\ BufferLength(i) = TrueLength(i)
<1>1. CASE BufferLength(i) = 0
  <2>1. 0 \div BlockSize = 0
    BY BlockSizeAssumption, Unchanged
  <2>. QED  BY <1>1, <2>1 DEF Completes, BlocksCount
<1>2. CASE BufferLength(i) # 0
  BY <1>2, Filled DEF Completes, BlocksCount
<1>. QED  BY <1>1, <1>2

LEMMA CompletableAll ==
  ASSUME SizesInv, phase = "parsed", FittingSizes,
         NEW i \in 0 .. piecesNum - 1
  PROVE  Completes(i)
<1>. DEFINE n == piecesNum
<1>0. length # 0
  <2>1. filePieceLength \in Nat \ {0} /\ fileLength = length
    BY SizesFacts, MaxSizeAssumption DEF SizesInv, FittingSizes
  <2>2. 0 % filePieceLength = 0
    BY <2>1, Unchanged
  <2>. QED  BY <2>1, <2>2 DEF FittingSizes
<1>1. /\ n \in Nat /\ n >= 1 /\ fileLength \in Nat /\ length = fileLength
      /\ pieceLength \in Nat \ {0} /\ pieceLength <= filePieceLength
      /\ filePieceLength \in Nat \ {0}
      /\ lastPieceLength \in 0 .. pieceLength - 1
      /\ pieceLength * (n - 1) < length
  BY <1>0, SizesFacts, MaxSizeAssumption DEF SizesInv, FittingSizes
<1>2. CASE fileLength < pieceLength
  <2>1. fileLength \div pieceLength = 0 /\ fileLength % pieceLength = fileLength
    BY <1>1, <1>2, Unchanged
  <2>2. fileLength % filePieceLength = fileLength
    BY <1>1, <1>2, Unchanged
  <2>3. n = 1 /\ lastPieceLength = fileLength
    BY <1>1, <2>1 DEF SizesInv, PiecesNumOf, LastPieceLengthOf
  <2>4. i = 0 /\ BufferLength(i) = fileLength
    BY <2>3 DEF BufferLength
  <2>5. TrueLength(i) = fileLength
    BY <1>1, <1>2, <2>4 DEF TrueLength, TrueLengthOf
  <2>. QED  BY <1>1, <2>2, <2>4, <2>5, CompletesIff DEF FittingSizes
<1>3. CASE filePieceLength = pieceLength
  <2>1. lastPieceLength = fileLength % filePieceLength
    BY <1>1, <1>3 DEF SizesInv, LastPieceLengthOf
  <2>2. lastPieceLength > 0 /\ fileLength = pieceLength * (n - 1) + lastPieceLength
    BY <1>1, <2>1, SizesFacts DEF FittingSizes
  <2>3. (i + 1) * pieceLength = pieceLength * (i + 1) /\ i * pieceLength = pieceLength * i
    BY <1>1
  <2>4. CASE i = n - 1
    <3>1. BufferLength(i) = lastPieceLength
      BY <2>4 DEF BufferLength
    <3>2. pieceLength * (i + 1) = pieceLength * (n - 1) + pieceLength
      BY <1>1, <2>4
    <3>3. pieceLength * (n - 1) \in Nat
      BY <1>1
    <3>4. ~ ((i + 1) * pieceLength <= fileLength)
      BY <1>1, <2>2, <2>3, <3>2, <3>3
    <3>5. TrueLength(i) = lastPieceLength
      BY <1>1, <1>3, <2>2, <2>3, <2>4, <3>3, <3>4 DEF TrueLength, TrueLengthOf
    <3>. QED  BY <1>1, <2>1, <2>2, <3>1, <3>5, CompletesIff DEF FittingSizes
  <2>5. CASE i # n - 1
    <3>1. BufferLength(i) = pieceLength
      BY <2>5 DEF BufferLength
    <3>2. pieceLength * (i + 1) < length
      BY <1>1, <2>5, PlaceOf, i + 1 \in 0 .. n - 1
    <3>3. TrueLength(i) = pieceLength
      BY <1>1, <1>3, <2>3, <3>2 DEF TrueLength, TrueLengthOf
    <3>4. fileLength > filePieceLength
      <4>1. pieceLength * (i + 1) >= pieceLength
        BY <1>1, ProductLarge
      <4>. QED  BY <1>1, <1>3, <3>2, <4>1
    <3>. QED  BY <1>1, <1>3, <3>1, <3>3, <3>4, CompletesIff DEF FittingSizes
  <2>. QED  BY <2>4, <2>5
<1>. QED  BY <1>2, <1>3 DEF FittingSizes

\* Torrents of the sizes FittingSizes describes can complete.
THEOREM CompletableTorrents == Spec => []CompletableSizes
<1>1. FileInv => CompletableSizes
  BY CompletableAll DEF FileInv, CompletableSizes
<1>. QED  BY <1>1, FileInvariant, PTL

=============================================================================
