--------------------------- MODULE DivisionFacts ---------------------------
(***************************************************************************)
(* Facts about \div and % that the proofs about sizes and about bytes on   *)
(* the wire share.                                                         *)
(***************************************************************************)
EXTENDS Integers, TLAPS

LEMMA Division ==
  ASSUME NEW a \in Nat, NEW b \in Nat \ {0}
  PROVE  /\ a \div b \in Nat
         /\ a % b \in 0 .. b - 1
         /\ a = b * (a \div b) + (a % b)
  OBVIOUS

LEMMA ProductLarge ==
  ASSUME NEW b \in Nat \ {0}, NEW k \in Nat, k >= 1
  PROVE  b * k >= b
<1>1. b * k = b * (k - 1) + b
  OBVIOUS
<1>2. b * (k - 1) >= 0
  OBVIOUS
<1>. QED  BY <1>1, <1>2

\* Quotient and remainder are the only numbers of their kind.
LEMMA Quotient ==
  ASSUME NEW b \in Nat \ {0}, NEW q \in Nat, NEW r \in 0 .. b - 1
  PROVE  (b * q + r) \div b = q /\ (b * q + r) % b = r
<1>. DEFINE a == b * q + r
            d == a \div b
            m == a % b
<1>1. a \in Nat
  OBVIOUS
<1>2. d \in Nat /\ m \in 0 .. b - 1 /\ a = b * d + m
  BY <1>1, Division
<1>3. b * (q - d) = m - r /\ b * (d - q) = r - m
  BY <1>2
<1>4. CASE q > d
  <2>1. b * (q - d) >= b
    BY <1>4, <1>2, ProductLarge
  <2>. QED  BY <2>1, <1>2, <1>3
<1>5. CASE d > q
  <2>1. b * (d - q) >= b
    BY <1>5, <1>2, ProductLarge
  <2>. QED  BY <2>1, <1>2, <1>3
<1>6. CASE d = q
  BY <1>6, <1>2
<1>. QED  BY <1>2, <1>4, <1>5, <1>6

LEMMA Unchanged ==
  ASSUME NEW b \in Nat \ {0}, NEW a \in 0 .. b - 1
  PROVE  a \div b = 0 /\ a % b = a
<1>1. a = b * 0 + a
  OBVIOUS
<1>. QED  BY <1>1, Quotient

\* Dividing twice is dividing by the product.
LEMMA DivisionTwice ==
  ASSUME NEW n \in Nat, NEW a \in Nat \ {0}, NEW b \in Nat \ {0}
  PROVE  n \div (a * b) = (n \div a) \div b
<1>. DEFINE q == n \div a
            d == q \div b
            r == a * (q % b) + (n % a)
<1>1. q \in Nat /\ n % a \in 0 .. a - 1 /\ n = a * q + (n % a)
  BY Division
<1>2. d \in Nat /\ q % b \in 0 .. b - 1 /\ q = b * d + (q % b)
  BY <1>1, Division
<1>3. n = (a * b) * d + r
  <2>. HIDE DEF d, q
  <2>1. a * q = a * (b * d) + a * (q % b)
    BY <1>1, <1>2
  <2>2. a * (b * d) = (a * b) * d
    BY <1>2
  <2>. QED  BY <1>1, <1>2, <2>1, <2>2
<1>4. r \in 0 .. (a * b) - 1 /\ a * b \in Nat \ {0}
  <2>1. a * (b - 1 - (q % b)) >= 0 /\ a * (q % b) >= 0
    BY <1>2
  <2>2. a * (b - 1 - (q % b)) = a * b - a - a * (q % b)
    BY <1>2
  <2>3. a * b \in Nat \ {0}
    OBVIOUS
  <2>. QED  BY <1>1, <1>2, <2>1, <2>2, <2>3
<1>. HIDE DEF r, d
<1>5. (a * b * d + r) \div (a * b) = d
  BY <1>2, <1>4, Quotient
<1>. QED  BY <1>3, <1>5 DEF d

=============================================================================
