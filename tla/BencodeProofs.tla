--------------------------- MODULE BencodeProofs ----------------------------
(***************************************************************************)
(* Proofs about the integers of Bencode, for every base and every limit:   *)
(* decode_digits accepts what fits and returns what the digits say.        *)
(*                                                                         *)
(* Recursive functions are reasoned about by induction on sets of          *)
(* naturals, which well-foundedness gives.                                 *)
(***************************************************************************)
EXTENDS Bencode, DivisionFacts, SequenceTheorems, WellFoundedInduction, TLAPS

-----------------------------------------------------------------------------
(* Induction and recursion.                                                *)

\* A set that has zero, and the successor of each natural it has.
LEMMA SetInduction ==
  ASSUME NEW S, 0 \in S, \A n \in Nat : n \in S => n + 1 \in S
  PROVE  Nat \subseteq S
<1>. DEFINE T == Nat \ S
            R == OpToRel(<, Nat)
<1>. SUFFICES ASSUME T # {} PROVE FALSE
  OBVIOUS
<1>1. IsWellFoundedOn(R, Nat)
  BY NatLessThanWellFounded, Zenon
<1>. HIDE DEF R
<1>2. PICK n \in T : \A m \in T : ~ (<<m, n>> \in R)
  BY <1>1, WFMin
<1>3. \A m \in T : ~ (m < n)
  BY <1>2 DEF R, OpToRel
<1>4. n \in Nat /\ n # 0
  OBVIOUS
<1>5. n - 1 \in Nat /\ n - 1 < n
  BY <1>4
<1>6. n - 1 \in S
  BY <1>3, <1>5
<1>. QED  BY <1>4, <1>5, <1>6

\* v begins with r and goes on up to n with v[k + 1] = v[k] * b + c[k + 1].
Runs(v, r, b, c, n) ==
  /\ v \in [0 .. n -> Int]
  /\ v[0] = r
  /\ \A k \in 0 .. n - 1 : v[k + 1] = v[k] * b + c[k + 1]

LEMMA RunLonger ==
  ASSUME NEW r \in Int, NEW b \in Int, NEW c, \A k \in Nat : c[k + 1] \in Int,
         NEW n \in Nat, NEW v, Runs(v, r, b, c, n)
  PROVE  \E w : Runs(w, r, b, c, n + 1)
<1>. DEFINE w == [k \in 0 .. n + 1 |-> IF k <= n THEN v[k] ELSE v[n] * b + c[n + 1]]
<1>1. v \in [0 .. n -> Int] /\ v[0] = r /\ \A k \in 0 .. n - 1 : v[k + 1] = v[k] * b + c[k + 1]
  BY DEF Runs
<1>2. v[n] \in Int /\ c[n + 1] \in Int /\ v[n] * b + c[n + 1] \in Int
  BY <1>1
<1>3. w \in [0 .. n + 1 -> Int] /\ w[0] = r
  BY <1>1, <1>2
<1>4. ASSUME NEW k \in 0 .. n PROVE w[k + 1] = w[k] * b + c[k + 1]
  <2>1. w[k] = v[k]
    OBVIOUS
  <2>2. CASE k = n
    <3>1. w[n + 1] = v[n] * b + c[n + 1]
      OBVIOUS
    <3>. QED  BY <2>1, <2>2, <3>1
  <2>3. CASE k \in 0 .. n - 1
    <3>1. w[k + 1] = v[k + 1]
      BY <2>3
    <3>. QED  BY <1>1, <2>1, <2>3, <3>1
  <2>. QED  BY <2>2, <2>3
<1>. HIDE DEF w
<1>5. Runs(w, r, b, c, n + 1)
  BY <1>3, <1>4 DEF Runs
<1>. QED  BY <1>5

LEMMA RunsExist ==
  ASSUME NEW r \in Int, NEW b \in Int, NEW c, \A k \in Nat : c[k + 1] \in Int
  PROVE  \A n \in Nat : \E v : Runs(v, r, b, c, n)
<1>. DEFINE S == {n \in Nat : \E v : Runs(v, r, b, c, n)}
<1>1. 0 \in S
  <2>. DEFINE v == [k \in 0 .. 0 |-> r]
  <2>1. v \in [0 .. 0 -> Int] /\ v[0] = r /\ 0 .. 0 - 1 = {}
    OBVIOUS
  <2>. HIDE DEF v
  <2>2. Runs(v, r, b, c, 0)
    BY <2>1 DEF Runs
  <2>. QED  BY <2>2
<1>2. ASSUME NEW n \in Nat, n \in S PROVE n + 1 \in S
  <2>1. PICK v : Runs(v, r, b, c, n)
    BY <1>2
  <2>2. \E w : Runs(w, r, b, c, n + 1)
    BY <2>1, RunLonger
  <2>. QED  BY <2>2
<1>. HIDE DEF S
<1>3. Nat \subseteq S
  BY <1>1, <1>2, SetInduction
<1>. QED  BY <1>3 DEF S

\* Two of them agree as far as both go.
LEMMA RunsAgree ==
  ASSUME NEW r \in Int, NEW b \in Int, NEW c,
         NEW m \in Nat, NEW n \in Nat, NEW v, Runs(v, r, b, c, m), NEW w, Runs(w, r, b, c, n)
  PROVE  \A k \in Nat : k <= m /\ k <= n => v[k] = w[k]
<1>. DEFINE S == {k \in Nat : k <= m /\ k <= n => v[k] = w[k]}
<1>1. 0 \in S
  BY DEF Runs
<1>2. ASSUME NEW k \in Nat, k \in S PROVE k + 1 \in S
  <2>. SUFFICES ASSUME k + 1 <= m, k + 1 <= n PROVE v[k + 1] = w[k + 1]
    OBVIOUS
  <2>1. k \in 0 .. m - 1 /\ k \in 0 .. n - 1 /\ v[k] = w[k]
    BY <1>2
  <2>. QED  BY <2>1 DEF Runs
<1>. HIDE DEF S
<1>3. Nat \subseteq S
  BY <1>1, <1>2, SetInduction
<1>. QED  BY <1>3 DEF S

\* A recursive function on the naturals.
Recurs(v, r, b, c) ==
  /\ v \in [Nat -> Int]
  /\ v[0] = r
  /\ \A k \in Nat : v[k + 1] = v[k] * b + c[k + 1]

LEMMA Recursion ==
  ASSUME NEW r \in Int, NEW b \in Int, NEW c, \A k \in Nat : c[k + 1] \in Int
  PROVE  \E v : Recurs(v, r, b, c)
<1>. DEFINE V(n) == CHOOSE v : Runs(v, r, b, c, n)
            w == [n \in Nat |-> V(n)[n]]
<1>1. \A n \in Nat : Runs(V(n), r, b, c, n)
  BY RunsExist
<1>. HIDE DEF V
<1>2. w \in [Nat -> Int]
  BY <1>1 DEF Runs
<1>3. w[0] = r
  BY <1>1 DEF Runs
<1>4. ASSUME NEW k \in Nat PROVE w[k + 1] = w[k] * b + c[k + 1]
  <2>1. Runs(V(k), r, b, c, k) /\ Runs(V(k + 1), r, b, c, k + 1)
    BY <1>1
  <2>2. V(k + 1)[k] = V(k)[k]
    BY <2>1, RunsAgree
  <2>3. V(k + 1)[k + 1] = V(k + 1)[k] * b + c[k + 1]
    BY <2>1 DEF Runs
  <2>. QED  BY <2>2, <2>3
<1>. HIDE DEF w
<1>5. Recurs(w, r, b, c)
  BY <1>2, <1>3, <1>4 DEF Recurs
<1>. QED  BY <1>5

\* And one on the first of them, as it is written.
Equation(f, r, b, c, n) == f = [k \in 0 .. n |-> IF k = 0 THEN r ELSE f[k - 1] * b + c[k]]

LEMMA EquationSolved ==
  ASSUME NEW r \in Int, NEW b \in Int, NEW c, \A k \in Nat : c[k + 1] \in Int, NEW n \in Nat
  PROVE  \E f : Equation(f, r, b, c, n)
<1>1. PICK f : Runs(f, r, b, c, n)
  BY RunsExist
<1>2. ASSUME NEW k \in 0 .. n
      PROVE  f[k] = IF k = 0 THEN r ELSE f[k - 1] * b + c[k]
  <2>1. CASE k = 0
    BY <1>1, <2>1 DEF Runs
  <2>2. CASE k # 0
    <3>1. PICK j \in 0 .. n - 1 : k = j + 1
      <4>1. k - 1 \in 0 .. n - 1 /\ k = (k - 1) + 1
        BY <2>2
      <4>. QED  BY <4>1
    <3>2. f[j + 1] = f[j] * b + c[j + 1]
      BY <1>1, <3>1 DEF Runs
    <3>3. k - 1 = j
      BY <3>1
    <3>. QED  BY <2>2, <3>1, <3>2, <3>3
  <2>. QED  BY <2>1, <2>2
<1>3. Equation(f, r, b, c, n)
  BY <1>1, <1>2 DEF Runs, Equation
<1>. QED  BY <1>3

LEMMA EquationRuns ==
  ASSUME NEW r \in Int, NEW b \in Int, NEW c, \A k \in Nat : c[k + 1] \in Int, NEW n \in Nat,
         NEW f, Equation(f, r, b, c, n)
  PROVE  Runs(f, r, b, c, n)
<1>. DEFINE F == [k \in 0 .. n |-> IF k = 0 THEN r ELSE f[k - 1] * b + c[k]]
            S == {k \in Nat : k <= n => f[k] \in Int}
<1>1. f = F
  BY DEF Equation
<1>2. f[0] = r
  BY <1>1
<1>3. ASSUME NEW k \in 0 .. n - 1 PROVE f[k + 1] = f[k] * b + c[k + 1]
  <2>1. PICK j \in 0 .. n : j = k + 1 /\ j # 0 /\ j - 1 = k
    OBVIOUS
  <2>2. f[j] = f[j - 1] * b + c[j]
    <3>1. F[j] = f[j - 1] * b + c[j]
      BY <2>1
    <3>. QED  BY <1>1, <3>1, Zenon
  <2>. QED  BY <2>1, <2>2
<1>4. \A k \in 0 .. n : f[k] \in Int
  <2>1. 0 \in S
    BY <1>2
  <2>2. ASSUME NEW k \in Nat, k \in S PROVE k + 1 \in S
    <3>. SUFFICES ASSUME k + 1 <= n PROVE f[k + 1] \in Int
      OBVIOUS
    <3>1. k \in 0 .. n - 1 /\ f[k] \in Int /\ c[k + 1] \in Int
      BY <2>2
    <3>2. f[k] * b \in Int
      BY <3>1
    <3>. QED  BY <1>3, <3>1, <3>2
  <2>. HIDE DEF S
  <2>3. Nat \subseteq S
    BY <2>1, <2>2, SetInduction
  <2>. QED  BY <2>3 DEF S
<1>5. f \in [0 .. n -> Int]
  <2>1. f = [k \in 0 .. n |-> f[k]]
    BY <1>1
  <2>. QED  BY <1>4, <2>1
<1>. QED  BY <1>2, <1>3, <1>5 DEF Runs

-----------------------------------------------------------------------------
(* Powers, and the values of digits.                                       *)

LEMMA PowerDefined ==
  /\ Power \in [Nat -> Int]
  /\ Power[0] = 1
  /\ \A k \in Nat : Power[k + 1] = Power[k] * Base
<1>. DEFINE F(f) == [k \in Nat |-> IF k = 0 THEN 1 ELSE f[k - 1] * Base]
            c == [k \in Nat |-> 0]
<1>1. \E v : v = F(v)
  <2>1. \A k \in Nat : c[k + 1] = 0
    OBVIOUS
  <2>. HIDE DEF c
  <2>2. \A k \in Nat : c[k + 1] \in Int
    BY <2>1
  <2>3. PICK v : Recurs(v, 1, Base, c)
    BY <2>2, BaseAssumption, Recursion
  <2>4. /\ v \in [Nat -> Int] /\ v[0] = 1
        /\ \A k \in Nat : v[k + 1] = v[k] * Base + c[k + 1]
    BY <2>3 DEF Recurs
  <2>5. ASSUME NEW k \in Nat PROVE v[k] = IF k = 0 THEN 1 ELSE v[k - 1] * Base
    <3>1. CASE k = 0
      BY <2>4, <3>1
    <3>2. CASE k # 0
      <4>1. PICK j \in Nat : k = j + 1
        <5>1. k - 1 \in Nat /\ k = (k - 1) + 1
          BY <3>2
        <5>. QED  BY <5>1
      <4>2. v[k] = v[j] * Base + 0 /\ v[j] * Base \in Int /\ k - 1 = j
        BY <2>1, <2>4, <4>1, BaseAssumption
      <4>. QED  BY <3>2, <4>2
    <3>. QED  BY <3>1, <3>2
  <2>. QED  BY <2>4, <2>5
<1>2. Power = F(Power)
  BY <1>1, Zenon DEF Power
<1>3. Power[0] = 1
  BY <1>2
<1>4. \A k \in Nat : Power[k + 1] = Power[k] * Base
  <2>. TAKE k \in Nat
  <2>1. PICK j \in Nat : j = k + 1 /\ j # 0 /\ j - 1 = k
    OBVIOUS
  <2>2. Power[j] = F(Power)[j]
    BY <1>2
  <2>3. Power[j] = Power[j - 1] * Base
    BY <2>1, <2>2
  <2>. QED  BY <2>1, <2>3
<1>. DEFINE S == {k \in Nat : Power[k] \in Int}
<1>5. Nat \subseteq S
  <2>1. 0 \in S
    BY <1>3
  <2>2. \A k \in Nat : k \in S => k + 1 \in S
    BY <1>4, BaseAssumption
  <2>. HIDE DEF S
  <2>. QED  BY <2>1, <2>2, SetInduction
<1>. QED
  <2>1. Power = [k \in Nat |-> Power[k]]
    BY <1>2
  <2>2. Power \in [Nat -> Int]
    BY <1>5, <2>1
  <2>. QED  BY <1>3, <1>4, <2>2

LEMMA PowerGrows == \A k \in Nat : Power[k] >= k + 1
<1>. DEFINE S == {k \in Nat : Power[k] >= k + 1}
<1>1. 0 \in S
  BY PowerDefined
<1>2. ASSUME NEW k \in Nat, k \in S PROVE k + 1 \in S
  <2>1. Power[k] \in Int /\ Power[k] >= k + 1 /\ Power[k + 1] = Power[k] * Base
    BY <1>2, PowerDefined
  <2>2. PICK x \in Int : x = Power[k] * (Base - 2)
    BY <2>1, BaseAssumption
  <2>3. x >= 0
    BY <2>1, <2>2, BaseAssumption
  <2>4. Power[k + 1] = x + Power[k] + Power[k]
    BY <2>1, <2>2, BaseAssumption
  <2>5. Power[k + 1] >= k + 1 + 1
    BY <2>1, <2>3, <2>4
  <2>. QED  BY <2>5
<1>. HIDE DEF S
<1>3. Nat \subseteq S
  BY <1>1, <1>2, SetInduction
<1>. QED  BY <1>3 DEF S

\* digits10 is what its definition asks for.
LEMMA Digits10 ==
  /\ digits10 \in Nat
  /\ Power[digits10] <= MaxInteger + 1
  /\ Power[digits10 + 1] > MaxInteger + 1
<1>. DEFINE P(d) == Power[d] - 1 <= MaxInteger /\ Power[d + 1] - 1 > MaxInteger
            S == {k \in Nat : Power[k] - 1 <= MaxInteger}
<1>1. \E d \in 0 .. MaxInteger : P(d)
  <2>. SUFFICES ASSUME \A d \in 0 .. MaxInteger : ~ P(d) PROVE FALSE
    OBVIOUS
  <2>1. 0 \in S
    BY PowerDefined, MaxIntegerAssumption
  <2>2. ASSUME NEW k \in Nat, k \in S PROVE k + 1 \in S
    <3>1. Power[k] - 1 <= MaxInteger /\ Power[k] >= k + 1 /\ Power[k] \in Int /\ Power[k + 1] \in Int
      BY <2>2, PowerDefined, PowerGrows
    <3>2. k \in 0 .. MaxInteger
      BY <3>1, MaxIntegerAssumption
    <3>3. ~ (Power[k + 1] - 1 > MaxInteger)
      BY <3>1, <3>2
    <3>. QED  BY <3>1, <3>3, MaxIntegerAssumption
  <2>. HIDE DEF S
  <2>3. MaxInteger + 1 \in S
    BY <2>1, <2>2, SetInduction, MaxIntegerAssumption
  <2>4. Power[MaxInteger + 1] >= MaxInteger + 1 + 1 /\ Power[MaxInteger + 1] \in Int
    BY PowerDefined, PowerGrows, MaxIntegerAssumption
  <2>. QED  BY <2>3, <2>4, MaxIntegerAssumption DEF S
<1>2. digits10 \in 0 .. MaxInteger /\ P(digits10)
  BY <1>1 DEF digits10
<1>3. digits10 \in Nat
  BY <1>2, MaxIntegerAssumption
<1>4. Power[digits10] \in Int /\ Power[digits10 + 1] \in Int
  BY <1>3, PowerDefined
<1>. QED  BY <1>2, <1>3, <1>4, MaxIntegerAssumption

Digit == 0 .. Base - 1

\* The loop of decode_digits, digit by digit.
LEMMA ValuesDefined ==
  ASSUME NEW digits \in Seq(Digit), NEW sgn \in {1, -1}
  PROVE  LET v == Values(digits, sgn) IN
         /\ v \in [0 .. Len(digits) -> Int]
         /\ v[0] = 0
         /\ \A k \in 0 .. Len(digits) - 1 : v[k + 1] = v[k] * Base + digits[k + 1] * sgn
<1>. DEFINE n == Len(digits)
            F(f) == [k \in 0 .. n |-> IF k = 0 THEN 0 ELSE f[k - 1] * Base + digits[k] * sgn]
            c == [k \in Nat |-> IF k \in 1 .. n THEN digits[k] * sgn ELSE 0]
            v == Values(digits, sgn)
<1>1. n \in Nat /\ sgn \in Int
  BY LenProperties
<1>2. \A k \in 1 .. n : digits[k] \in 0 .. Base - 1
  BY ElementOfSeq DEF Digit
<1>3. \A k \in Nat : c[k + 1] \in Int
  BY <1>1, <1>2, BaseAssumption
<1>4. \A k \in 1 .. n : c[k] = digits[k] * sgn
  BY <1>1
<1>5. \A k \in 0 .. n - 1 : c[k + 1] = digits[k + 1] * sgn
  BY <1>1
<1>. HIDE DEF c
<1>6. ASSUME NEW f PROVE Equation(f, 0, Base, c, n) <=> f = F(f)
  <2>1. [k \in 0 .. n |-> IF k = 0 THEN 0 ELSE f[k - 1] * Base + c[k]] = F(f)
    BY <1>1, <1>4
  <2>. QED  BY <2>1, Zenon DEF Equation
<1>7. \E f : Equation(f, 0, Base, c, n)
  BY <1>1, <1>3, BaseAssumption, EquationSolved
<1>8. v = F(v)
  <2>1. v = CHOOSE f : f = F(f)
    BY DEF Values
  <2>. HIDE DEF v, F
  <2>. QED  BY <1>6, <1>7, <2>1, Zenon
<1>. HIDE DEF v
<1>9. Runs(v, 0, Base, c, n)
  <2>1. Equation(v, 0, Base, c, n)
    <3>. HIDE DEF F
    <3>. QED  BY <1>6, <1>8
  <2>. QED  BY <1>1, <1>3, <2>1, BaseAssumption, EquationRuns
<1>. QED  BY <1>5, <1>9 DEF Runs, v

\* The sum of what the digits are worth, from the last one on.
WorthOf(digits, sum) ==
  /\ sum \in [0 .. Len(digits) -> Int]
  /\ sum[0] = 0
  /\ \A k \in 0 .. Len(digits) - 1 : sum[k + 1] = sum[k] + digits[Len(digits) - k] * Power[k]

LEMMA WorthDefined ==
  ASSUME NEW digits \in Seq(Digit)
  PROVE  \E sum : WorthOf(digits, sum) /\ Worth(digits) = sum[Len(digits)]
<1>. DEFINE n == Len(digits)
            F(f) == [k \in 0 .. n |-> IF k = 0 THEN 0 ELSE f[k - 1] + digits[n - k + 1] * Power[k - 1]]
            c == [k \in Nat |-> IF k \in 1 .. n THEN digits[n - k + 1] * Power[k - 1] ELSE 0]
            sum == CHOOSE f : f = F(f)
<1>1. n \in Nat
  BY LenProperties
<1>2. \A k \in 1 .. n : digits[n - k + 1] \in Int /\ Power[k - 1] \in Int
  <2>. TAKE k \in 1 .. n
  <2>1. n - k + 1 \in 1 .. n /\ k - 1 \in Nat
    BY <1>1
  <2>2. digits[n - k + 1] \in 0 .. Base - 1
    BY <2>1, ElementOfSeq DEF Digit
  <2>3. Power[k - 1] \in Int
    BY <2>1, PowerDefined
  <2>4. digits[n - k + 1] \in Int
    BY <2>2, BaseAssumption
  <2>. QED  BY <2>3, <2>4
<1>3. \A k \in Nat : c[k + 1] \in Int
  <2>1. \A k \in 1 .. n : digits[n - k + 1] * Power[k - 1] \in Int
    BY <1>2
  <2>2. \A k \in Nat : c[k] \in Int
    BY <2>1
  <2>. HIDE DEF c
  <2>. QED  BY <2>2
<1>4. \A k \in 1 .. n : c[k] = digits[n - k + 1] * Power[k - 1]
  BY <1>1
<1>5. \A k \in 0 .. n - 1 : c[k + 1] = digits[n - k] * Power[k]
  <2>. HIDE DEF c
  <2>. TAKE k \in 0 .. n - 1
  <2>1. PICK j \in 1 .. n : j = k + 1 /\ n - j + 1 = n - k /\ j - 1 = k
    BY <1>1
  <2>. QED  BY <1>4, <2>1
<1>. HIDE DEF c
<1>6. PICK g : Runs(g, 0, 1, c, n)
  BY <1>1, <1>3, RunsExist
<1>7. /\ g \in [0 .. n -> Int] /\ g[0] = 0
      /\ \A k \in 0 .. n - 1 : g[k + 1] = g[k] + digits[n - k] * Power[k]
  <2>1. /\ g \in [0 .. n -> Int] /\ g[0] = 0
        /\ \A k \in 0 .. n - 1 : g[k + 1] = g[k] * 1 + c[k + 1]
    BY <1>6 DEF Runs
  <2>2. \A k \in 0 .. n - 1 : g[k] * 1 = g[k]
    BY <1>1, <2>1
  <2>. QED  BY <1>5, <2>1, <2>2
<1>8. g = F(g)
  <2>1. ASSUME NEW k \in 0 .. n
        PROVE  g[k] = IF k = 0 THEN 0 ELSE g[k - 1] + digits[n - k + 1] * Power[k - 1]
    <3>1. CASE k = 0
      BY <1>7, <3>1
    <3>2. CASE k # 0
      <4>1. PICK j \in 0 .. n - 1 : k = j + 1 /\ k - 1 = j /\ n - k + 1 = n - j
        <5>1. k - 1 \in 0 .. n - 1 /\ k = (k - 1) + 1 /\ n - k + 1 = n - (k - 1)
          BY <1>1, <3>2
        <5>. QED  BY <5>1
      <4>. QED  BY <1>7, <3>2, <4>1
    <3>. QED  BY <3>1, <3>2
  <2>. QED  BY <1>7, <2>1
<1>9. sum = F(sum)
  <2>. HIDE DEF F
  <2>. QED  BY <1>8, Zenon
<1>10. Worth(digits) = sum[n]
  BY DEF Worth
<1>. HIDE DEF sum
<1>11. sum[n] = g[n]
  <2>. DEFINE S == {k \in Nat : k <= n => sum[k] = g[k]}
  <2>1. 0 \in S
    BY <1>1, <1>7, <1>9
  <2>2. ASSUME NEW k \in Nat, k \in S PROVE k + 1 \in S
    <3>. SUFFICES ASSUME k + 1 <= n PROVE sum[k + 1] = g[k + 1]
      OBVIOUS
    <3>1. k \in 0 .. n - 1 /\ sum[k] = g[k]
      BY <1>1, <2>2
    <3>2. PICK j \in 0 .. n : j = k + 1 /\ j # 0 /\ j - 1 = k /\ n - j + 1 = n - k
      BY <1>1, <3>1
    <3>3. F(sum)[j] = sum[j - 1] + digits[n - j + 1] * Power[j - 1]
      BY <3>2
    <3>4. sum[j] = sum[k] + digits[n - k] * Power[k]
      <4>. HIDE DEF F
      <4>1. sum[j] = F(sum)[j]
        BY <1>9
      <4>. QED  BY <3>2, <3>3, <4>1
    <3>. QED  BY <1>7, <3>1, <3>2, <3>4
  <2>. HIDE DEF S
  <2>3. Nat \subseteq S
    BY <2>1, <2>2, SetInduction
  <2>. QED  BY <1>1, <2>3 DEF S
<1>12. WorthOf(digits, g)
  BY <1>7 DEF WorthOf
<1>. QED  BY <1>10, <1>11, <1>12

-----------------------------------------------------------------------------
(* What decode_digits returns.                                             *)

\* The value without its sign, digit by digit.
Amounts(digits, sgn) == [k \in 0 .. Len(digits) |-> Values(digits, sgn)[k] * sgn]

LEMMA AmountsDefined ==
  ASSUME NEW digits \in Seq(Digit), NEW sgn \in {1, -1}
  PROVE  LET a == Amounts(digits, sgn) IN
         /\ a \in [0 .. Len(digits) -> Int]
         /\ a[0] = 0
         /\ \A k \in 0 .. Len(digits) - 1 : a[k + 1] = a[k] * Base + digits[k + 1]
         /\ Accumulated(digits, sgn) = a[Len(digits)] * sgn
<1>. DEFINE n == Len(digits)
            v == Values(digits, sgn)
            a == Amounts(digits, sgn)
<1>1. n \in Nat /\ sgn \in Int /\ sgn * sgn = 1
  BY LenProperties
<1>2. /\ v \in [0 .. n -> Int] /\ v[0] = 0
      /\ \A k \in 0 .. n - 1 : v[k + 1] = v[k] * Base + digits[k + 1] * sgn
  BY ValuesDefined
<1>3. \A k \in 1 .. n : digits[k] \in Int
  <2>1. \A k \in 1 .. n : digits[k] \in 0 .. Base - 1
    BY ElementOfSeq DEF Digit
  <2>. QED  BY <2>1, BaseAssumption
<1>4. Accumulated(digits, sgn) = v[n]
  BY DEF Accumulated
<1>. HIDE DEF v
<1>5. a = [k \in 0 .. n |-> v[k] * sgn]
  BY DEF Amounts, v
<1>. HIDE DEF a, n
<1>6. a \in [0 .. n -> Int] /\ a[0] = 0
  BY <1>1, <1>2, <1>5
<1>7. ASSUME NEW k \in 0 .. n - 1 PROVE a[k + 1] = a[k] * Base + digits[k + 1]
  <2>1. k \in 0 .. n /\ k + 1 \in 0 .. n /\ k + 1 \in 1 .. n
    BY <1>1
  <2>2. a[k + 1] = v[k + 1] * sgn /\ a[k] = v[k] * sgn
    BY <1>5, <2>1
  <2>3. v[k] \in Int /\ digits[k + 1] \in Int /\ v[k + 1] = v[k] * Base + digits[k + 1] * sgn
    BY <1>2, <1>3, <2>1
  <2>4. CASE sgn = 1
    BY <2>2, <2>3, <2>4, BaseAssumption
  <2>5. CASE sgn = -1
    <3>1. PICK x \in Int : x = v[k] * Base
      BY <2>3, BaseAssumption
    <3>2. a[k] * Base = - x
      <4>1. PICK y \in Int : y = v[k]
        BY <2>3
      <4>2. a[k] = - y
        BY <2>2, <2>5, <4>1
      <4>3. (- y) * Base = - (y * Base)
        BY BaseAssumption
      <4>. QED  BY <3>1, <4>1, <4>2, <4>3
    <3>3. a[k + 1] = - x + digits[k + 1]
      <4>1. PICK d \in Int : d = digits[k + 1]
        BY <2>3
      <4>2. v[k + 1] = x - d
        BY <2>3, <2>5, <3>1, <4>1
      <4>. QED  BY <2>2, <2>5, <4>1, <4>2
    <3>. QED  BY <3>2, <3>3
  <2>. QED  BY <2>4, <2>5
<1>8. v[n] = a[n] * sgn
  <2>1. a[n] = v[n] * sgn /\ v[n] \in Int
    BY <1>1, <1>2, <1>5
  <2>. QED  BY <1>1, <2>1
<1>. QED  BY <1>4, <1>6, <1>7, <1>8 DEF a, n

LEMMA DigitMore ==
  ASSUME NEW b \in Nat, NEW p \in Int, NEW u \in 0 .. p - 1, NEW d \in 0 .. b - 1
  PROVE  u * b + d \in 0 .. p * b - 1
<1>. DEFINE w == p - 1 - u
<1>1. w \in Nat /\ u \in Nat /\ p = w + u + 1
  OBVIOUS
<1>. HIDE DEF w
<1>2. w * b \in Nat /\ u * b \in Nat
  BY <1>1
<1>3. p * b = w * b + u * b + b
  BY <1>1
<1>. QED  BY <1>2, <1>3

LEMMA AmountsOrdered ==
  ASSUME NEW b \in Nat, NEW q \in Int, NEW u \in Int, u >= q, NEW d \in Nat
  PROVE  u * b + d >= q * b
<1>. DEFINE w == u - q
<1>1. w \in Nat /\ u = w + q
  OBVIOUS
<1>. HIDE DEF w
<1>2. w * b \in Nat /\ u * b = w * b + q * b
  BY <1>1
<1>. QED  BY <1>2

LEMMA DigitMoved ==
  ASSUME NEW b \in Int, NEW u \in Int, NEW d \in Int, NEW p \in Int, NEW t \in Int
  PROVE  (u * b + d) * p + t = u * (p * b) + (t + d * p)
  OBVIOUS

\* k digits are worth less than the k-th power, and at least the one before it
\* when the first is not a zero.
LEMMA AmountsBounded ==
  ASSUME NEW digits \in Seq(Digit), NEW sgn \in {1, -1}, NEW k \in 0 .. Len(digits)
  PROVE  /\ Amounts(digits, sgn)[k] \in 0 .. Power[k] - 1
         /\ k >= 1 /\ digits[1] # 0 => Amounts(digits, sgn)[k] >= Power[k - 1]
<1>. DEFINE n == Len(digits)
            a == Amounts(digits, sgn)
            Good(j) == /\ a[j] \in 0 .. Power[j] - 1
                       /\ j >= 1 /\ digits[1] # 0 => a[j] >= Power[j - 1]
            S == {j \in Nat : j <= n => Good(j)}
<1>1. n \in Nat
  BY LenProperties
<1>2. /\ a \in [0 .. n -> Int] /\ a[0] = 0
      /\ \A j \in 0 .. n - 1 : a[j + 1] = a[j] * Base + digits[j + 1]
  BY AmountsDefined
<1>3. \A j \in 1 .. n : digits[j] \in 0 .. Base - 1
  BY ElementOfSeq DEF Digit
<1>. HIDE DEF a, n
<1>4. 0 \in S
  <2>1. a[0] \in 0 .. Power[0] - 1
    BY <1>2, PowerDefined
  <2>. QED  BY <2>1
<1>5. ASSUME NEW j \in Nat, j \in S PROVE j + 1 \in S
  <2>. SUFFICES ASSUME j + 1 <= n PROVE Good(j + 1)
    OBVIOUS
  <2>1. j \in 0 .. n - 1 /\ j + 1 \in 1 .. n /\ Good(j)
    BY <1>1, <1>5
  <2>2. PICK d \in 0 .. Base - 1 : d = digits[j + 1]
    BY <1>3, <2>1
  <2>3. Power[j] \in Int /\ Power[j + 1] = Power[j] * Base
    BY PowerDefined
  <2>4. a[j] \in 0 .. Power[j] - 1 /\ a[j + 1] = a[j] * Base + d
    BY <1>2, <2>1, <2>2
  <2>5. a[j + 1] \in 0 .. Power[j + 1] - 1
    <3>1. a[j] * Base + d \in 0 .. Power[j] * Base - 1
      BY <2>3, <2>4, BaseAssumption, DigitMore
    <3>. QED  BY <2>3, <2>4, <3>1
  <2>6. ASSUME digits[1] # 0 PROVE a[j + 1] >= Power[j]
    <3>1. CASE j = 0
      <4>1. d \in Nat /\ d # 0 /\ a[0] = 0 /\ Power[0] = 1
        <5>1. d = digits[1]
          BY <2>2, <3>1
        <5>2. d \in Nat
          BY BaseAssumption
        <5>. QED  BY <1>2, <2>6, <5>1, <5>2, PowerDefined
      <4>2. a[j + 1] = 0 * Base + d
        BY <2>4, <3>1, <4>1
      <4>. QED  BY <3>1, <4>1, <4>2, BaseAssumption
    <3>2. CASE j # 0
      <4>1. PICK i \in Nat : j = i + 1 /\ j - 1 = i
        <5>1. j - 1 \in Nat /\ j = (j - 1) + 1
          BY <3>2
        <5>. QED  BY <5>1
      <4>2. a[j] >= Power[i]
        BY <2>1, <2>6, <3>2, <4>1
      <4>3. Power[i] \in Int /\ Power[j] = Power[i] * Base
        BY <4>1, PowerDefined
      <4>4. a[j] \in Int /\ d \in Nat
        BY <2>3, <2>4, BaseAssumption
      <4>5. a[j] * Base + d >= Power[i] * Base
        BY <4>2, <4>3, <4>4, BaseAssumption, AmountsOrdered
      <4>. QED  BY <2>4, <4>3, <4>5
    <3>. QED  BY <3>1, <3>2
  <2>7. (j + 1) - 1 = j
    OBVIOUS
  <2>. QED  BY <2>5, <2>6, <2>7
<1>. HIDE DEF S
<1>6. Nat \subseteq S
  BY <1>4, <1>5, SetInduction
<1>. QED  BY <1>1, <1>6 DEF S, n, a

\* decode_digits returns what the digits say.
LEMMA AccumulatedIsWorth ==
  ASSUME NEW digits \in Seq(Digit), NEW sgn \in {1, -1}
  PROVE  Accumulated(digits, sgn) = sgn * Worth(digits) /\ Worth(digits) \in Int
<1>. DEFINE n == Len(digits)
            a == Amounts(digits, sgn)
<1>1. n \in Nat
  BY LenProperties
<1>2. /\ a \in [0 .. n -> Int] /\ a[0] = 0
      /\ \A k \in 0 .. n - 1 : a[k + 1] = a[k] * Base + digits[k + 1]
      /\ Accumulated(digits, sgn) = a[n] * sgn
  BY AmountsDefined
<1>3. \A k \in 1 .. n : digits[k] \in Int
  <2>1. \A k \in 1 .. n : digits[k] \in 0 .. Base - 1
    BY ElementOfSeq DEF Digit
  <2>. QED  BY <2>1, BaseAssumption
<1>4. PICK sum : WorthOf(digits, sum) /\ Worth(digits) = sum[n]
  BY WorthDefined
<1>5. /\ sum \in [0 .. n -> Int] /\ sum[0] = 0
      /\ \A k \in 0 .. n - 1 : sum[k + 1] = sum[k] + digits[n - k] * Power[k]
  BY <1>4 DEF WorthOf
<1>. HIDE DEF a, n
<1>. DEFINE S == {k \in Nat : k <= n => a[n] = a[n - k] * Power[k] + sum[k]}
<1>6. 0 \in S
  BY <1>1, <1>2, <1>5, PowerDefined
<1>7. ASSUME NEW k \in Nat, k \in S PROVE k + 1 \in S
  <2>. SUFFICES ASSUME k + 1 <= n PROVE a[n] = a[n - (k + 1)] * Power[k + 1] + sum[k + 1]
    OBVIOUS
  <2>1. PICK j \in 0 .. n - 1 : j = n - (k + 1) /\ j + 1 = n - k
    BY <1>1
  <2>2. k \in 0 .. n - 1 /\ j + 1 \in 1 .. n /\ a[n] = a[n - k] * Power[k] + sum[k]
    BY <1>1, <1>7, <2>1
  <2>3. PICK d \in Int : d = digits[n - k] /\ d = digits[j + 1]
    BY <1>3, <2>1, <2>2
  <2>4. Power[k] \in Int /\ Power[k + 1] = Power[k] * Base
    BY PowerDefined
  <2>5. a[j] \in Int /\ a[n - k] = a[j] * Base + d
    <3>1. a[j + 1] = a[j] * Base + digits[j + 1] /\ a[j] \in Int
      BY <1>1, <1>2, <2>1
    <3>. QED  BY <2>1, <2>3, <3>1
  <2>6. sum[k] \in Int /\ sum[k + 1] = sum[k] + d * Power[k]
    <3>1. sum[k + 1] = sum[k] + digits[n - k] * Power[k] /\ sum[k] \in Int
      BY <1>1, <1>5, <2>2
    <3>. QED  BY <2>3, <3>1
  <2>7. a[n] = (a[j] * Base + d) * Power[k] + sum[k]
    BY <2>2, <2>5
  <2>8. (a[j] * Base + d) * Power[k] + sum[k] = a[j] * (Power[k] * Base) + (sum[k] + d * Power[k])
    <3>1. PICK u \in Int, p \in Int, t \in Int : u = a[j] /\ p = Power[k] /\ t = sum[k]
      BY <2>4, <2>5, <2>6
    <3>2. (u * Base + d) * p + t = u * (p * Base) + (t + d * p)
      BY BaseAssumption, DigitMoved
    <3>. QED  BY <3>1, <3>2
  <2>. QED  BY <2>1, <2>4, <2>6, <2>7, <2>8
<1>. HIDE DEF S
<1>8. Nat \subseteq S
  BY <1>6, <1>7, SetInduction
<1>9. a[n] = a[n - n] * Power[n] + sum[n]
  BY <1>1, <1>8 DEF S
<1>10. a[n] = sum[n] /\ sum[n] \in Int
  <2>1. n - n = 0 /\ Power[n] \in Int /\ sum[n] \in Int
    BY <1>1, <1>5, PowerDefined
  <2>2. a[n - n] * Power[n] = 0
    BY <1>2, <2>1
  <2>. QED  BY <1>9, <2>1, <2>2
<1>. QED  BY <1>2, <1>4, <1>10 DEF n

-----------------------------------------------------------------------------
(* What decode_digits accepts.                                             *)

LEMMA PowerMonotone ==
  ASSUME NEW m \in Nat, NEW n \in Nat, m <= n
  PROVE  Power[m] <= Power[n]
<1>. DEFINE S == {k \in Nat : Power[m] <= Power[m + k]}
<1>1. 0 \in S
  BY PowerDefined
<1>2. ASSUME NEW k \in Nat, k \in S PROVE k + 1 \in S
  <2>. DEFINE j == m + k
  <2>1. j \in Nat /\ m + (k + 1) = j + 1 /\ Power[m] <= Power[j]
    BY <1>2
  <2>. HIDE DEF j
  <2>2. Power[m] \in Int /\ Power[j] \in Nat /\ Power[j + 1] = Power[j] * Base
    BY <2>1, PowerDefined, PowerGrows
  <2>3. Power[j] <= Power[j] * Base /\ Power[j] * Base \in Int
    <3>1. PICK x \in Nat : x = Power[j]
      BY <2>2
    <3>2. x * (Base - 1) >= 0 /\ x * Base = x * (Base - 1) + x /\ x * (Base - 1) \in Int
      BY BaseAssumption
    <3>. QED  BY <3>1, <3>2
  <2>. QED  BY <2>1, <2>2, <2>3
<1>. HIDE DEF S
<1>3. n - m \in S
  <2>1. n - m \in Nat
    OBVIOUS
  <2>. QED  BY <1>1, <1>2, <2>1, SetInduction
<1>4. m + (n - m) = n
  OBVIOUS
<1>. QED  BY <1>3, <1>4 DEF S

\* The tests of check_overflow on numbers without a sign.
LEMMA LimitExact ==
  ASSUME NEW b \in Nat \ {0}, NEW limit \in Nat, NEW u \in Nat, NEW d \in 0 .. b - 1
  PROVE  u * b + d <= limit <=>
           /\ u <= limit \div b
           /\ u = limit \div b => d <= limit - b * (limit \div b)
<1>1. PICK q \in Nat, r \in 0 .. b - 1 : q = limit \div b /\ limit = b * q + r
  BY Division
<1>2. CASE u < q
  <2>1. PICK w \in Nat : q = u + 1 + w
    <3>1. q - u - 1 \in Nat /\ q = u + 1 + (q - u - 1)
      BY <1>2
    <3>. QED  BY <3>1
  <2>2. b * q = u * b + b + b * w /\ b * w \in Nat /\ u * b \in Nat
    BY <2>1
  <2>3. u * b + d <= limit
    BY <1>1, <2>2
  <2>. QED  BY <1>1, <1>2, <2>3
<1>3. CASE u = q
  <2>1. PICK x \in Nat : x = b * q /\ u * b = x
    BY <1>3
  <2>. QED  BY <1>1, <1>3, <2>1
<1>4. CASE u > q
  <2>1. PICK w \in Nat : u = q + 1 + w
    <3>1. u - q - 1 \in Nat /\ u = q + 1 + (u - q - 1)
      BY <1>4
    <3>. QED  BY <3>1
  <2>2. u * b = b * q + b + b * w /\ b * w \in Nat /\ b * q \in Nat
    BY <2>1
  <2>3. ~ (u * b + d <= limit)
    BY <1>1, <2>2
  <2>. QED  BY <1>1, <1>4, <2>3
<1>. QED  BY <1>2, <1>3, <1>4

\* check_over_underflow passes exactly when the next value is in range.
LEMMA FitsExact ==
  ASSUME NEW u \in Nat, NEW d \in Digit, NEW sgn \in {1, -1}
  PROVE  Fits(u * sgn, d * sgn, sgn) <=> (u * Base + d) * sgn \in MinInteger .. MaxInteger
<1>. DEFINE M == MaxInteger
            L == MaxInteger + 1
            w == u * Base + d
<1>1. Base \in Nat \ {0} /\ M \in Nat /\ L \in Nat /\ d \in 0 .. Base - 1
  BY BaseAssumption, MaxIntegerAssumption DEF Digit
<1>2. w \in Nat
  BY <1>1
<1>3. CASE sgn = 1
  <2>1. TenthOf(MaxInteger) = M \div Base /\ UnitOf(MaxInteger) = M - Base * (M \div Base)
    BY <1>1 DEF TenthOf, UnitOf
  <2>2. w <= M <=> u <= M \div Base /\ (u = M \div Base => d <= M - Base * (M \div Base))
    BY <1>1, LimitExact
  <2>3. Fits(u * sgn, d * sgn, sgn) <=>
          u <= M \div Base /\ (u = M \div Base => d <= M - Base * (M \div Base))
    <3>1. u * sgn = u /\ d * sgn = d
      BY <1>1, <1>3
    <3>. QED  BY <1>3, <2>1, <3>1 DEF Fits
  <2>4. w * sgn \in MinInteger .. MaxInteger <=> w <= M
    <3>1. w * sgn = w
      BY <1>2, <1>3
    <3>. HIDE DEF w
    <3>. QED  BY <1>1, <1>2, <3>1 DEF MinInteger
  <2>. HIDE DEF w
  <2>5. Fits(u * sgn, d * sgn, sgn) <=> w * sgn \in MinInteger .. MaxInteger
    BY <2>2, <2>3, <2>4
  <2>. QED  BY <2>5 DEF w
<1>4. CASE sgn = -1
  <2>. DEFINE t == L \div Base
              r == L - Base * t
  <2>1. MinInteger = - L /\ - L < 0 /\ - (- L) = L
    BY <1>1 DEF MinInteger
  <2>2. t \in Nat /\ r \in Int
    <3>1. t \in Nat
      BY <1>1, Division
    <3>. HIDE DEF t
    <3>2. Base * t \in Nat
      BY <1>1, <3>1
    <3>. QED  BY <1>1, <3>1, <3>2
  <2>3. w <= L <=> u <= t /\ (u = t => d <= r)
    BY <1>1, LimitExact
  <2>4. TenthOf(MinInteger) = - t
    BY <2>1 DEF TenthOf
  <2>5. UnitOf(MinInteger) = - r
    <3>1. UnitOf(MinInteger) = - L - Base * (- t)
      BY <2>1, <2>4 DEF UnitOf
    <3>. HIDE DEF t
    <3>2. Base * (- t) = - (Base * t) /\ Base * t \in Int
      BY <1>1, <2>2
    <3>. QED  BY <1>1, <3>1, <3>2
  <2>. HIDE DEF t, r, w
  <2>6. Fits(u * sgn, d * sgn, sgn) <=> u <= t /\ (u = t => d <= r)
    <3>1. u * sgn = - u /\ d * sgn = - d
      BY <1>1, <1>4
    <3>2. Fits(u * sgn, d * sgn, sgn) <=> - u >= - t /\ (- u = - t => - d >= - r)
      BY <1>4, <2>4, <2>5, <3>1 DEF Fits
    <3>3. (- u >= - t <=> u <= t) /\ (- u = - t <=> u = t) /\ (- d >= - r <=> d <= r)
      BY <1>1, <2>2
    <3>. QED  BY <3>2, <3>3
  <2>7. w * sgn \in MinInteger .. MaxInteger <=> w <= L
    <3>1. w * sgn = - w
      BY <1>2, <1>4
    <3>. QED  BY <1>1, <1>2, <2>1, <3>1
  <2>8. Fits(u * sgn, d * sgn, sgn) <=> w * sgn \in MinInteger .. MaxInteger
    BY <2>3, <2>6, <2>7
  <2>. QED  BY <2>8 DEF w
<1>. QED  BY <1>3, <1>4

\* All digits but the last have the value they had in the loop.
LEMMA FrontAccumulated ==
  ASSUME NEW digits \in Seq(Digit), NEW sgn \in {1, -1}, Len(digits) >= 1
  PROVE  Accumulated(Front(digits), sgn) = Amounts(digits, sgn)[Len(digits) - 1] * sgn
<1>. DEFINE n == Len(digits)
            front == Front(digits)
            v == Values(digits, sgn)
            w == Values(front, sgn)
<1>1. n \in Nat /\ n >= 1 /\ n - 1 \in Nat
  BY LenProperties
<1>2. \A k \in 1 .. n - 1 : digits[k] \in Digit
  BY <1>1, ElementOfSeq
<1>3. /\ front \in Seq(Digit) /\ Len(front) = n - 1
      /\ \A k \in 1 .. n - 1 : front[k] = digits[k]
  <2>1. /\ SubSeq(digits, 1, n - 1) \in Seq(Digit)
        /\ Len(SubSeq(digits, 1, n - 1)) = IF 1 <= n - 1 THEN n - 1 - 1 + 1 ELSE 0
        /\ \A k \in 1 .. n - 1 - 1 + 1 : SubSeq(digits, 1, n - 1)[k] = digits[1 + k - 1]
    BY <1>1, <1>2, SubSeqProperties
  <2>2. front = SubSeq(digits, 1, n - 1)
    BY DEF Front
  <2>. HIDE DEF front, n
  <2>3. Len(front) = n - 1
    BY <1>1, <2>1, <2>2
  <2>4. \A k \in 1 .. n - 1 : front[k] = digits[k]
    <3>. TAKE k \in 1 .. n - 1
    <3>1. k \in 1 .. n - 1 - 1 + 1 /\ 1 + k - 1 = k
      BY <1>1
    <3>. QED  BY <2>1, <2>2, <3>1
  <2>. QED  BY <2>1, <2>2, <2>3, <2>4
<1>. HIDE DEF front
<1>4. /\ v \in [0 .. n -> Int] /\ v[0] = 0
      /\ \A k \in 0 .. n - 1 : v[k + 1] = v[k] * Base + digits[k + 1] * sgn
  BY ValuesDefined
<1>5. /\ w \in [0 .. n - 1 -> Int] /\ w[0] = 0
      /\ \A k \in 0 .. n - 1 - 1 : w[k + 1] = w[k] * Base + front[k + 1] * sgn
  BY <1>3, ValuesDefined
<1>6. Accumulated(front, sgn) = w[n - 1] /\ Amounts(digits, sgn)[n - 1] = v[n - 1] * sgn
  BY <1>1, <1>3 DEF Accumulated, Amounts
<1>. HIDE DEF v, w, n
<1>. DEFINE S == {k \in Nat : k <= n - 1 => w[k] = v[k]}
<1>7. 0 \in S
  BY <1>4, <1>5
<1>8. ASSUME NEW k \in Nat, k \in S PROVE k + 1 \in S
  <2>. SUFFICES ASSUME k + 1 <= n - 1 PROVE w[k + 1] = v[k + 1]
    OBVIOUS
  <2>1. k \in 0 .. n - 1 - 1 /\ k \in 0 .. n - 1 /\ k + 1 \in 1 .. n - 1 /\ w[k] = v[k]
    BY <1>1, <1>8
  <2>. QED  BY <1>3, <1>4, <1>5, <2>1
<1>. HIDE DEF S
<1>9. w[n - 1] = v[n - 1]
  <2>1. n - 1 \in S
    BY <1>1, <1>7, <1>8, SetInduction
  <2>. QED  BY <1>1, <2>1 DEF S
<1>10. v[n - 1] = v[n - 1] * sgn * sgn
  <2>1. v[n - 1] \in Int
    BY <1>1, <1>4
  <2>. QED  BY <2>1
<1>. QED  BY <1>6, <1>9, <1>10 DEF front, n

\* What is accepted is in range.  What is refused is out of range, or begins with
\* zeros.
LEMMA AcceptsExact ==
  ASSUME NEW digits \in Seq(Digit), NEW sgn \in {1, -1}
  PROVE  IF Accepts(digits, sgn)
         THEN sgn * Worth(digits) \in MinInteger .. MaxInteger
         ELSE sgn * Worth(digits) \notin MinInteger .. MaxInteger \/ ~ Shortest(digits)
<1>. DEFINE n == Len(digits)
            a == Amounts(digits, sgn)
            worth == sgn * Worth(digits)
<1>1. n \in Nat
  BY LenProperties
<1>2. /\ a \in [0 .. n -> Int]
      /\ \A k \in 0 .. n - 1 : a[k + 1] = a[k] * Base + digits[k + 1]
      /\ worth = a[n] * sgn
  BY AmountsDefined, AccumulatedIsWorth
<1>3. \A k \in 0 .. n : a[k] \in 0 .. Power[k] - 1 /\ (k >= 1 /\ digits[1] # 0 => a[k] >= Power[k - 1])
  BY AmountsBounded
<1>4. \A k \in 1 .. n : digits[k] \in Digit
  BY ElementOfSeq
<1>5. CASE n <= digits10
  <2>1. a[n] \in 0 .. Power[n] - 1 /\ Power[n] \in Int /\ Power[digits10] \in Int
    <3>1. n \in 0 .. n /\ digits10 \in Nat
      BY <1>1, Digits10
    <3>2. a[n] \in 0 .. Power[n] - 1
      BY <1>3, <3>1
    <3>. QED  BY <1>1, <3>1, <3>2, PowerDefined
  <2>2. Power[n] <= Power[digits10]
    BY <1>1, <1>5, Digits10, PowerMonotone
  <2>3. a[n] \in 0 .. MaxInteger
    BY <2>1, <2>2, Digits10, MaxIntegerAssumption
  <2>4. a[n] * sgn \in MinInteger .. MaxInteger
    BY <2>3, MaxIntegerAssumption DEF MinInteger
  <2>. QED  BY <1>2, <1>5, <2>4 DEF Accepts
<1>6. CASE n = digits10 + 1
  <2>1. n >= 1 /\ n - 1 \in 0 .. n - 1 /\ (n - 1) + 1 = n /\ ~ (n <= digits10) /\ n \in 1 .. n
    BY <1>1, <1>6, Digits10
  <2>2. PICK u \in Nat : u = a[n - 1]
    <3>1. a[n - 1] \in 0 .. Power[n - 1] - 1
      BY <1>1, <1>3, <2>1
    <3>. QED  BY <3>1
  <2>3. PICK d \in Digit : d = digits[n]
    BY <1>4, <2>1
  <2>4. worth = (u * Base + d) * sgn
    BY <1>2, <2>1, <2>2, <2>3
  <2>5. Accepts(digits, sgn) <=> Fits(u * sgn, d * sgn, sgn)
    <3>1. Accumulated(Front(digits), sgn) = u * sgn
      BY <2>1, <2>2, FrontAccumulated
    <3>2. Last(digits) = d
      BY <2>3 DEF Last
    <3>. QED  BY <1>6, <2>1, <3>1, <3>2 DEF Accepts
  <2>6. Fits(u * sgn, d * sgn, sgn) <=> (u * Base + d) * sgn \in MinInteger .. MaxInteger
    BY FitsExact
  <2>7. Accepts(digits, sgn) <=> worth \in MinInteger .. MaxInteger
    BY <2>4, <2>5, <2>6
  <2>. HIDE DEF worth
  <2>. QED  BY <2>7 DEF worth
<1>7. CASE n > digits10 + 1
  <2>1. ~ Accepts(digits, sgn)
    BY <1>1, <1>7, Digits10 DEF Accepts
  <2>2. ASSUME Shortest(digits) PROVE worth \notin MinInteger .. MaxInteger
    <3>1. n \in 0 .. n /\ n >= 2 /\ n - 1 \in Nat /\ digits10 + 1 <= n - 1 /\ digits10 + 1 \in Nat
      BY <1>1, <1>7, Digits10
    <3>2. digits[1] # 0
      <4>1. Head(digits) # 0
        <5>1. \A i \in Nat : i >= 2 => i # 1
          OBVIOUS
        <5>2. n # 1
          BY <1>1, <3>1, <5>1, Zenon
        <5>. QED  BY <2>2, <5>2, Zenon DEF Shortest
      <4>2. Head(digits) = digits[1]
        BY <3>1
      <4>. QED  BY <4>1, <4>2
    <3>3. a[n] >= Power[n - 1] /\ a[n] \in Int
      BY <1>2, <1>3, <3>1, <3>2
    <3>4. Power[n - 1] >= Power[digits10 + 1]
      BY <3>1, PowerMonotone
    <3>5. Power[n - 1] \in Int /\ Power[digits10 + 1] \in Int
      BY <3>1, PowerDefined
    <3>6. a[n] > MaxInteger + 1
      BY <3>3, <3>4, <3>5, Digits10, MaxIntegerAssumption
    <3>7. a[n] * sgn \notin MinInteger .. MaxInteger
      BY <3>3, <3>6, MaxIntegerAssumption DEF MinInteger
    <3>. QED  BY <1>2, <3>7
  <2>. QED  BY <2>1, <2>2
<1>. QED  BY <1>1, <1>5, <1>6, <1>7, Digits10

-----------------------------------------------------------------------------
(* The invariant of do_decode.                                             *)

Token ==
  {<<"e">>, <<"l">>, <<"d">>}
    \cup {<<"i", sgn, digits>> : sgn \in {1, -1}, digits \in Spellings}
    \cup {<<"s", digits, s>> : digits \in Spellings, s \in Strings}

\* A sequence, whatever is in it.
IsSequence(s) == s \in Seq({s[k] : k \in DOMAIN s})

\* The text is an integer so far.
IntegerAlone == Len(text) = 1 /\ text[1][1] = "i"

\* The outcome of do_decode for a text that is an integer.
Outcome(token) ==
  IF Accepts(token[3], token[2]) THEN Integer(decode_digits(token[3], token[2])) ELSE None

\* Outside a container the loop has taken nothing yet, and nothing is decoded
\* before a token is taken: so an integer alone is the root, and decided.
Reading ==
  /\ text \in Seq(Token)
  /\ IsSequence(state)
  /\ phase = "loop" /\ state = <<>> => text = <<>>
  /\ text = <<>> => state = <<>> /\ result = None
  /\ IntegerAlone => result = Outcome(text[1])

LEMMA SequenceOf ==
  ASSUME NEW S, NEW s \in Seq(S)
  PROVE  /\ IsSequence(s)
         /\ Len(s) \in Nat /\ DOMAIN s = 1 .. Len(s)
         /\ s = <<>> <=> Len(s) = 0
<1>1. Len(s) \in Nat /\ DOMAIN s = 1 .. Len(s) /\ (s = <<>> <=> Len(s) = 0)
  BY LenProperties, EmptySeq
<1>. DEFINE R == {s[k] : k \in DOMAIN s}
<1>2. s \in [1 .. Len(s) -> R]
  <2>1. \A k \in DOMAIN s : s[k] \in R
    OBVIOUS
  <2>2. s \in [1 .. Len(s) -> S]
    BY LenProperties
  <2>. QED  BY <1>1, <2>1, <2>2
<1>. HIDE DEF R
<1>3. s \in Seq(R)
  <2>1. Len(s) \in Nat
    BY <1>1
  <2>. QED  BY <1>2, <2>1, SeqDef
<1>. QED  BY <1>1, <1>3 DEF IsSequence, R

\* One container more; what is in a container changes; the innermost is dropped.
LEMMA OpenContainers ==
  ASSUME NEW s, IsSequence(s)
  PROVE  /\ s = <<>> <=> Len(s) = 0
         /\ Len(s) \in Nat
         /\ \A x : IsSequence(Append(s, x)) /\ Append(s, x) # <<>>
         /\ \A k, x : /\ IsSequence([s EXCEPT ![k].value = x])
                      /\ s # <<>> => [s EXCEPT ![k].value = x] # <<>>
         /\ s # <<>> => IsSequence(Front(s)) /\ Len(Front(s)) = Len(s) - 1
<1>. DEFINE R == {s[k] : k \in DOMAIN s}
<1>1. s \in Seq(R)
  BY DEF IsSequence
<1>. HIDE DEF R
<1>2. Len(s) \in Nat /\ DOMAIN s = 1 .. Len(s) /\ (s = <<>> <=> Len(s) = 0)
  BY <1>1, SequenceOf
<1>3. ASSUME NEW x PROVE IsSequence(Append(s, x)) /\ Append(s, x) # <<>>
  <2>1. s \in Seq(R \cup {x}) /\ x \in R \cup {x}
    <3>1. s \in [1 .. Len(s) -> R]
      BY <1>1, LenProperties
    <3>. QED  BY <1>2, <3>1, SeqDef
  <2>. DEFINE t == Append(s, x)
              T == R \cup {x}
  <2>2. t \in Seq(T) /\ t # <<>>
    BY <2>1, AppendProperties
  <2>. HIDE DEF t, T
  <2>3. IsSequence(t) /\ t # <<>>
    BY <2>2, SequenceOf
  <2>. QED  BY <2>3 DEF t
<1>4. ASSUME NEW k, NEW x
      PROVE  /\ IsSequence([s EXCEPT ![k].value = x])
             /\ s # <<>> => [s EXCEPT ![k].value = x] # <<>>
  <2>. DEFINE t == [s EXCEPT ![k].value = x]
              T == {t[j] : j \in DOMAIN t}
  <2>1. DOMAIN t = 1 .. Len(s) /\ t \in [1 .. Len(s) -> T]
    BY <1>2
  <2>. HIDE DEF t
  <2>2. t \in Seq(T)
    BY <1>2, <2>1, SeqDef
  <2>3. IsSequence(t)
    BY <2>2 DEF IsSequence
  <2>4. ASSUME s # <<>> PROVE t # <<>>
    <3>1. 1 \in DOMAIN t
      BY <1>2, <2>1, <2>4
    <3>. QED  BY <3>1
  <2>. QED  BY <2>3, <2>4 DEF t
<1>5. ASSUME s # <<>> PROVE IsSequence(Front(s)) /\ Len(Front(s)) = Len(s) - 1
  <2>1. Len(s) - 1 \in Nat /\ \A j \in 1 .. Len(s) - 1 : s[j] \in R
    <3>1. s \in [1 .. Len(s) -> R]
      BY <1>1, LenProperties
    <3>. QED  BY <1>2, <1>5, <3>1
  <2>2. /\ SubSeq(s, 1, Len(s) - 1) \in Seq(R)
        /\ Len(SubSeq(s, 1, Len(s) - 1)) = IF 1 <= Len(s) - 1 THEN Len(s) - 1 - 1 + 1 ELSE 0
    BY <2>1, SubSeqProperties
  <2>3. Len(SubSeq(s, 1, Len(s) - 1)) = Len(s) - 1
    <3>1. \A m \in Nat : (IF 1 <= m THEN m - 1 + 1 ELSE 0) = m
      OBVIOUS
    <3>. QED  BY <2>1, <2>2, <3>1
  <2>. QED  BY <2>2, <2>3, SequenceOf DEF Front
<1>. QED  BY <1>2, <1>3, <1>4, <1>5

\* The tokens at a place are tokens, and a text that takes them and one more is an
\* integer alone only from nothing.
LEMMA TakesToken ==
  ASSUME text \in Seq(Token), NEW place \in Places, NEW token \in Token,
         text' = text \o place.tokens \o <<token>>
  PROVE  /\ text' \in Seq(Token) /\ text' # <<>>
         /\ IntegerAlone' => text = <<>> /\ text'[1] = token /\ token[1] = "i"
<1>. DEFINE t == place.tokens
            u == text \o t
<1>1. t \in Seq(Token)
  <2>1. CASE InDict
    <3>1. PICK s \in Strings : \E first \in StringTokens(s) : place.tokens = <<first>>
      <4>1. place \in UNION {{[key |-> s, tokens |-> <<first>>] : first \in StringTokens(s)} : s \in Strings}
        BY <2>1 DEF Places
      <4>2. PICK s \in Strings : place \in {[key |-> s, tokens |-> <<first>>] : first \in StringTokens(s)}
        BY <4>1
      <4>3. PICK first \in StringTokens(s) : place = [key |-> s, tokens |-> <<first>>]
        BY <4>2
      <4>. QED  BY <4>3
    <3>2. StringTokens(s) \subseteq Token
      BY SpellingsAssumption DEF StringTokens, SpelledIn, Token
    <3>. QED  BY <3>1, <3>2
  <2>2. CASE ~ InDict
    <3>1. place.tokens = <<>>
      BY <2>2 DEF Places
    <3>2. <<>> \in Seq(Token)
      OBVIOUS
    <3>. QED  BY <3>1, <3>2
  <2>. QED  BY <2>1, <2>2
<1>. HIDE DEF t
<1>2. u \in Seq(Token) /\ Len(u) = Len(text) + Len(t)
  BY <1>1, ConcatProperties
<1>. HIDE DEF u
<1>3. text' = Append(u, token)
  <2>1. text' = u \o <<token>>
    BY DEF u, t
  <2>. QED  BY <1>2, <2>1, AppendIsConcat
<1>4. text' \in Seq(Token) /\ Len(text') = Len(u) + 1 /\ text'[Len(u) + 1] = token /\ text' # <<>>
  <2>1. u \in Seq(Token)
    BY <1>2
  <2>2. /\ Append(u, token) \in Seq(Token) /\ Append(u, token) # <<>>
        /\ Len(Append(u, token)) = Len(u) + 1
        /\ Append(u, token)[Len(u) + 1] = token
    BY <2>1, AppendProperties
  <2>. QED  BY <1>3, <2>2
<1>5. Len(text) \in Nat /\ Len(t) \in Nat /\ (text = <<>> <=> Len(text) = 0)
  BY <1>1, SequenceOf
<1>6. ASSUME IntegerAlone' PROVE text = <<>> /\ text'[1] = token /\ token[1] = "i"
  <2>1. Len(text') = 1 /\ text'[1][1] = "i"
    BY <1>6 DEF IntegerAlone
  <2>2. Len(u) = 0 /\ Len(text) = 0
    BY <1>2, <1>4, <1>5, <2>1
  <2>. QED  BY <1>4, <1>5, <2>1, <2>2
<1>. QED  BY <1>4, <1>6

\* store leaves containers open that were, and ends the loop at the root.
LEMMA StoreKeeps ==
  ASSUME NEW key, NEW value, IsSequence(state), phase = "loop", Store(key, value)
  PROVE  /\ IsSequence(state')
         /\ ~ (phase' = "loop" /\ state' = <<>>)
         /\ state = <<>> => result' = value
<1>1. CASE state = <<>>
  BY <1>1 DEF Store
<1>2. CASE state # <<>>
  <2>1. PICK x : state' = [state EXCEPT ![Len(state)].value = x]
    BY <1>2 DEF Store
  <2>. QED  BY <1>2, <2>1, OpenContainers
<1>. QED  BY <1>1, <1>2

LEMMA ReadingInvariant == Spec => []Reading
<1>1. Init => Reading
  <2>. SUFFICES ASSUME Init PROVE Reading
    OBVIOUS
  <2>1. text = <<>> /\ state = <<>> /\ result = None
    BY DEF Init
  <2>2. text \in Seq(Token)
    BY <2>1
  <2>3. IsSequence(state)
    <3>1. state \in Seq({})
      BY <2>1
    <3>. QED  BY <3>1, SequenceOf
  <2>4. ~ IntegerAlone
    <3>1. Len(text) = 0
      BY <2>1
    <3>. QED  BY <3>1 DEF IntegerAlone
  <2>. QED  BY <2>1, <2>2, <2>3, <2>4 DEF Reading
<1>2. Reading /\ [Next]_vars => Reading'
  <2>. SUFFICES ASSUME Reading, [Next]_vars PROVE Reading'
    OBVIOUS
  <2>1. /\ text \in Seq(Token)
        /\ IsSequence(state)
        /\ phase = "loop" /\ state = <<>> => text = <<>>
        /\ text = <<>> => state = <<>> /\ result = None
        /\ IntegerAlone => result = Outcome(text[1])
    BY DEF Reading
  <2>2. ASSUME NEW place \in Places, NEW digits \in SpelledIn(Len(state)), NEW sgn \in {1, -1},
               DecodeInt(place, digits, sgn)
        PROVE  Reading'
    <3>1. /\ Accepts(digits, sgn) /\ phase = "loop"
          /\ text' = text \o place.tokens \o <<<<"i", sgn, digits>>>>
          /\ Store(place.key, Integer(decode_digits(digits, sgn)))
      BY <2>2 DEF DecodeInt, Take
    <3>2. <<"i", sgn, digits>> \in Token
      <4>1. digits \in Spellings
        BY SpellingsAssumption DEF SpelledIn
      <4>. QED  BY <4>1 DEF Token
    <3>3. /\ text' \in Seq(Token) /\ text' # <<>>
          /\ IntegerAlone' => text = <<>> /\ text'[1] = <<"i", sgn, digits>>
      BY <2>1, <3>1, <3>2, TakesToken
    <3>4. /\ IsSequence(state') /\ ~ (phase' = "loop" /\ state' = <<>>)
          /\ state = <<>> => result' = Integer(decode_digits(digits, sgn))
      BY <2>1, <3>1, StoreKeeps
    <3>5. Outcome(<<"i", sgn, digits>>) = Integer(decode_digits(digits, sgn))
      BY <3>1 DEF Outcome
    <3>6. IntegerAlone' => result' = Outcome(text'[1])
      BY <2>1, <3>3, <3>4, <3>5
    <3>. QED  BY <3>3, <3>4, <3>6 DEF Reading, IntegerAlone, Outcome
  <2>3. ASSUME NEW place \in Places, NEW s \in Strings, NEW token \in StringTokens(s),
               DecodeStr(place, s, token)
        PROVE  Reading'
    <3>1. /\ phase = "loop"
          /\ text' = text \o place.tokens \o <<token>>
          /\ Store(place.key, String(s))
      BY <2>3 DEF DecodeStr, Take
    <3>2. token \in Token /\ token[1] # "i"
      BY SpellingsAssumption DEF StringTokens, SpelledIn, Token
    <3>3. text' \in Seq(Token) /\ text' # <<>> /\ ~ IntegerAlone'
      BY <2>1, <3>1, <3>2, TakesToken
    <3>4. IsSequence(state') /\ ~ (phase' = "loop" /\ state' = <<>>)
      BY <2>1, <3>1, StoreKeeps
    <3>. QED  BY <3>3, <3>4 DEF Reading, IntegerAlone, Outcome
  <2>4. ASSUME NEW place \in Places, NEW token \in {<<"l">>, <<"d">>}, NEW empty,
               DecodeOpen(place, token, empty)
        PROVE  Reading'
    <3>1. /\ text' = text \o place.tokens \o <<token>>
          /\ state' = Append(state, [key |-> place.key, value |-> empty])
      BY <2>4 DEF DecodeOpen, Take
    <3>2. token \in Token /\ token[1] # "i"
      BY DEF Token
    <3>3. text' \in Seq(Token) /\ text' # <<>> /\ ~ IntegerAlone'
      BY <2>1, <3>1, <3>2, TakesToken
    <3>4. IsSequence(state') /\ state' # <<>>
      BY <2>1, <3>1, OpenContainers
    <3>. QED  BY <3>3, <3>4 DEF Reading, IntegerAlone, Outcome
  <2>5. CASE DecodeEnd
    <3>1. /\ state # <<>>
          /\ text' = Append(text, <<"e">>)
          /\ Len(state) = 1 => state' = <<>> /\ phase' = "tail"
          /\ Len(state) # 1 => \E x : state' = [Front(state) EXCEPT ![Len(state) - 1].value = x]
      BY <2>5 DEF DecodeEnd
    <3>2. text' \in Seq(Token) /\ text' # <<>> /\ ~ IntegerAlone'
      <4>1. Len(text) \in Nat /\ Len(text) # 0
        BY <2>1, <3>1, SequenceOf
      <4>2. <<"e">> \in Token
        BY DEF Token
      <4>3. text' \in Seq(Token) /\ Len(text') = Len(text) + 1 /\ text' # <<>>
        BY <2>1, <3>1, <4>2, AppendProperties
      <4>. QED  BY <4>1, <4>3 DEF IntegerAlone
    <3>3. IsSequence(state') /\ ~ (phase' = "loop" /\ state' = <<>>)
      <4>1. CASE Len(state) = 1
        <5>1. <<>> \in Seq({})
          OBVIOUS
        <5>. QED  BY <3>1, <4>1, <5>1, SequenceOf
      <4>2. CASE Len(state) # 1
        <5>1. /\ Len(state) \in Nat /\ Len(state) # 0
              /\ IsSequence(Front(state)) /\ Len(Front(state)) = Len(state) - 1
          BY <2>1, <3>1, OpenContainers
        <5>2. Front(state) # <<>>
          BY <4>2, <5>1, OpenContainers
        <5>3. PICK x : state' = [Front(state) EXCEPT ![Len(state) - 1].value = x]
          BY <3>1, <4>2
        <5>. DEFINE front == Front(state)
                    k == Len(state) - 1
        <5>4. IsSequence(front) /\ front # <<>>
          BY <5>1, <5>2
        <5>. HIDE DEF front, k
        <5>5. IsSequence([front EXCEPT ![k].value = x]) /\ [front EXCEPT ![k].value = x] # <<>>
          BY <5>4, OpenContainers
        <5>. QED  BY <5>3, <5>5 DEF front, k
      <4>. QED  BY <4>1, <4>2
    <3>. QED  BY <3>2, <3>3 DEF Reading, IntegerAlone, Outcome
  <2>6. ASSUME NEW digits \in Spellings, NEW sgn \in {1, -1}, ThrowOverflow(digits, sgn)
        PROVE  Reading'
    <3>1. /\ phase' = "failed" /\ state' = state /\ result' = result
          /\ text' = Append(text, <<"i", sgn, digits>>)
          /\ ~ Accepts(digits, sgn) /\ text = <<>>
      BY <2>1, <2>6 DEF ThrowOverflow
    <3>2. <<"i", sgn, digits>> \in Token
      BY DEF Token
    <3>3. text' = <<<<"i", sgn, digits>>>> /\ text' \in Seq(Token) /\ text' # <<>>
      BY <3>1, <3>2
    <3>4. result' = Outcome(text'[1])
      <4>1. result = None /\ text'[1] = <<"i", sgn, digits>>
        BY <2>1, <3>1, <3>3
      <4>. QED  BY <3>1, <4>1 DEF Outcome
    <3>. QED  BY <2>1, <3>1, <3>3, <3>4 DEF Reading, IntegerAlone, Outcome
  <2>7. ASSUME UNCHANGED <<state, result, text>>, phase' # "loop" \/ phase' = phase
        PROVE  Reading'
    BY <2>1, <2>7 DEF Reading, IntegerAlone, Outcome
  <2>8. CASE Throw
    BY <2>7, <2>8 DEF Throw
  <2>9. CASE Finish
    BY <2>7, <2>9 DEF Finish
  <2>10. CASE Ended
    BY <2>7, <2>10 DEF Ended, vars
  <2>11. CASE UNCHANGED vars
    BY <2>7, <2>11 DEF vars
  <2>. QED
    BY <2>2, <2>3, <2>4, <2>5, <2>6, <2>8, <2>9, <2>10, <2>11, Zenon DEF Next, do_decode
<1>. QED  BY <1>1, <1>2, PTL DEF Spec

\* An integer at the root that is accepted fits the type and is returned as what
\* its digits say; one that is refused does not fit, or has zeros in front
\* (bencode.hpp:351-448).
THEOREM DigitsRead == Spec => []DigitsExact
<1>1. Reading => DigitsExact
  <2>. SUFFICES ASSUME Reading, IntegerAlone
                PROVE  LET sgn == text[1][2]
                           digits == text[1][3]
                           n == sgn * Worth(digits) IN
                       IF result = None
                       THEN n \notin MinInteger .. MaxInteger \/ ~ Shortest(digits)
                       ELSE n \in MinInteger .. MaxInteger /\ result = Integer(n)
    BY Zenon DEF DigitsExact, IntegerAlone
  <2>1. text[1] \in Token /\ text[1][1] = "i" /\ result = Outcome(text[1])
    <3>1. text \in Seq(Token) /\ Len(text) = 1
      BY DEF Reading, IntegerAlone
    <3>2. text[1] \in Token
      BY <3>1, ElementOfSeq
    <3>. QED  BY <3>2 DEF Reading, IntegerAlone
  <2>2. PICK sgn \in {1, -1}, digits \in Spellings : text[1] = <<"i", sgn, digits>>
    BY <2>1 DEF Token
  <2>3. text[1][2] = sgn /\ text[1][3] = digits
    BY <2>2
  <2>4. digits \in Seq(Digit)
    BY SpellingsAssumption DEF Digit
  <2>5. decode_digits(digits, sgn) = sgn * Worth(digits)
    BY <2>4, AccumulatedIsWorth DEF decode_digits
  <2>6. Integer(sgn * Worth(digits)) # None
    BY DEF Integer, None
  <2>7. result = IF Accepts(digits, sgn) THEN Integer(sgn * Worth(digits)) ELSE None
    BY <2>1, <2>3, <2>5 DEF Outcome
  <2>. QED  BY <2>3, <2>4, <2>6, <2>7, AcceptsExact
<1>. QED  BY <1>1, ReadingInvariant, PTL

=============================================================================
