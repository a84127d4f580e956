---------------------------- MODULE NumbersProofs ----------------------------
(***************************************************************************)
(* The arithmetic of numbers with w bits, for every w: powers of two,      *)
(* quotients and remainders, bits, and what the operators of C do to the   *)
(* bits of their operands.  The prover knows nothing of x ^ n for a variable *)
(* n but the size of SUBSET (1 .. n), and cannot use the induction rules of *)
(* its library: a set of numbers with 0 and with each successor is all of  *)
(* Nat because the rest has no least member.                               *)
(***************************************************************************)
EXTENDS Numbers, FiniteSetTheorems, WellFoundedInduction, TLAPS

-----------------------------------------------------------------------------
(***************************************************************************)
(* Induction and powers.                                                   *)
(***************************************************************************)
LEMMA Least ==
  ASSUME NEW T \in SUBSET Nat, T # {}
  PROVE  \E x \in T : \A y \in T : x <= y
<1>1. PICK x \in T : \A y \in T : ~ (<<y, x>> \in OpToRel(<, Nat))
  BY NatLessThanWellFounded, WFMin
<1>2. \A y \in T : ~(y < x)
  BY <1>1 DEF OpToRel
<1> QED
  BY <1>2

LEMMA Induct ==
  ASSUME NEW S, 0 \in S, \A n \in Nat : n \in S => n + 1 \in S
  PROVE  Nat \subseteq S
<1> SUFFICES ASSUME ~(Nat \subseteq S) PROVE FALSE
  OBVIOUS
<1> DEFINE T == {n \in Nat : n \notin S}
<1>1. PICK x \in T : \A y \in T : x <= y
  BY Least
<1>2. x - 1 \in Nat /\ x - 1 \in S
  BY <1>1
<1> QED
  BY <1>1, <1>2

LEMMA PowerOfNat ==
  ASSUME NEW n \in Nat
  PROVE  2 ^ n \in Nat \ {0}
<1>1. IsFiniteSet(1 .. n) /\ Cardinality(1 .. n) = n
  BY FS_Interval
<1>2. IsFiniteSet(SUBSET (1 .. n)) /\ Cardinality(SUBSET (1 .. n)) = 2 ^ n
  BY <1>1, FS_SUBSET
<1>3. Cardinality(SUBSET (1 .. n)) \in Nat
  BY <1>2, FS_CardinalityType
<1>4. Cardinality(SUBSET (1 .. n)) # 0
  BY <1>2, FS_EmptySet
<1> QED
  BY <1>2, <1>3, <1>4

LEMMA PowerOfNext ==
  ASSUME NEW n \in Nat
  PROVE  2 ^ (n + 1) = 2 * 2 ^ n
<1> DEFINE low == SUBSET (1 .. n)
           all == SUBSET (1 .. n + 1)
           high == all \ low
           f == [X \in low |-> X \cup {n + 1}]
<1>1. IsFiniteSet(low) /\ Cardinality(low) = 2 ^ n
  <2>1. IsFiniteSet(1 .. n) /\ Cardinality(1 .. n) = n
    BY FS_Interval
  <2> QED
    BY <2>1, FS_SUBSET
<1>2. IsFiniteSet(all) /\ Cardinality(all) = 2 ^ (n + 1)
  <2>1. IsFiniteSet(1 .. n + 1) /\ Cardinality(1 .. n + 1) = n + 1
    BY FS_Interval
  <2> QED
    BY <2>1, FS_SUBSET
<1>3. all \cap low = low
  OBVIOUS
<1>4. Cardinality(high) = Cardinality(all) - Cardinality(low)
  BY <1>2, <1>3, FS_Difference
<1>5. f \in Bijection(low, high)
  <2>1. \A X \in low : f[X] \in high
    OBVIOUS
  <2>2. \A X, Y \in low : f[X] = f[Y] => X = Y
    OBVIOUS
  <2>3. \A Z \in high : \E X \in low : f[X] = Z
    <3> TAKE Z \in high
    <3>1. Z \ {n + 1} \in low /\ n + 1 \in Z
      OBVIOUS
    <3> QED
      BY <3>1
  <2> QED
    BY <2>1, <2>2, <2>3 DEF Bijection, Injection, Surjection, IsInjective
<1>6. Cardinality(high) = Cardinality(low)
  BY <1>1, <1>5, FS_Bijection DEF ExistsBijection
<1>7. 2 ^ n \in Nat /\ 2 ^ (n + 1) \in Nat
  BY PowerOfNat
<1> QED
  BY <1>1, <1>2, <1>4, <1>6, <1>7

LEMMA PowerOfSum ==
  ASSUME NEW m \in Nat, NEW n \in Nat
  PROVE  2 ^ (m + n) = 2 ^ m * 2 ^ n
<1> DEFINE S == {k \in Nat : 2 ^ (m + k) = 2 ^ m * 2 ^ k}
<1>1. 0 \in S
  <2>1. 2 ^ 0 = 1 /\ m + 0 = m
    OBVIOUS
  <2> QED
    BY <2>1, PowerOfNat
<1>2. \A k \in Nat : k \in S => k + 1 \in S
  <2> SUFFICES ASSUME NEW k \in Nat, k \in S PROVE k + 1 \in S
    OBVIOUS
  <2>1. 2 ^ (k + 1) = 2 * 2 ^ k /\ 2 ^ ((m + k) + 1) = 2 * 2 ^ (m + k)
    BY PowerOfNext
  <2>2. m + (k + 1) = (m + k) + 1
    OBVIOUS
  <2>3. 2 ^ m \in Nat /\ 2 ^ k \in Nat
    BY PowerOfNat
  <2> QED
    BY <2>1, <2>2, <2>3
<1> QED
  BY <1>1, <1>2, Induct

LEMMA PowersGrow ==
  ASSUME NEW m \in Nat, NEW n \in Nat, m <= n
  PROVE  2 ^ m <= 2 ^ n
<1>1. n - m \in Nat /\ m + (n - m) = n
  OBVIOUS
<1>2. 2 ^ n = 2 ^ m * 2 ^ (n - m)
  BY <1>1, PowerOfSum
<1> DEFINE p == 2 ^ m
           q == 2 ^ (n - m)
<1>3. p \in Nat /\ q \in Nat \ {0}
  BY <1>1, PowerOfNat
<1> HIDE DEF p, q
<1>4. p <= p * q
  BY <1>3
<1> QED
  BY <1>2, <1>4 DEF p, q

-----------------------------------------------------------------------------
(***************************************************************************)
(* Quotients and remainders.                                               *)
(***************************************************************************)
LEMMA Division ==
  ASSUME NEW x \in Int, NEW m \in Nat \ {0}
  PROVE  x \div m \in Int /\ x % m \in 0 .. m - 1 /\ x = m * (x \div m) + (x % m)
<1>1. x = m * (x \div m) + (x % m)
  OBVIOUS
<1>2. x \div m \in Int
  OBVIOUS
<1>3. x % m \in 0 .. m - 1
  OBVIOUS
<1> QED
  BY <1>1, <1>2, <1>3

(* Whatever writes x as a multiple of m and a rest below m, divides.       *)
LEMMA DivisionIsUnique ==
  ASSUME NEW x \in Int, NEW m \in Nat \ {0}, NEW q \in Int, NEW r \in 0 .. m - 1, x = m * q + r
  PROVE  q = x \div m /\ r = x % m
<1> DEFINE c == x \div m
           d == x % m
<1>1. c \in Int /\ d \in 0 .. m - 1 /\ x = m * c + d
  BY Division
<1> HIDE DEF c, d
<1>2. ~(c < q)
  <2>1. c + 1 <= q => m * c + m <= m * q
    BY <1>1
  <2> QED
    BY <1>1, <2>1
<1>3. ~(q < c)
  <2>1. q + 1 <= c => m * q + m <= m * c
    BY <1>1
  <2> QED
    BY <1>1, <2>1
<1>4. q = c
  BY <1>1, <1>2, <1>3
<1>5. r = d
  BY <1>1, <1>4
<1> QED
  BY <1>4, <1>5 DEF c, d

LEMMA DivisionTwice ==
  ASSUME NEW x \in Int, NEW m \in Nat \ {0}, NEW n \in Nat \ {0}
  PROVE  (x \div m) \div n = x \div (m * n)
<1> DEFINE q == x \div m
           r == x % m
           c == q \div n
           d == q % n
<1>1. q \in Int /\ r \in 0 .. m - 1 /\ x = m * q + r
  BY Division
<1> HIDE DEF q, r
<1>2. c \in Int /\ d \in 0 .. n - 1 /\ q = n * c + d
  BY <1>1, Division
<1> HIDE DEF c, d
<1>3. m * n \in Nat \ {0} /\ x = (m * n) * c + (m * d + r)
  BY <1>1, <1>2
<1>4. m * d + r \in 0 .. m * n - 1
  <2>1. m * d >= 0 /\ m * d <= m * (n - 1)
    BY <1>2
  <2> QED
    BY <1>1, <1>2, <2>1
<1> DEFINE p == m * n
           e == m * d + r
<1>5. p \in Nat \ {0} /\ e \in 0 .. p - 1 /\ x = p * c + e
  BY <1>3, <1>4
<1> HIDE DEF p, e
<1>6. c = x \div p
  BY <1>2, <1>5, DivisionIsUnique
<1> QED
  BY <1>6 DEF q, c, p

LEMMA DivisionOfSum ==
  ASSUME NEW x \in Int, NEW k \in Int, NEW m \in Nat \ {0}
  PROVE  (x + m * k) \div m = (x \div m) + k /\ (x + m * k) % m = x % m
<1> DEFINE q == x \div m
           r == x % m
           y == x + m * k
<1>1. q \in Int /\ r \in 0 .. m - 1 /\ x = m * q + r
  BY Division
<1> HIDE DEF q, r
<1>2. y \in Int /\ q + k \in Int /\ y = m * (q + k) + r
  BY <1>1
<1> HIDE DEF y
<1>3. q + k = y \div m /\ r = y % m
  BY <1>1, <1>2, DivisionIsUnique
<1> QED
  BY <1>3 DEF q, r, y

LEMMA DivisionOfNat ==
  ASSUME NEW x \in Nat, NEW m \in Nat \ {0}
  PROVE  x \div m \in 0 .. x /\ (x < m => x \div m = 0 /\ x % m = x)
<1> DEFINE c == x \div m
           d == x % m
<1>1. c \in Int /\ d \in 0 .. m - 1 /\ x = m * c + d
  BY Division
<1> HIDE DEF c, d
<1>2. c >= 0
  <2>1. c <= -1 => m * c <= -m
    BY <1>1
  <2> QED
    BY <1>1, <2>1
<1>3. c <= m * c
  BY <1>1, <1>2
<1>4. c <= x
  BY <1>1, <1>3
<1>5. x < m => c = 0
  <2>1. c >= 1 => m * c >= m
    BY <1>1
  <2> QED
    BY <1>1, <1>2, <2>1
<1>6. c = 0 => d = x
  BY <1>1
<1> QED
  BY <1>1, <1>2, <1>4, <1>5, <1>6 DEF c, d

LEMMA DivisionOfLess ==
  ASSUME NEW x \in Nat, NEW m \in Nat \ {0}, NEW n \in Nat \ {0}, x < m * n
  PROVE  x \div m \in 0 .. n - 1
<1> DEFINE c == x \div m
           d == x % m
<1>1. c \in Int /\ d \in 0 .. m - 1 /\ x = m * c + d
  BY Division
<1>2. c \in 0 .. x
  BY DivisionOfNat
<1> HIDE DEF c, d
<1>3. c >= n => m * c >= m * n
  BY <1>1
<1>4. m * c \in Int /\ m * n \in Int
  BY <1>1
<1>5. ~(c >= n)
  BY <1>1, <1>3, <1>4
<1> QED
  BY <1>2, <1>5 DEF c

LEMMA SmallModTwo == 0 % 2 = 0 /\ 1 % 2 = 1
OBVIOUS

LEMMA MinusOneIsOdd ==
  ASSUME NEW x \in Int, x + 1 = 0
  PROVE  x % 2 = 1
OBVIOUS

LEMMA RemainderModTwo ==
  ASSUME NEW x \in Int, NEW k \in Int
  PROVE  (x + 2 * k) % 2 = x % 2
OBVIOUS

-----------------------------------------------------------------------------
(***************************************************************************)
(* Bits.                                                                   *)
(***************************************************************************)
LEMMA BitIsBinary ==
  ASSUME NEW v \in Int, NEW i \in Nat
  PROVE  Bit(v, i) \in {0, 1}
<1>1. 2 ^ i \in Nat \ {0}
  BY PowerOfNat
<1>2. v \div 2 ^ i \in Int
  BY <1>1, Division
<1>3. (v \div 2 ^ i) % 2 \in 0 .. 2 - 1
  BY <1>2, Division
<1> QED
  BY <1>3 DEF Bit

LEMMA BitOfQuotient ==
  ASSUME NEW v \in Int, NEW k \in Nat, NEW i \in Nat
  PROVE  Bit(v \div 2 ^ k, i) = Bit(v, i + k)
<1>1. 2 ^ k \in Nat \ {0} /\ 2 ^ i \in Nat \ {0}
  BY PowerOfNat
<1>2. 2 ^ (i + k) = 2 ^ k * 2 ^ i
  BY PowerOfSum
<1>3. (v \div 2 ^ k) \div 2 ^ i = v \div (2 ^ k * 2 ^ i)
  BY <1>1, DivisionTwice
<1> QED
  BY <1>2, <1>3 DEF Bit

(* The multiples of 2 ^ w do not reach below bit w.                        *)
LEMMA BitBelow ==
  ASSUME NEW v \in Int, NEW c \in Int, NEW w \in Nat, NEW i \in 0 .. w - 1
  PROVE  Bit(v + 2 ^ w * c, i) = Bit(v, i)
<1> DEFINE p == 2 ^ i
           k == 2 ^ (w - i - 1)
<1>1. p \in Nat \ {0} /\ k \in Nat \ {0}
  BY PowerOfNat
<1>2. 2 ^ w = p * (2 * k)
  <2>1. w - i - 1 \in Nat /\ w = i + ((w - i - 1) + 1)
    OBVIOUS
  <2>2. 2 ^ ((w - i - 1) + 1) = 2 * k
    BY <2>1, PowerOfNext
  <2>3. 2 ^ w = p * 2 ^ ((w - i - 1) + 1)
    BY <2>1, PowerOfSum
  <2> QED
    BY <2>2, <2>3
<1> HIDE DEF p, k
<1>3. v + 2 ^ w * c = v + p * (2 * (k * c))
  BY <1>1, <1>2
<1>4. 2 * (k * c) \in Int /\ k * c \in Int
  BY <1>1
<1>5. (v + p * (2 * (k * c))) \div p = (v \div p) + 2 * (k * c)
  BY <1>1, <1>4, DivisionOfSum
<1>6. ((v \div p) + 2 * (k * c)) % 2 = (v \div p) % 2
  <2>1. v \div p \in Int
    BY <1>1, Division
  <2> QED
    BY <1>4, <2>1, RemainderModTwo
<1> QED
  BY <1>3, <1>5, <1>6 DEF Bit, p

LEMMA BitOfRemainder ==
  ASSUME NEW v \in Int, NEW w \in Nat, NEW i \in 0 .. w - 1
  PROVE  Bit(v % 2 ^ w, i) = Bit(v, i)
<1>1. 2 ^ w \in Nat \ {0}
  BY PowerOfNat
<1> DEFINE q == v \div 2 ^ w
           r == v % 2 ^ w
<1>2. q \in Int /\ r \in 0 .. 2 ^ w - 1 /\ v = 2 ^ w * q + r
  BY <1>1, Division, Zenon
<1> HIDE DEF q, r
<1>3. r \in Int /\ v = r + 2 ^ w * q
  BY <1>1, <1>2
<1>4. Bit(r + 2 ^ w * q, i) = Bit(r, i)
  BY <1>2, <1>3, BitBelow
<1> QED
  BY <1>3, <1>4 DEF r

(* A number of w bits has no others, and bit w - 1 tells its half.         *)
LEMMA BitAbove ==
  ASSUME NEW w \in Nat, NEW v \in 0 .. 2 ^ w - 1, NEW i \in Nat, w <= i
  PROVE  Bit(v, i) = 0
<1>1. 2 ^ w \in Nat /\ 2 ^ i \in Nat \ {0} /\ 2 ^ w <= 2 ^ i
  BY PowerOfNat, PowersGrow
<1>2. v \in Nat /\ v < 2 ^ i
  BY <1>1
<1>3. v \div 2 ^ i = 0
  BY <1>1, <1>2, DivisionOfNat
<1> QED
  BY <1>3, SmallModTwo, Zenon DEF Bit

LEMMA TopBit ==
  ASSUME NEW n \in Nat, NEW v \in 0 .. 2 ^ (n + 1) - 1
  PROVE  /\ v % 2 ^ n \in 0 .. 2 ^ n - 1
         /\ v = 2 ^ n * Bit(v, n) + (v % 2 ^ n)
<1> DEFINE p == 2 ^ n
           q == v \div p
           r == v % p
<1>1. p \in Nat \ {0} /\ 2 ^ (n + 1) = p * 2
  BY PowerOfNat, PowerOfNext
<1> HIDE DEF p
<1>2. v \in Nat /\ v \in Int /\ v < p * 2
  BY <1>1
<1>3. q \in 0 .. 2 - 1
  BY <1>1, <1>2, DivisionOfLess
<1>4. r \in 0 .. p - 1 /\ v = p * q + r
  BY <1>1, <1>2, Division, Zenon
<1> HIDE DEF q, r
<1>5. q % 2 = q
  BY <1>3
<1> QED
  BY <1>4, <1>5 DEF Bit, p, q, r

(* Numbers of w bits are equal if their bits are.                          *)
LEMMA SameBits ==
  ASSUME NEW w \in Nat, NEW u \in 0 .. 2 ^ w - 1, NEW v \in 0 .. 2 ^ w - 1,
         \A i \in 0 .. w - 1 : Bit(u, i) = Bit(v, i)
  PROVE  u = v
<1> DEFINE S == {n \in Nat : \A x, y \in 0 .. 2 ^ n - 1 :
                               (\A i \in 0 .. n - 1 : Bit(x, i) = Bit(y, i)) => x = y}
<1>1. 0 \in S
  <2>1. 2 ^ 0 = 1
    OBVIOUS
  <2>2. \A x, y \in 0 .. 2 ^ 0 - 1 : x = y
    BY <2>1
  <2> QED
    BY <2>2
<1>2. \A n \in Nat : n \in S => n + 1 \in S
  <2> SUFFICES ASSUME NEW n \in Nat, n \in S,
                      NEW x \in 0 .. 2 ^ (n + 1) - 1, NEW y \in 0 .. 2 ^ (n + 1) - 1,
                      \A i \in 0 .. (n + 1) - 1 : Bit(x, i) = Bit(y, i)
               PROVE  x = y
    OBVIOUS
  <2>1. /\ x % 2 ^ n \in 0 .. 2 ^ n - 1 /\ y % 2 ^ n \in 0 .. 2 ^ n - 1
        /\ x = 2 ^ n * Bit(x, n) + (x % 2 ^ n) /\ y = 2 ^ n * Bit(y, n) + (y % 2 ^ n)
    BY TopBit
  <2>2. x \in Int /\ y \in Int
    BY PowerOfNat
  <2>3. \A i \in 0 .. n - 1 : Bit(x % 2 ^ n, i) = Bit(y % 2 ^ n, i)
    <3> TAKE i \in 0 .. n - 1
    <3>1. Bit(x % 2 ^ n, i) = Bit(x, i) /\ Bit(y % 2 ^ n, i) = Bit(y, i)
      BY <2>2, BitOfRemainder
    <3>2. i \in 0 .. (n + 1) - 1
      OBVIOUS
    <3> QED
      BY <3>1, <3>2
  <2>4. x % 2 ^ n = y % 2 ^ n
    BY <2>1, <2>3
  <2>5. Bit(x, n) = Bit(y, n)
    OBVIOUS
  <2> QED
    BY <2>1, <2>4, <2>5
<1>3. w \in S
  BY <1>1, <1>2, Induct
<1> QED
  BY <1>3

LEMMA BitOnTop ==
  ASSUME NEW n \in Nat, NEW u \in 0 .. 2 ^ n - 1, NEW c \in {0, 1}
  PROVE  LET v == u + 2 ^ n * c IN
         /\ v \in 0 .. 2 ^ (n + 1) - 1
         /\ \A i \in 0 .. n - 1 : Bit(v, i) = Bit(u, i)
         /\ Bit(v, n) = c
<1> DEFINE p == 2 ^ n
           v == u + p * c
<1>1. p \in Nat \ {0} /\ 2 ^ (n + 1) = 2 * p
  BY PowerOfNat, PowerOfNext
<1>2. u \in 0 .. p - 1 /\ u \in Int /\ c \in Int
  OBVIOUS
<1>3. \A i \in 0 .. n - 1 : Bit(v, i) = Bit(u, i)
  BY <1>2, BitBelow
<1>4. Bit(v, n) = (v \div p) % 2
  BY DEF Bit
<1> HIDE DEF p
<1>5. v \in 0 .. 2 * p - 1
  <2>1. c = 0 => v = u
    BY <1>1, <1>2
  <2>2. c = 1 => v = u + p
    BY <1>1, <1>2
  <2> QED
    BY <1>1, <1>2, <2>1, <2>2
<1>6. v \div p = c
  BY <1>1, <1>2, DivisionIsUnique
<1>7. Bit(v, n) = c
  BY <1>4, <1>6, SmallModTwo, Zenon
<1> QED
  BY <1>1, <1>3, <1>5, <1>7 DEF p

(* Every set of bits is that of a number.                                  *)
LEMMA BitsExist ==
  ASSUME NEW w \in Nat, NEW B \in SUBSET (0 .. w - 1)
  PROVE  \E v \in 0 .. 2 ^ w - 1 : \A i \in 0 .. w - 1 : Bit(v, i) = IF i \in B THEN 1 ELSE 0
<1> DEFINE Has(n, C) == \E v \in 0 .. 2 ^ n - 1 :
                          \A i \in 0 .. n - 1 : Bit(v, i) = IF i \in C THEN 1 ELSE 0
           S == {n \in Nat : \A C \in SUBSET (0 .. w - 1) : Has(n, C)}
<1>1. 0 \in S
  <2>1. 2 ^ 0 = 1 /\ 0 \in 0 .. 1 - 1
    OBVIOUS
  <2> QED
    BY <2>1
<1>2. \A n \in Nat : n \in S => n + 1 \in S
  <2> SUFFICES ASSUME NEW n \in Nat, n \in S, NEW C \in SUBSET (0 .. w - 1)
               PROVE  Has(n + 1, C)
    OBVIOUS
  <2>1. PICK u \in 0 .. 2 ^ n - 1 : \A i \in 0 .. n - 1 : Bit(u, i) = IF i \in C THEN 1 ELSE 0
    OBVIOUS
  <2> DEFINE c == IF n \in C THEN 1 ELSE 0
             v == u + 2 ^ n * c
  <2>2. c \in {0, 1}
    OBVIOUS
  <2> HIDE DEF c, S, Has
  <2>3. v \in 0 .. 2 ^ (n + 1) - 1 /\ (\A i \in 0 .. n - 1 : Bit(v, i) = Bit(u, i)) /\ Bit(v, n) = c
    BY <2>2, BitOnTop, Zenon
  <2>4. \A i \in 0 .. (n + 1) - 1 : i \in 0 .. n - 1 \/ i = n
    OBVIOUS
  <2> HIDE DEF v
  <2>5. \A i \in 0 .. (n + 1) - 1 : Bit(v, i) = IF i \in C THEN 1 ELSE 0
    BY <2>1, <2>3, <2>4 DEF c
  <2> QED
    BY <2>3, <2>5 DEF Has
<1>3. w \in S
  BY <1>1, <1>2, Induct
<1> QED
  BY <1>3

LEMMA BitsOf ==
  ASSUME NEW w \in Nat, NEW v \in Nat
  PROVE  Bits(w, v) = {i \in 0 .. w - 1 : Bit(v, i) = 1}
BY DEF Bits, Bit

(* What OfBits and FromBits choose.                                        *)
LEMMA NumberOfBits ==
  ASSUME NEW w \in Nat, NEW B \in SUBSET (0 .. w - 1)
  PROVE  /\ FromBits(w, B) \in 0 .. 2 ^ w - 1
         /\ \A i \in 0 .. w - 1 : Bit(FromBits(w, B), i) = IF i \in B THEN 1 ELSE 0
<1>1. PICK v \in 0 .. 2 ^ w - 1 : \A i \in 0 .. w - 1 : Bit(v, i) = IF i \in B THEN 1 ELSE 0
  BY BitsExist
<1>2. 2 ^ w \in Nat
  BY PowerOfNat
<1>3. \A i \in 0 .. w - 1 : Bit(v, i) = 1 <=> i \in B
  BY <1>1
<1>4. Bits(w, v) = B
  <2>1. v \in Nat
    BY <1>2
  <2>2. Bits(w, v) = {i \in 0 .. w - 1 : Bit(v, i) = 1}
    BY <2>1, BitsOf
  <2> QED
    BY <1>3, <2>2
<1> DEFINE u == FromBits(w, B)
<1>5. u \in 0 .. 2 ^ w - 1 /\ Bits(w, u) = B
  BY <1>4 DEF FromBits
<1> HIDE DEF u
<1>6. u \in Nat
  BY <1>2, <1>5
<1>7. \A i \in 0 .. w - 1 : Bit(u, i) = 1 <=> i \in B
  BY <1>5, <1>6, BitsOf
<1>8. \A i \in 0 .. w - 1 : Bit(u, i) \in {0, 1}
  BY <1>6, BitIsBinary
<1> QED
  BY <1>5, <1>7, <1>8 DEF u

-----------------------------------------------------------------------------
(***************************************************************************)
(* Two's complement.                                                       *)
(***************************************************************************)
Word(w) == 0 .. 2 ^ w - 1

LEMMA HalfAWord ==
  ASSUME NEW w \in Nat \ {0}
  PROVE  2 ^ (w - 1) \in Nat \ {0} /\ 2 ^ w = 2 * 2 ^ (w - 1)
<1>1. w - 1 \in Nat /\ w = (w - 1) + 1
  OBVIOUS
<1> QED
  BY <1>1, PowerOfNat, PowerOfNext

LEMMA Wraps ==
  ASSUME NEW w \in Nat, NEW x \in Int
  PROVE  Unsigned(w, x) \in Word(w)
BY PowerOfNat, Division DEF Unsigned, Word

LEMMA SignedRange ==
  ASSUME NEW w \in Nat \ {0}, NEW x \in Word(w)
  PROVE  /\ Signed(w, x) \in -(2 ^ (w - 1)) .. 2 ^ (w - 1) - 1
         /\ Signed(w, x) = x \/ Signed(w, x) = x - 2 ^ w
<1> DEFINE h == 2 ^ (w - 1)
<1>1. h \in Nat \ {0} /\ 2 ^ w = 2 * h
  BY HalfAWord
<1>2. x \in 0 .. 2 * h - 1 /\ Signed(w, x) = IF x < h THEN x ELSE x - 2 * h
  BY <1>1 DEF Word, Signed
<1> HIDE DEF h
<1>3. Signed(w, x) \in -h .. h - 1 /\ (Signed(w, x) = x \/ Signed(w, x) = x - 2 * h)
  BY <1>1, <1>2
<1> QED
  BY <1>1, <1>3 DEF h

LEMMA BitOfSigned ==
  ASSUME NEW w \in Nat \ {0}, NEW x \in Word(w), NEW j \in Nat
  PROVE  Bit(Signed(w, x), j) = Bit(x, IF j < w THEN j ELSE w - 1)
<1> DEFINE h == 2 ^ (w - 1)
           m == 2 ^ w
<1>1. h \in Nat \ {0} /\ m = 2 * h /\ x \in 0 .. m - 1 /\ w - 1 \in Nat
  BY HalfAWord DEF Word
<1>2. CASE x < h
  <2>1. Signed(w, x) = x
    BY <1>2 DEF Signed
  <2>2. x \in 0 .. 2 ^ (w - 1) - 1
    BY <1>1, <1>2
  <2>3. Bit(x, w - 1) = 0 /\ (j >= w => Bit(x, j) = 0)
    BY <1>1, <2>2, BitAbove
  <2> QED
    BY <2>1, <2>3
<1>3. CASE ~(x < h)
  <2>1. Signed(w, x) = x + m * (-1)
    BY <1>1, <1>3 DEF Signed
  <2>2. CASE j < w
    <3>1. j \in 0 .. w - 1 /\ x \in Int /\ -1 \in Int
      BY <1>1, <2>2
    <3>2. Bit(x + m * (-1), j) = Bit(x, j)
      BY <3>1, BitBelow
    <3> QED
      BY <2>1, <2>2, <3>2
  <2>3. CASE j >= w
    <3> DEFINE p == 2 ^ j
    <3>1. p \in Nat \ {0} /\ m <= p
      BY <2>3, PowerOfNat, PowersGrow
    <3>2. Bit(x + m * (-1), j) = ((x + m * (-1)) \div p) % 2 /\ Bit(x, w - 1) = (x \div h) % 2
      BY DEF Bit
    <3> HIDE DEF p, h, m
    <3>3. (x + m * (-1)) \div p = -1
      <4>1. x + m * (-1) = p * (-1) + (x - m + p) /\ x - m + p \in 0 .. p - 1
        BY <1>1, <3>1
      <4>2. x + m * (-1) \in Int
        BY <1>1
      <4> QED
        BY <3>1, <4>1, <4>2, DivisionIsUnique
    <3>4. x \div h = 1
      <4>1. x = h * 1 + (x - h) /\ x - h \in 0 .. h - 1
        BY <1>1, <1>3
      <4> QED
        BY <1>1, <4>1, DivisionIsUnique
    <3>5. ((x + m * (-1)) \div p) % 2 = 1
      <4>1. (x + m * (-1)) \div p \in Int /\ ((x + m * (-1)) \div p) + 1 = 0
        BY <3>3
      <4> QED
        BY <4>1, MinusOneIsOdd, Zenon
    <3> QED
      BY <2>1, <2>3, <3>2, <3>4, <3>5, SmallModTwo
  <2> QED
    BY <2>2, <2>3
<1> QED
  BY <1>2, <1>3

-----------------------------------------------------------------------------
(***************************************************************************)
(* What the instructions do to bits.                                       *)
(***************************************************************************)
LEMMA Words ==
  ASSUME NEW w \in Nat
  PROVE  Word(w) \subseteq Nat
BY PowerOfNat DEF Word

LEMMA BitOfZero ==
  ASSUME NEW i \in Nat
  PROVE  Bit(0, i) = 0
<1>1. 2 ^ 0 = 1
  OBVIOUS
<1>2. 0 \in Nat /\ 0 \in 0 .. 2 ^ 0 - 1 /\ 0 <= i
  BY <1>1
<1> QED
  BY <1>2, BitAbove, Zenon

LEMMA BitOfOr ==
  ASSUME NEW w \in Nat, NEW x \in Word(w), NEW y \in Word(w)
  PROVE  /\ Or(w, x, y) \in Word(w)
         /\ \A i \in 0 .. w - 1 :
              Bit(Or(w, x, y), i) = IF Bit(x, i) + Bit(y, i) = 0 THEN 0 ELSE 1
<1> DEFINE B == Bits(w, x) \cup Bits(w, y)
<1>1. x \in Nat /\ y \in Nat
  BY Words
<1>2. \A i \in 0 .. w - 1 : i \in B <=> Bit(x, i) = 1 \/ Bit(y, i) = 1
  BY <1>1, BitsOf
<1>3. \A i \in 0 .. w - 1 : Bit(x, i) \in {0, 1} /\ Bit(y, i) \in {0, 1}
  BY <1>1, BitIsBinary
<1>4. B \in SUBSET (0 .. w - 1)
  BY DEF Bits
<1> HIDE DEF B
<1>5. \A i \in 0 .. w - 1 : (IF i \in B THEN 1 ELSE 0) = IF Bit(x, i) + Bit(y, i) = 0 THEN 0 ELSE 1
  BY <1>2, <1>3
<1>6. Or(w, x, y) = FromBits(w, B)
  BY DEF Or, B
<1> QED
  BY <1>4, <1>5, <1>6, NumberOfBits DEF Word

LEMMA BitOfAnd ==
  ASSUME NEW w \in Nat, NEW x \in Word(w), NEW y \in Word(w)
  PROVE  /\ And(w, x, y) \in Word(w)
         /\ \A i \in 0 .. w - 1 : Bit(And(w, x, y), i) = Bit(x, i) * Bit(y, i)
<1> DEFINE B == Bits(w, x) \cap Bits(w, y)
<1>1. x \in Nat /\ y \in Nat
  BY Words
<1>2. \A i \in 0 .. w - 1 : i \in B <=> Bit(x, i) = 1 /\ Bit(y, i) = 1
  BY <1>1, BitsOf
<1>3. \A i \in 0 .. w - 1 : Bit(x, i) \in {0, 1} /\ Bit(y, i) \in {0, 1}
  BY <1>1, BitIsBinary
<1>4. B \in SUBSET (0 .. w - 1)
  BY DEF Bits
<1> HIDE DEF B
<1>5. \A i \in 0 .. w - 1 : (IF i \in B THEN 1 ELSE 0) = Bit(x, i) * Bit(y, i)
  BY <1>2, <1>3
<1>6. And(w, x, y) = FromBits(w, B)
  BY DEF And, B
<1> QED
  BY <1>4, <1>5, <1>6, NumberOfBits DEF Word

(* Numbers without a bit in common are added without a carry.              *)
LEMMA SumOfApart ==
  ASSUME NEW w \in Nat, NEW x \in Word(w), NEW y \in Word(w),
         \A i \in 0 .. w - 1 : Bit(x, i) = 0 \/ Bit(y, i) = 0
  PROVE  /\ x + y \in Word(w)
         /\ \A i \in 0 .. w - 1 : Bit(x + y, i) = Bit(x, i) + Bit(y, i)
<1> DEFINE Apart(n, u, v) == \A i \in 0 .. n - 1 : Bit(u, i) = 0 \/ Bit(v, i) = 0
           Added(n, u, v) == /\ u + v \in 0 .. 2 ^ n - 1
                             /\ \A i \in 0 .. n - 1 : Bit(u + v, i) = Bit(u, i) + Bit(v, i)
           S == {n \in Nat : \A u, v \in 0 .. 2 ^ n - 1 : Apart(n, u, v) => Added(n, u, v)}
<1>1. 0 \in S
  <2>1. 2 ^ 0 = 1
    OBVIOUS
  <2>2. \A u, v \in 0 .. 2 ^ 0 - 1 : u + v \in 0 .. 2 ^ 0 - 1
    BY <2>1
  <2> QED
    BY <2>2
<1>2. ASSUME NEW n \in Nat, n \in S,
             NEW u \in 0 .. 2 ^ (n + 1) - 1, NEW v \in 0 .. 2 ^ (n + 1) - 1, Apart(n + 1, u, v)
      PROVE  Added(n + 1, u, v)
  <2> DEFINE p == 2 ^ n
             low == (u % p) + (v % p)
             high == Bit(u, n) + Bit(v, n)
  <2>1. /\ u % p \in 0 .. p - 1 /\ v % p \in 0 .. p - 1
        /\ u = p * Bit(u, n) + (u % p) /\ v = p * Bit(v, n) + (v % p)
    BY TopBit
  <2>2. u \in Int /\ v \in Int /\ p \in Nat \ {0}
    BY PowerOfNat
  <2>3. \A i \in 0 .. n - 1 : i \in Nat /\ i \in 0 .. (n + 1) - 1
    OBVIOUS
  <2>4. \A i \in 0 .. n - 1 : Bit(u % p, i) = Bit(u, i) /\ Bit(v % p, i) = Bit(v, i)
    BY <2>2, BitOfRemainder
  <2>5. Apart(n, u % p, v % p)
    BY <1>2, <2>3, <2>4
  <2>6. low \in 0 .. p - 1 /\ \A i \in 0 .. n - 1 : Bit(low, i) = Bit(u, i) + Bit(v, i)
    <3>1. Added(n, u % p, v % p)
      BY <1>2, <2>1, <2>5
    <3> QED
      BY <2>4, <3>1
  <2>7. high \in {0, 1}
    <3>1. n \in 0 .. (n + 1) - 1
      OBVIOUS
    <3>2. Bit(u, n) = 0 \/ Bit(v, n) = 0
      BY <1>2, <3>1
    <3>3. Bit(u, n) \in {0, 1} /\ Bit(v, n) \in {0, 1}
      BY <2>2, BitIsBinary
    <3> QED
      BY <3>2, <3>3
  <2>8. u + v = low + p * high
    <3> DEFINE k == Bit(u, n)
               m == Bit(v, n)
    <3>1. k \in Int /\ m \in Int
      <4>1. k \in {0, 1} /\ m \in {0, 1}
        BY <2>2, BitIsBinary
      <4> QED
        BY <4>1
    <3>2. u = p * k + (u % p) /\ v = p * m + (v % p) /\ u % p \in Int /\ v % p \in Int
      BY <2>1
    <3>3. u + v = ((u % p) + (v % p)) + p * (k + m)
      <4> HIDE DEF k, m, p
      <4> QED
        BY <2>2, <3>1, <3>2
    <3> QED
      BY <3>3
  <2> HIDE DEF low, high, S
  <2>9. /\ low + p * high \in 0 .. 2 ^ (n + 1) - 1
        /\ \A i \in 0 .. n - 1 : Bit(low + p * high, i) = Bit(low, i)
        /\ Bit(low + p * high, n) = high
    BY <2>6, <2>7, BitOnTop, Zenon
  <2>10. \A i \in 0 .. (n + 1) - 1 : i \in 0 .. n - 1 \/ i = n
    OBVIOUS
  <2>11. \A i \in 0 .. (n + 1) - 1 : Bit(u + v, i) = Bit(u, i) + Bit(v, i)
    BY <2>6, <2>8, <2>9, <2>10 DEF high
  <2> QED
    BY <2>8, <2>9, <2>11
<1>3. w \in S
  <2>1. \A n \in Nat : n \in S => n + 1 \in S
    <3> HIDE DEF Apart, Added
    <3> SUFFICES ASSUME NEW n \in Nat, n \in S
                 PROVE  n + 1 \in S
      OBVIOUS
    <3>1. \A u, v \in 0 .. 2 ^ (n + 1) - 1 : Apart(n + 1, u, v) => Added(n + 1, u, v)
      BY <1>2, Zenon
    <3> QED
      BY <3>1
  <2> HIDE DEF S
  <2> QED
    BY <1>1, <2>1, Induct
<1> QED
  BY <1>3 DEF Word

LEMMA BitOfXor ==
  ASSUME NEW w \in Nat, NEW x \in Word(w), NEW y \in Word(w)
  PROVE  /\ Xor(w, x, y) \in Word(w)
         /\ \A i \in 0 .. w - 1 : Bit(Xor(w, x, y), i) = (Bit(x, i) + Bit(y, i)) % 2
<1> DEFINE B == {i \in 0 .. w - 1 : Bit(x, i) # Bit(y, i)}
           z == FromBits(w, B)
           or == Or(w, x, y)
           and == And(w, x, y)
<1>1. x \in Nat /\ y \in Nat
  BY Words
<1>2. \A i \in 0 .. w - 1 : Bit(x, i) \in {0, 1} /\ Bit(y, i) \in {0, 1}
  BY <1>1, BitIsBinary
<1>3. z \in Word(w) /\ \A i \in 0 .. w - 1 : Bit(z, i) = IF Bit(x, i) # Bit(y, i) THEN 1 ELSE 0
  BY NumberOfBits DEF Word
<1>4. and \in Word(w) /\ \A i \in 0 .. w - 1 : Bit(and, i) = Bit(x, i) * Bit(y, i)
  BY BitOfAnd
<1>5. or \in Word(w) /\ \A i \in 0 .. w - 1 :
                          Bit(or, i) = IF Bit(x, i) + Bit(y, i) = 0 THEN 0 ELSE 1
  BY BitOfOr
<1> HIDE DEF z, or, and
<1>6. \A i \in 0 .. w - 1 : Bit(and, i) = 0 \/ Bit(z, i) = 0
  BY <1>2, <1>3, <1>4
<1>7. and + z \in Word(w) /\ \A i \in 0 .. w - 1 : Bit(and + z, i) = Bit(and, i) + Bit(z, i)
  BY <1>3, <1>4, <1>6, SumOfApart
<1>8. \A i \in 0 .. w - 1 : Bit(and + z, i) = Bit(or, i)
  BY <1>2, <1>3, <1>4, <1>5, <1>7
<1>9. and + z = or
  BY <1>5, <1>7, <1>8, SameBits DEF Word
<1>10. Xor(w, x, y) = z
  <2>1. and \in Nat /\ z \in Nat
    BY <1>3, <1>4, Words
  <2> QED
    BY <1>9, <2>1 DEF Xor, or, and
<1>11. \A i \in 0 .. w - 1 : Bit(z, i) = (Bit(x, i) + Bit(y, i)) % 2
  <2> TAKE i \in 0 .. w - 1
  <2>1. Bit(z, i) = IF Bit(x, i) # Bit(y, i) THEN 1 ELSE 0
    BY <1>3
  <2>2. Bit(x, i) + Bit(y, i) \in {0, 1, 2} /\ (Bit(x, i) + Bit(y, i) = 1 <=> Bit(x, i) # Bit(y, i))
    BY <1>2
  <2> QED
    BY <2>1, <2>2
<1> QED
  BY <1>3, <1>10, <1>11

LEMMA BitOfMultiple ==
  ASSUME NEW x \in Int, NEW k \in Nat, NEW i \in Nat
  PROVE  Bit(x * 2 ^ k, i) = IF i < k THEN 0 ELSE Bit(x, i - k)
<1> DEFINE p == 2 ^ k
<1>1. p \in Nat \ {0}
  BY PowerOfNat
<1>2. CASE i < k
  <2>1. 0 \in Int /\ i \in 0 .. k - 1 /\ x * p = 0 + p * x
    BY <1>1, <1>2
  <2>2. Bit(0 + p * x, i) = Bit(0, i)
    BY <2>1, BitBelow
  <2> QED
    BY <1>2, <2>1, <2>2, BitOfZero
<1>3. CASE ~(i < k)
  <2>1. i - k \in Nat /\ (i - k) + k = i
    BY <1>3
  <2>2. x * p \in Int /\ (x * p) \div p = x
    <3>1. x * p \in Int /\ x * p = p * x + 0
      BY <1>1
    <3> HIDE DEF p
    <3>2. 0 \in 0 .. p - 1
      BY <1>1
    <3> QED
      BY <1>1, <3>1, <3>2, DivisionIsUnique
  <2>3. Bit((x * p) \div p, i - k) = Bit(x * p, (i - k) + k)
    BY <2>1, <2>2, BitOfQuotient
  <2> QED
    BY <1>3, <2>1, <2>2, <2>3
<1> QED
  BY <1>2, <1>3

LEMMA BitOfShiftLeft ==
  ASSUME NEW w \in Nat \ {0}, NEW x \in Word(w), NEW n \in Int
  PROVE  /\ ShiftLeft(w, x, n) \in Word(w)
         /\ \A i \in 0 .. w - 1 :
              Bit(ShiftLeft(w, x, n), i) = IF i < n % w THEN 0 ELSE Bit(x, i - (n % w))
<1> DEFINE k == n % w
<1>1. k \in Nat /\ x \in Int
  BY Division, Words
<1> HIDE DEF k
<1>2. x * 2 ^ k \in Int
  <2>1. 2 ^ k \in Nat
    BY <1>1, PowerOfNat
  <2> QED
    BY <1>1, <2>1
<1>3. ShiftLeft(w, x, n) = (x * 2 ^ k) % 2 ^ w
  BY DEF ShiftLeft, Unsigned, k
<1>4. (x * 2 ^ k) % 2 ^ w \in Word(w)
  BY <1>2, Wraps DEF Unsigned
<1>5. \A i \in 0 .. w - 1 : Bit((x * 2 ^ k) % 2 ^ w, i) = IF i < k THEN 0 ELSE Bit(x, i - k)
  <2> TAKE i \in 0 .. w - 1
  <2>1. Bit((x * 2 ^ k) % 2 ^ w, i) = Bit(x * 2 ^ k, i)
    BY <1>2, BitOfRemainder
  <2>2. i \in Nat
    OBVIOUS
  <2> QED
    BY <1>1, <2>1, <2>2, BitOfMultiple
<1> QED
  BY <1>3, <1>4, <1>5 DEF k

LEMMA BitOfShiftRight ==
  ASSUME NEW w \in Nat \ {0}, NEW x \in Word(w), NEW n \in Int
  PROVE  /\ ShiftRight(w, x, n) \in Word(w)
         /\ \A i \in 0 .. w - 1 :
              Bit(ShiftRight(w, x, n), i) = IF i + (n % w) < w THEN Bit(x, i + (n % w)) ELSE 0
<1> DEFINE k == n % w
<1>1. k \in Nat /\ x \in Nat /\ x \in Int /\ 2 ^ k \in Nat \ {0}
  <2>1. k \in Nat
    BY Division
  <2> HIDE DEF k
  <2> QED
    BY <2>1, Words, PowerOfNat
<1> HIDE DEF k
<1>2. ShiftRight(w, x, n) = x \div 2 ^ k
  BY DEF ShiftRight, k
<1>3. x \div 2 ^ k \in Word(w)
  <2>1. x \div 2 ^ k \in 0 .. x
    BY <1>1, DivisionOfNat
  <2>2. 2 ^ w \in Nat
    BY PowerOfNat
  <2> QED
    BY <2>1, <2>2 DEF Word
<1>4. \A i \in 0 .. w - 1 : Bit(x \div 2 ^ k, i) = IF i + k < w THEN Bit(x, i + k) ELSE 0
  <2> TAKE i \in 0 .. w - 1
  <2>1. i \in Nat /\ i + k \in Nat
    BY <1>1
  <2>2. Bit(x \div 2 ^ k, i) = Bit(x, i + k)
    BY <1>1, <2>1, BitOfQuotient
  <2>3. i + k >= w => Bit(x, i + k) = 0
    BY <2>1, BitAbove DEF Word
  <2> QED
    BY <2>1, <2>2, <2>3
<1> QED
  BY <1>2, <1>3, <1>4 DEF k

LEMMA BitOfShiftRightSigned ==
  ASSUME NEW w \in Nat \ {0}, NEW x \in Word(w), NEW n \in Int
  PROVE  /\ ShiftRightSigned(w, x, n) \in Word(w)
         /\ \A i \in 0 .. w - 1 :
              Bit(ShiftRightSigned(w, x, n), i) =
                Bit(x, IF i + (n % w) < w THEN i + (n % w) ELSE w - 1)
<1> DEFINE k == n % w
           s == Signed(w, x)
<1>1. k \in Nat
  BY Division
<1>2. s \in Int
  <2>1. 2 ^ (w - 1) \in Nat
    BY HalfAWord
  <2> QED
    BY <2>1, SignedRange
<1> HIDE DEF k, s
<1>3. s \div 2 ^ k \in Int
  <2>1. 2 ^ k \in Nat \ {0}
    BY <1>1, PowerOfNat
  <2> QED
    BY <1>2, <2>1, Division
<1>4. ShiftRightSigned(w, x, n) = (s \div 2 ^ k) % 2 ^ w
  BY DEF ShiftRightSigned, Unsigned, k, s
<1>5. (s \div 2 ^ k) % 2 ^ w \in Word(w)
  BY <1>3, Wraps DEF Unsigned
<1>6. \A i \in 0 .. w - 1 :
        Bit((s \div 2 ^ k) % 2 ^ w, i) = Bit(x, IF i + k < w THEN i + k ELSE w - 1)
  <2> TAKE i \in 0 .. w - 1
  <2>1. i \in Nat /\ i + k \in Nat
    BY <1>1
  <2>2. Bit((s \div 2 ^ k) % 2 ^ w, i) = Bit(s \div 2 ^ k, i)
    BY <1>3, BitOfRemainder
  <2>3. Bit(s \div 2 ^ k, i) = Bit(s, i + k)
    BY <1>1, <1>2, <2>1, BitOfQuotient
  <2>4. Bit(s, i + k) = Bit(x, IF i + k < w THEN i + k ELSE w - 1)
    BY <2>1, BitOfSigned DEF s
  <2> QED
    BY <2>2, <2>3, <2>4
<1> QED
  BY <1>4, <1>5, <1>6 DEF k

LEMMA BitOfExtension ==
  ASSUME NEW w \in Nat \ {0}, NEW x \in Word(w), NEW n \in Nat \ {0}, n < w
  PROVE  /\ SignExtended(n, w, x) \in Word(w)
         /\ \A i \in 0 .. w - 1 :
              Bit(SignExtended(n, w, x), i) = Bit(x, IF i < n THEN i ELSE n - 1)
<1> DEFINE c == x % 2 ^ n
           s == Signed(n, c)
<1>1. x \in Int
  BY Words
<1>2. c \in Word(n)
  BY <1>1, Wraps DEF Unsigned
<1>3. \A i \in 0 .. n - 1 : Bit(c, i) = Bit(x, i)
  BY <1>1, BitOfRemainder
<1> HIDE DEF c
<1>4. s \in Int
  <2>1. 2 ^ (n - 1) \in Nat
    BY HalfAWord
  <2> QED
    BY <1>2, <2>1, SignedRange
<1>5. \A j \in Nat : Bit(s, j) = Bit(c, IF j < n THEN j ELSE n - 1)
  BY <1>2, BitOfSigned
<1> HIDE DEF s
<1>6. SignExtended(n, w, x) = s % 2 ^ w
  BY DEF SignExtended, Unsigned, s, c
<1>7. s % 2 ^ w \in Word(w)
  BY <1>4, Wraps DEF Unsigned
<1>8. \A i \in 0 .. w - 1 : Bit(s % 2 ^ w, i) = Bit(x, IF i < n THEN i ELSE n - 1)
  <2> TAKE i \in 0 .. w - 1
  <2>1. i \in Nat /\ (IF i < n THEN i ELSE n - 1) \in 0 .. n - 1
    OBVIOUS
  <2>2. Bit(s % 2 ^ w, i) = Bit(s, i)
    BY <1>4, BitOfRemainder
  <2> QED
    BY <1>3, <1>5, <2>1, <2>2
<1> QED
  BY <1>6, <1>7, <1>8

LEMMA NearRemainder ==
  ASSUME NEW w \in Nat \ {0}, NEW v \in Int
  PROVE  /\ v \in 0 .. w - 1 => v % w = v
         /\ v \in -w .. -1 => v % w = v + w
         /\ v \in w .. 2 * w - 1 => v % w = v - w
<1>1. ASSUME v \in 0 .. w - 1 PROVE v % w = v
  <2>1. v = w * 0 + v
    BY <1>1
  <2> QED
    BY <1>1, <2>1, DivisionIsUnique
<1>2. ASSUME v \in -w .. -1 PROVE v % w = v + w
  <2>1. v = w * (-1) + (v + w) /\ v + w \in 0 .. w - 1
    BY <1>2
  <2> QED
    BY <2>1, DivisionIsUnique
<1>3. ASSUME v \in w .. 2 * w - 1 PROVE v % w = v - w
  <2>1. v = w * 1 + (v - w) /\ v - w \in 0 .. w - 1
    BY <1>3
  <2> QED
    BY <2>1, DivisionIsUnique
<1> QED
  BY <1>1, <1>2, <1>3

(* The cast of the count to unsigned int keeps its remainder.              *)
LEMMA CountOfRotation ==
  ASSUME NEW w \in Nat \ {0}, 2 ^ BITS["i32"] % w = 0, NEW y \in Nat
  PROVE  RotateCount(w, y) = y % w
<1> DEFINE m == 2 ^ BITS["i32"]
           q == y \div m
           c == m \div w
<1>1. m \in Nat \ {0} /\ m \in Int /\ y \in Int
  BY BitsAssumption, PowerOfNat
<1>2. q \in Int /\ y = m * q + (y % m) /\ y % m \in Int
  <2> HIDE DEF m
  <2>1. q \in Int /\ y = m * q + (y % m) /\ y % m \in 0 .. m - 1
    BY <1>1, Division, Zenon
  <2> QED
    BY <1>1, <2>1
<1>3. c \in Int /\ m = w * c
  <2>1. m = w * c + (m % w) /\ c \in Int
    <3> HIDE DEF m
    <3> QED
      BY <1>1, Division
  <2> QED
    BY <2>1
<1>4. RotateCount(w, y) = (y % m) % w
  BY DEF RotateCount
<1> HIDE DEF m, q, c
<1>5. y = (y % m) + w * (c * q) /\ c * q \in Int
  BY <1>1, <1>2, <1>3
<1>6. ((y % m) + w * (c * q)) % w = (y % m) % w
  BY <1>2, <1>5, DivisionOfSum
<1> QED
  BY <1>4, <1>5, <1>6

LEMMA CountAndRest ==
  ASSUME NEW w \in Nat \ {0}, NEW y \in Word(w)
  PROVE  LET k == y % w IN
         /\ k \in 0 .. w - 1 /\ -k \in Int /\ k % w = k
         /\ (-k) % w = IF k = 0 THEN 0 ELSE w - k
<1> DEFINE k == y % w
<1>1. k \in 0 .. w - 1
  <2>1. y \in Int
    BY Words
  <2> QED
    BY <2>1, Division
<1> HIDE DEF k
<1>2. k \in Int /\ -k \in Int /\ (-k \in -w .. -1 \/ k = 0) /\ -k + w = w - k
  BY <1>1
<1>3. k % w = k
  BY <1>1, <1>2, NearRemainder
<1>4. CASE k = 0
  <2>1. \A m \in Int : m + m = 0 => -m = m
    OBVIOUS
  <2>2. -k = k
    <3>1. k + k = 0
      BY <1>4
    <3> QED
      BY <1>2, <2>1, <3>1
  <2>3. (-k) % w = 0
    BY <1>3, <1>4, <2>2, Zenon
  <2> QED
    BY <1>1, <1>2, <1>3, <1>4, <2>3 DEF k
<1>5. CASE k # 0
  <2>1. (-k) % w = w - k
    BY <1>2, <1>5, NearRemainder
  <2> QED
    BY <1>1, <1>2, <1>3, <1>5, <2>1 DEF k
<1> QED
  BY <1>4, <1>5

LEMMA BitOfRotateLeft ==
  ASSUME NEW w \in Nat \ {0}, 2 ^ BITS["i32"] % w = 0, NEW x \in Word(w), NEW y \in Word(w)
  PROVE  /\ RotateLeft(w, x, y) \in Word(w)
         /\ \A i \in 0 .. w - 1 : Bit(RotateLeft(w, x, y), i) = Bit(x, (i - (y % w)) % w)
<1> DEFINE k == y % w
           d == (-k) % w
           left == ShiftLeft(w, x, k)
           right == ShiftRight(w, x, -k)
<1>1. k \in 0 .. w - 1 /\ -k \in Int /\ k % w = k /\ d = (IF k = 0 THEN 0 ELSE w - k)
  BY CountAndRest
<1>3. k \in Int /\ y \in Nat /\ x \in Int
  BY <1>1, Words
<1>2. RotateLeft(w, x, y) = Or(w, left, right)
  BY <1>3, CountOfRotation DEF RotateLeft
<1> HIDE DEF k
<1>4. /\ left \in Word(w)
      /\ \A i \in 0 .. w - 1 : Bit(left, i) = IF i < k THEN 0 ELSE Bit(x, i - k)
  BY <1>1, <1>3, BitOfShiftLeft
<1>5. /\ right \in Word(w)
      /\ \A i \in 0 .. w - 1 : Bit(right, i) = IF i + d < w THEN Bit(x, i + d) ELSE 0
  BY <1>1, BitOfShiftRight
<1> HIDE DEF left, right, d
<1>6. /\ Or(w, left, right) \in Word(w)
      /\ \A i \in 0 .. w - 1 :
           Bit(Or(w, left, right), i) = IF Bit(left, i) + Bit(right, i) = 0 THEN 0 ELSE 1
  BY <1>4, <1>5, BitOfOr
<1>7. \A i \in 0 .. w - 1 : Bit(Or(w, left, right), i) = Bit(x, (i - k) % w)
  <2> TAKE i \in 0 .. w - 1
  <2> DEFINE j == (i - k) % w
             m == i - k
  <2>1. j = IF i < k THEN i - k + w ELSE i - k
    <3>1. m \in Int /\ (i < k => m \in -w .. -1) /\ (~(i < k) => m \in 0 .. w - 1)
      BY <1>1
    <3>2. /\ m \in 0 .. w - 1 => m % w = m
          /\ m \in -w .. -1 => m % w = m + w
      <4> HIDE DEF m
      <4> QED
        BY <3>1, NearRemainder
    <3>3. j = m % w
      OBVIOUS
    <3> QED
      BY <1>1, <3>1, <3>2, <3>3
  <2> HIDE DEF j
  <2>2. j \in Nat /\ Bit(x, j) \in {0, 1}
    <3>1. j \in Nat
      BY <1>1, <2>1
    <3> QED
      BY <1>3, <3>1, BitIsBinary
  <2>3. Bit(left, i) = IF i < k THEN 0 ELSE Bit(x, i - k)
    BY <1>4
  <2>4. Bit(right, i) = IF i + d < w THEN Bit(x, i + d) ELSE 0
    BY <1>5
  <2>5. CASE i < k
    <3>1. Bit(left, i) = 0 /\ Bit(right, i) = Bit(x, j)
      BY <1>1, <1>3, <2>1, <2>3, <2>4, <2>5
    <3> QED
      BY <1>6, <2>2, <3>1 DEF j
  <2>6. CASE k = 0
    <3>1. Bit(left, i) = Bit(x, j) /\ Bit(right, i) = Bit(x, j)
      BY <1>1, <1>3, <2>1, <2>3, <2>4, <2>6
    <3> QED
      BY <1>6, <2>2, <3>1 DEF j
  <2>7. CASE ~(i < k) /\ k # 0
    <3>1. Bit(left, i) = Bit(x, j) /\ Bit(right, i) = 0
      BY <1>1, <1>3, <2>1, <2>3, <2>4, <2>7
    <3> QED
      BY <1>6, <2>2, <3>1 DEF j
  <2> QED
    BY <2>5, <2>6, <2>7
<1> QED
  BY <1>2, <1>6, <1>7 DEF k

LEMMA BitOfRotateRight ==
  ASSUME NEW w \in Nat \ {0}, 2 ^ BITS["i32"] % w = 0, NEW x \in Word(w), NEW y \in Word(w)
  PROVE  /\ RotateRight(w, x, y) \in Word(w)
         /\ \A i \in 0 .. w - 1 : Bit(RotateRight(w, x, y), i) = Bit(x, (i + (y % w)) % w)
<1> DEFINE k == y % w
           d == (-k) % w
           right == ShiftRight(w, x, k)
           left == ShiftLeft(w, x, -k)
<1>1. k \in 0 .. w - 1 /\ -k \in Int /\ k % w = k /\ d = (IF k = 0 THEN 0 ELSE w - k)
  BY CountAndRest
<1>3. k \in Int /\ y \in Nat /\ x \in Int
  BY <1>1, Words
<1>2. RotateRight(w, x, y) = Or(w, right, left)
  BY <1>3, CountOfRotation DEF RotateRight
<1> HIDE DEF k
<1>4. /\ left \in Word(w)
      /\ \A i \in 0 .. w - 1 : Bit(left, i) = IF i < d THEN 0 ELSE Bit(x, i - d)
  BY <1>1, BitOfShiftLeft
<1>5. /\ right \in Word(w)
      /\ \A i \in 0 .. w - 1 : Bit(right, i) = IF i + k < w THEN Bit(x, i + k) ELSE 0
  BY <1>1, <1>3, BitOfShiftRight
<1> HIDE DEF left, right, d
<1>6. /\ Or(w, right, left) \in Word(w)
      /\ \A i \in 0 .. w - 1 :
           Bit(Or(w, right, left), i) = IF Bit(right, i) + Bit(left, i) = 0 THEN 0 ELSE 1
  BY <1>4, <1>5, BitOfOr
<1>7. \A i \in 0 .. w - 1 : Bit(Or(w, right, left), i) = Bit(x, (i + k) % w)
  <2> TAKE i \in 0 .. w - 1
  <2> DEFINE j == (i + k) % w
             m == i + k
  <2>1. j = IF i + k < w THEN i + k ELSE i + k - w
    <3>1. m \in Int /\ (i + k < w => m \in 0 .. w - 1) /\ (~(i + k < w) => m \in w .. 2 * w - 1)
      BY <1>1
    <3>2. /\ m \in 0 .. w - 1 => m % w = m
          /\ m \in w .. 2 * w - 1 => m % w = m - w
      <4> HIDE DEF m
      <4> QED
        BY <3>1, NearRemainder
    <3>3. j = m % w
      OBVIOUS
    <3> QED
      BY <1>1, <3>1, <3>2, <3>3
  <2> HIDE DEF j
  <2>2. j \in Nat /\ Bit(x, j) \in {0, 1}
    <3>1. j \in Nat
      BY <1>1, <2>1
    <3> QED
      BY <1>3, <3>1, BitIsBinary
  <2>3. Bit(left, i) = IF i < d THEN 0 ELSE Bit(x, i - d)
    BY <1>4
  <2>4. Bit(right, i) = IF i + k < w THEN Bit(x, i + k) ELSE 0
    BY <1>5
  <2>5. CASE k = 0
    <3>1. Bit(left, i) = Bit(x, j) /\ Bit(right, i) = Bit(x, j)
      BY <1>1, <1>3, <2>1, <2>3, <2>4, <2>5
    <3> QED
      BY <1>6, <2>2, <3>1 DEF j
  <2>6. CASE i + k < w /\ k # 0
    <3>1. Bit(left, i) = 0 /\ Bit(right, i) = Bit(x, j)
      BY <1>1, <1>3, <2>1, <2>3, <2>4, <2>6
    <3> QED
      BY <1>6, <2>2, <3>1 DEF j
  <2>7. CASE ~(i + k < w)
    <3>1. i - d = j
      BY <1>1, <1>3, <2>1, <2>7
    <3>2. Bit(left, i) = Bit(x, j) /\ Bit(right, i) = 0
      BY <1>1, <1>3, <2>2, <2>3, <2>4, <2>7, <3>1
    <3> QED
      BY <1>6, <2>2, <3>2 DEF j
  <2> QED
    BY <2>5, <2>6, <2>7
<1> QED
  BY <1>2, <1>6, <1>7 DEF k

-----------------------------------------------------------------------------
(***************************************************************************)
(* What an instruction gives is a number of its type.                      *)
(***************************************************************************)
LEMMA SomeBit ==
  ASSUME NEW w \in Nat, NEW x \in Word(w), x # 0
  PROVE  Bits(w, x) # {} /\ Bits(w, x) \subseteq 0 .. w - 1
<1>1. x \in Nat /\ 0 \in Word(w)
  BY Words, PowerOfNat DEF Word
<1>2. Bits(w, x) = {i \in 0 .. w - 1 : Bit(x, i) = 1}
  BY <1>1, BitsOf
<1>3. \E i \in 0 .. w - 1 : Bit(x, i) # Bit(0, i)
  BY <1>1, SameBits DEF Word
<1>4. \A i \in 0 .. w - 1 : Bit(x, i) \in {0, 1} /\ Bit(0, i) = 0
  BY <1>1, BitIsBinary, BitOfZero
<1> QED
  BY <1>2, <1>3, <1>4

LEMMA LastBit ==
  ASSUME NEW w \in Nat, NEW x \in Word(w), x # 0
  PROVE  LET i == CHOOSE i \in Bits(w, x) : \A j \in Bits(w, x) : j <= i IN
         i \in Bits(w, x) /\ \A j \in Bits(w, x) : j <= i
<1> DEFINE T == {n \in Nat : w - 1 - n \in Bits(w, x)}
<1>1. Bits(w, x) # {} /\ Bits(w, x) \subseteq 0 .. w - 1
  BY SomeBit
<1>2. T \in SUBSET Nat /\ T # {}
  <2>1. PICK i \in 0 .. w - 1 : i \in Bits(w, x)
    BY <1>1
  <2>2. w - 1 - i \in Nat /\ w - 1 - (w - 1 - i) = i
    OBVIOUS
  <2>3. w - 1 - i \in T
    BY <2>1, <2>2
  <2> QED
    BY <2>3
<1>3. PICK n \in T : \A k \in T : n <= k
  <2> HIDE DEF T
  <2> QED
    BY <1>2, Least
<1>4. \A j \in Bits(w, x) : j <= w - 1 - n
  <2> SUFFICES ASSUME NEW j \in Bits(w, x)
               PROVE  j <= w - 1 - n
    OBVIOUS
  <2>1. j \in 0 .. w - 1 /\ n \in Nat
    BY <1>1
  <2>2. w - 1 - j \in Nat /\ w - 1 - (w - 1 - j) = j
    BY <2>1
  <2>3. n <= w - 1 - j
    BY <1>3, <2>2
  <2> QED
    BY <2>1, <2>3
<1> QED
  BY <1>3, <1>4

LEMMA FirstBit ==
  ASSUME NEW w \in Nat, NEW x \in Word(w), x # 0
  PROVE  LET i == CHOOSE i \in Bits(w, x) : \A j \in Bits(w, x) : i <= j IN
         i \in Bits(w, x) /\ \A j \in Bits(w, x) : i <= j
<1>1. Bits(w, x) # {} /\ Bits(w, x) \in SUBSET Nat
  BY SomeBit
<1>2. \E i \in Bits(w, x) : \A j \in Bits(w, x) : i <= j
  BY <1>1, Least
<1> QED
  BY <1>2

LEMMA WidthInWord ==
  ASSUME NEW w \in Nat \ {0}
  PROVE  0 .. w \subseteq Word(w)
<1> DEFINE S == {n \in Nat : n < 2 ^ n}
<1>1. 0 \in S
  BY PowerOfNat
<1>2. \A n \in Nat : n \in S => n + 1 \in S
  <2> SUFFICES ASSUME NEW n \in Nat, n < 2 ^ n
               PROVE  n + 1 < 2 ^ (n + 1)
    OBVIOUS
  <2>1. 2 ^ n \in Nat \ {0} /\ 2 ^ (n + 1) = 2 * 2 ^ n
    BY PowerOfNat, PowerOfNext
  <2> QED
    BY <2>1
<1>3. w \in S
  <2> HIDE DEF S
  <2> QED
    BY <1>1, <1>2, Induct
<1>4. w < 2 ^ w /\ 2 ^ w \in Nat
  BY <1>3, PowerOfNat
<1> QED
  BY <1>4 DEF Word

LEMMA CombinedInWord ==
  ASSUME NEW w \in Nat \ {0}, NEW x, NEW y
  PROVE  Or(w, x, y) \in Word(w) /\ And(w, x, y) \in Word(w)
<1>1. Bits(w, x) \cup Bits(w, y) \in SUBSET (0 .. w - 1)
  BY DEF Bits
<1>2. Bits(w, x) \cap Bits(w, y) \in SUBSET (0 .. w - 1)
  BY DEF Bits
<1> QED
  BY <1>1, <1>2, NumberOfBits DEF Or, And, Word

LEMMA ComputedInWord ==
  ASSUME NEW t \in {"i32", "i64"}, NEW x \in Word(BITS[t]), NEW y \in Word(BITS[t]),
         NEW o \in Binary, IntegerTrap(o, t, x, y) = "none"
  PROVE  Computed(o, t, x, y) \in Word(BITS[t])
<1> DEFINE w == BITS[t]
<1>1. w \in Nat \ {0}
  BY BitsAssumption
<1>2. x \in Nat /\ y \in Nat /\ x \in Int /\ y \in Int
  BY <1>1, Words
<1>3. o \in Divisions => y # 0
  BY DEF IntegerTrap
<1> HIDE DEF w
<1>4. x \in Word(w) /\ y \in Word(w)
  BY DEF w
<1>5. Signed(w, x) \in Int /\ Signed(w, y) \in Int
  <2>1. 2 ^ w \in Int
    BY <1>1, PowerOfNat
  <2> QED
    BY <1>2, <2>1 DEF Signed
<1>6. \A v \in Int : Unsigned(w, v) \in Word(w)
  BY <1>1, Wraps
<1>7. CASE o \in {"add", "sub", "mul"}
  <2>1. x + y \in Int /\ x - y \in Int /\ x * y \in Int
    BY <1>2
  <2>2. /\ Unsigned(w, x + y) \in Word(w)
        /\ Unsigned(w, x - y) \in Word(w)
        /\ Unsigned(w, x * y) \in Word(w)
    BY <1>6, <2>1
  <2> QED
    BY <1>7, <2>2 DEF Computed, w
<1>8. CASE o \in {"div_s", "rem_s"}
  <2> DEFINE m == Signed(w, x)
             n == Signed(w, y)
  <2>1. n # 0
    <3>1. 2 ^ w \in Nat
      BY <1>1, PowerOfNat
    <3> QED
      BY <1>2, <1>3, <1>4, <1>8, <3>1 DEF Signed, Word, Divisions
  <2>2. Quotient(m, n) \in Int
    <3> HIDE DEF m, n
    <3>1. Magnitude(m) \in Nat /\ Magnitude(n) \in Nat \ {0}
      BY <1>5, <2>1 DEF Magnitude, m, n
    <3>2. Magnitude(m) \div Magnitude(n) \in Int
      BY <3>1, Division
    <3> QED
      BY <3>2 DEF Quotient
  <2>3. Remainder(m, n) \in Int
    BY <1>5, <2>2 DEF Remainder
  <2>4. 0 \in Word(w)
    BY <1>1, PowerOfNat DEF Word
  <2> QED
    BY <1>6, <1>8, <2>2, <2>3, <2>4 DEF Computed, w
<1>9. CASE o \in {"div_u", "rem_u"}
  <2>1. y \in Nat \ {0}
    BY <1>2, <1>3, <1>9 DEF Divisions
  <2>2. x \div y \in 0 .. x /\ x % y \in 0 .. y - 1
    BY <1>2, <2>1, Division, DivisionOfNat
  <2>3. 2 ^ w \in Nat
    BY <1>1, PowerOfNat
  <2>4. x \div y \in Word(w) /\ x % y \in Word(w)
    BY <1>2, <1>4, <2>1, <2>2, <2>3 DEF Word
  <2> QED
    BY <1>9, <2>4 DEF Computed, w
<1>10. CASE o \in {"and", "or", "rotl", "rotr"}
  <2>1. \A u, v : Or(w, u, v) \in Word(w) /\ And(w, u, v) \in Word(w)
    BY <1>1, CombinedInWord
  <2> QED
    BY <1>10, <2>1 DEF Computed, RotateLeft, RotateRight, w
<1>11. CASE o = "xor"
  <2>1. Xor(w, x, y) \in Word(w)
    BY <1>1, <1>4, BitOfXor
  <2> QED
    BY <1>11, <2>1 DEF Computed, w
<1>12. CASE o \in {"shl", "shr_s", "shr_u"}
  <2>1. /\ ShiftLeft(w, x, y) \in Word(w)
        /\ ShiftRight(w, x, y) \in Word(w)
        /\ ShiftRightSigned(w, x, y) \in Word(w)
    BY <1>1, <1>2, <1>4, BitOfShiftLeft, BitOfShiftRight, BitOfShiftRightSigned
  <2> QED
    BY <1>12, <2>1 DEF Computed, w
<1> QED
  BY <1>7, <1>8, <1>9, <1>10, <1>11, <1>12 DEF Binary, Divisions, w

LEMMA CountedInWord ==
  ASSUME NEW t \in {"i32", "i64"}, NEW x \in Word(BITS[t]), NEW o \in Counts
  PROVE  Counted(o, t, x) \in 0 .. BITS[t] /\ Counted(o, t, x) \in Word(BITS[t])
<1> DEFINE w == BITS[t]
<1>1. w \in Nat \ {0}
  BY BitsAssumption
<1>2. CASE o = "popcnt"
  <2>1. Bits(w, x) \subseteq 0 .. w - 1
    BY DEF Bits
  <2>2. Counted(o, t, x) = Cardinality(Bits(w, x))
    BY <1>2 DEF Counted
  <2>3. IsFiniteSet(0 .. w - 1) /\ Cardinality(0 .. w - 1) = w
    <3> HIDE DEF w
    <3>1. w - 1 \in Int /\ ~(0 > w - 1) /\ w - 1 - 0 + 1 = w
      BY <1>1
    <3> QED
      BY <3>1, FS_Interval
  <2>4. /\ IsFiniteSet(Bits(w, x)) /\ Cardinality(Bits(w, x)) <= Cardinality(0 .. w - 1)
        /\ Cardinality(Bits(w, x)) \in Nat
    BY <2>1, <2>3, FS_Subset, FS_CardinalityType
  <2>5. Counted(o, t, x) \in 0 .. w
    BY <1>1, <2>2, <2>3, <2>4
  <2> QED
    BY <1>1, <2>5, WidthInWord
<1>3. CASE o # "popcnt" /\ x = 0
  <2>1. Counted(o, t, x) = w
    BY <1>3 DEF Counted
  <2>2. Counted(o, t, x) \in 0 .. w
    BY <1>1, <2>1
  <2> QED
    BY <1>1, <2>2, WidthInWord
<1>4. CASE o = "clz" /\ x # 0
  <2> DEFINE i == CHOOSE i \in Bits(w, x) : \A j \in Bits(w, x) : j <= i
  <2>1. Counted(o, t, x) = w - 1 - i
    BY <1>4 DEF Counted
  <2>2. i \in Bits(w, x) /\ Bits(w, x) \subseteq 0 .. w - 1
    BY <1>1, <1>4, LastBit, SomeBit
  <2> HIDE DEF i
  <2>3. Counted(o, t, x) \in 0 .. w
    BY <1>1, <2>1, <2>2
  <2> QED
    BY <1>1, <2>3, WidthInWord
<1>5. CASE o = "ctz" /\ x # 0
  <2> DEFINE i == CHOOSE i \in Bits(w, x) : \A j \in Bits(w, x) : i <= j
  <2>1. Counted(o, t, x) = i
    BY <1>5 DEF Counted
  <2>2. i \in Bits(w, x) /\ Bits(w, x) \subseteq 0 .. w - 1
    BY <1>1, <1>5, FirstBit, SomeBit
  <2> HIDE DEF i
  <2>3. Counted(o, t, x) \in 0 .. w
    BY <1>1, <2>1, <2>2
  <2> QED
    BY <1>1, <2>3, WidthInWord
<1> QED
  BY <1>2, <1>3, <1>4, <1>5 DEF Counts

LEMMA ExtendedInWord ==
  ASSUME NEW n \in Nat \ {0}, NEW w \in Nat \ {0}, NEW x \in Int
  PROVE  SignExtended(n, w, x) \in Word(w)
<1>1. Unsigned(n, x) \in Int /\ 2 ^ n \in Int
  BY Wraps, Words, PowerOfNat
<1>2. Signed(n, Unsigned(n, x)) \in Int
  BY <1>1 DEF Signed
<1> QED
  BY <1>2, Wraps DEF SignExtended

=============================================================================
