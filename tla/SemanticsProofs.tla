---------------------------- MODULE SemanticsProofs ----------------------------
(***************************************************************************)
(* For every width of the integers, every format of the floats and all     *)
(* operands: what wasmc computes, with the operators of C on unsigned      *)
(* numbers and the bounds of utils.h, is what WebAssembly defines over bits, *)
(* integers and numbers of a format.  The invariants say only that operands *)
(* are of their type; the work is in the lemmas about one instruction.     *)
(***************************************************************************)
EXTENDS FloatSemantics, NumbersProofs

-----------------------------------------------------------------------------
(***************************************************************************)
(* Two's complement.  Of the numbers with these digits one is in range.    *)
(***************************************************************************)
LEMMA SignedIsChosen ==
  ASSUME NEW w \in Nat \ {0}, NEW x \in Word(w)
  PROVE  /\ Signed(w, x) \in -(2 ^ (w - 1)) .. 2 ^ (w - 1) - 1
         /\ Signed(w, x) = x \/ Signed(w, x) = x - 2 ^ w
         /\ Int2(w, x) = Signed(w, x)
<1> DEFINE h == 2 ^ (w - 1)
           m == 2 ^ w
           s == Signed(w, x)
           R == -h .. h - 1
<1>1. h \in Nat \ {0} /\ m = 2 * h /\ x \in 0 .. m - 1
  BY HalfAWord DEF Word
<1>2. s = IF x < h THEN x ELSE x - m
  BY DEF Signed
<1>3. Int2(w, x) = CHOOSE n \in R : (n - x) % m = 0
  BY DEF Int2
<1> HIDE DEF h, m, s
<1>4. s \in R /\ (s = x \/ s = x - m)
  BY <1>1, <1>2
<1>5. (s - x) % m = 0
  <2>1. s - x = m * (IF s = x THEN 0 ELSE -1) + 0
    BY <1>1, <1>4
  <2> QED
    BY <1>1, <2>1, DivisionIsUnique
<1>6. \A n \in R : (n - x) % m = 0 => n = s
  <2> SUFFICES ASSUME NEW n \in R, (n - x) % m = 0 PROVE n = s
    OBVIOUS
  <2> DEFINE q == (n - x) \div m
  <2>1. q \in Int /\ n - x = m * q + 0
    <3>1. n - x \in Int
      BY <1>1
    <3>2. q \in Int /\ n - x = m * q + ((n - x) % m)
      <4>1. m \in Nat \ {0}
        BY <1>1
      <4> QED
        BY <3>1, <4>1, Division, Zenon
    <3> QED
      BY <3>2
  <2> HIDE DEF q
  <2>2. n - x < m /\ n - x > -(2 * m)
    BY <1>1
  <2>3. q = 0 \/ q = -1
    <3>1. q < 1
      <4>1. q >= 1 => m * q >= m
        BY <1>1, <2>1
      <4> QED
        BY <1>1, <2>1, <2>2, <4>1
    <3>2. q > -2
      <4>1. q <= -2 => m * q <= -(2 * m)
        BY <1>1, <2>1
      <4> QED
        BY <1>1, <2>1, <2>2, <4>1
    <3> QED
      BY <2>1, <3>1, <3>2
  <2>4. n = x \/ n = x - m
    BY <1>1, <2>1, <2>3
  <2> QED
    BY <1>1, <1>2, <2>4
<1>7. Int2(w, x) = s
  BY <1>3, <1>4, <1>5, <1>6
<1> QED
  BY <1>4, <1>7 DEF h, m, s

-----------------------------------------------------------------------------
(***************************************************************************)
(* Binary instructions.                                                    *)
(***************************************************************************)
LEMMA AndAgrees ==
  ASSUME NEW w \in Nat \ {0}, NEW x \in Word(w), NEW y \in Word(w)
  PROVE  DefinedBinary("and", w, x, y) = And(w, x, y)
<1> DEFINE r == And(w, x, y)
<1>1. r \in Word(w) /\ \A i \in 0 .. w - 1 : Bit(r, i) = Bit(x, i) * Bit(y, i)
  BY BitOfAnd
<1>2. DefinedBinary("and", w, x, y) =
        CHOOSE v \in Word(w) : \A i \in 0 .. w - 1 : Bit(v, i) = Bit(x, i) * Bit(y, i)
  BY DEF DefinedBinary, OfBits, Word
<1> HIDE DEF r
<1>3. \A v \in Word(w) : (\A i \in 0 .. w - 1 : Bit(v, i) = Bit(x, i) * Bit(y, i)) => v = r
  BY <1>1, SameBits DEF Word
<1>4. DefinedBinary("and", w, x, y) = r
  BY <1>1, <1>2, <1>3
<1> QED
  BY <1>4 DEF r

LEMMA OrAgrees ==
  ASSUME NEW w \in Nat \ {0}, NEW x \in Word(w), NEW y \in Word(w)
  PROVE  DefinedBinary("or", w, x, y) = Or(w, x, y)
<1> DEFINE r == Or(w, x, y)
           Is(v) == \A i \in 0 .. w - 1 : Bit(v, i) = IF Bit(x, i) + Bit(y, i) = 0 THEN 0 ELSE 1
<1>1. r \in Word(w) /\ Is(r)
  BY BitOfOr
<1>2. DefinedBinary("or", w, x, y) = CHOOSE v \in Word(w) : Is(v)
  BY DEF DefinedBinary, OfBits, Word
<1> HIDE DEF r
<1>3. \A v \in Word(w) : Is(v) => v = r
  BY <1>1, SameBits DEF Word
<1> HIDE DEF Is
<1> QED
  BY <1>1, <1>2, <1>3 DEF r

LEMMA XorAgrees ==
  ASSUME NEW w \in Nat \ {0}, NEW x \in Word(w), NEW y \in Word(w)
  PROVE  DefinedBinary("xor", w, x, y) = Xor(w, x, y)
<1> DEFINE r == Xor(w, x, y)
           Is(v) == \A i \in 0 .. w - 1 : Bit(v, i) = (Bit(x, i) + Bit(y, i)) % 2
<1>1. r \in Word(w) /\ Is(r)
  BY BitOfXor
<1>2. DefinedBinary("xor", w, x, y) = CHOOSE v \in Word(w) : Is(v)
  BY DEF DefinedBinary, OfBits, Word
<1> HIDE DEF r
<1>3. \A v \in Word(w) : Is(v) => v = r
  BY <1>1, SameBits DEF Word
<1> HIDE DEF Is
<1> QED
  BY <1>1, <1>2, <1>3 DEF r

LEMMA ShlAgrees ==
  ASSUME NEW w \in Nat \ {0}, NEW x \in Word(w), NEW y \in Word(w)
  PROVE  DefinedBinary("shl", w, x, y) = ShiftLeft(w, x, y)
<1> DEFINE k == y % w
           r == ShiftLeft(w, x, y)
           Is(v) == \A i \in 0 .. w - 1 : Bit(v, i) = IF i < k THEN 0 ELSE Bit(x, i - k)
<1>1. y \in Int /\ k \in 0 .. w - 1
  <2>1. y \in Int
    BY Words
  <2> QED
    BY <2>1, Division
<1>2. r \in Word(w) /\ Is(r)
  BY <1>1, BitOfShiftLeft, Zenon
<1>3. DefinedBinary("shl", w, x, y) = CHOOSE v \in Word(w) : Is(v)
  BY DEF DefinedBinary, OfBits, Word
<1> HIDE DEF r, k
<1>4. \A v \in Word(w) : Is(v) => v = r
  <2> SUFFICES ASSUME NEW v \in Word(w), Is(v)
               PROVE  v = r
    OBVIOUS
  <2>1. \A i \in 0 .. w - 1 : Bit(v, i) = Bit(r, i)
    BY <1>2, Zenon
  <2> HIDE DEF Is
  <2> QED
    BY <1>2, <2>1, SameBits DEF Word
<1> HIDE DEF Is
<1> QED
  BY <1>2, <1>3, <1>4 DEF r

LEMMA ShrUAgrees ==
  ASSUME NEW w \in Nat \ {0}, NEW x \in Word(w), NEW y \in Word(w)
  PROVE  DefinedBinary("shr_u", w, x, y) = ShiftRight(w, x, y)
<1> DEFINE k == y % w
           r == ShiftRight(w, x, y)
           Is(v) == \A i \in 0 .. w - 1 : Bit(v, i) = IF i + k < w THEN Bit(x, i + k) ELSE 0
<1>1. y \in Int /\ k \in 0 .. w - 1
  <2>1. y \in Int
    BY Words
  <2> QED
    BY <2>1, Division
<1>2. r \in Word(w) /\ Is(r)
  BY <1>1, BitOfShiftRight, Zenon
<1>3. DefinedBinary("shr_u", w, x, y) = CHOOSE v \in Word(w) : Is(v)
  BY DEF DefinedBinary, OfBits, Word
<1> HIDE DEF r, k
<1>4. \A v \in Word(w) : Is(v) => v = r
  <2> SUFFICES ASSUME NEW v \in Word(w), Is(v)
               PROVE  v = r
    OBVIOUS
  <2>1. \A i \in 0 .. w - 1 : Bit(v, i) = Bit(r, i)
    BY <1>2, Zenon
  <2> HIDE DEF Is
  <2> QED
    BY <1>2, <2>1, SameBits DEF Word
<1> HIDE DEF Is
<1> QED
  BY <1>2, <1>3, <1>4 DEF r

LEMMA ShrSAgrees ==
  ASSUME NEW w \in Nat \ {0}, NEW x \in Word(w), NEW y \in Word(w)
  PROVE  DefinedBinary("shr_s", w, x, y) = ShiftRightSigned(w, x, y)
<1> DEFINE k == y % w
           r == ShiftRightSigned(w, x, y)
           Is(v) == \A i \in 0 .. w - 1 : Bit(v, i) = IF i + k < w THEN Bit(x, i + k) ELSE Bit(x, w - 1)
<1>1. y \in Int /\ k \in 0 .. w - 1
  <2>1. y \in Int
    BY Words
  <2> QED
    BY <2>1, Division
<1>2. r \in Word(w) /\ Is(r)
  BY <1>1, BitOfShiftRightSigned, Zenon
<1>3. DefinedBinary("shr_s", w, x, y) = CHOOSE v \in Word(w) : Is(v)
  BY DEF DefinedBinary, OfBits, Word
<1> HIDE DEF r, k
<1>4. \A v \in Word(w) : Is(v) => v = r
  <2> SUFFICES ASSUME NEW v \in Word(w), Is(v)
               PROVE  v = r
    OBVIOUS
  <2>1. \A i \in 0 .. w - 1 : Bit(v, i) = Bit(r, i)
    BY <1>2, Zenon
  <2> HIDE DEF Is
  <2> QED
    BY <1>2, <2>1, SameBits DEF Word
<1> HIDE DEF Is
<1> QED
  BY <1>2, <1>3, <1>4 DEF r

LEMMA RotlAgrees ==
  ASSUME NEW w \in Nat \ {0}, 2 ^ BITS["i32"] % w = 0, NEW x \in Word(w), NEW y \in Word(w)
  PROVE  DefinedBinary("rotl", w, x, y) = RotateLeft(w, x, y)
<1> DEFINE r == RotateLeft(w, x, y)
           Is(v) == \A i \in 0 .. w - 1 : Bit(v, i) = Bit(x, (i - (y % w)) % w)
<1>1. r \in Word(w) /\ Is(r)
  BY BitOfRotateLeft
<1>2. DefinedBinary("rotl", w, x, y) = CHOOSE v \in Word(w) : Is(v)
  BY DEF DefinedBinary, OfBits, Word
<1> HIDE DEF r
<1>3. \A v \in Word(w) : Is(v) => v = r
  BY <1>1, SameBits DEF Word
<1> HIDE DEF Is
<1> QED
  BY <1>1, <1>2, <1>3 DEF r

LEMMA RotrAgrees ==
  ASSUME NEW w \in Nat \ {0}, 2 ^ BITS["i32"] % w = 0, NEW x \in Word(w), NEW y \in Word(w)
  PROVE  DefinedBinary("rotr", w, x, y) = RotateRight(w, x, y)
<1> DEFINE r == RotateRight(w, x, y)
           Is(v) == \A i \in 0 .. w - 1 : Bit(v, i) = Bit(x, (i + (y % w)) % w)
<1>1. r \in Word(w) /\ Is(r)
  BY BitOfRotateRight
<1>2. DefinedBinary("rotr", w, x, y) = CHOOSE v \in Word(w) : Is(v)
  BY DEF DefinedBinary, OfBits, Word
<1> HIDE DEF r
<1>3. \A v \in Word(w) : Is(v) => v = r
  BY <1>1, SameBits DEF Word
<1> HIDE DEF Is
<1> QED
  BY <1>1, <1>2, <1>3 DEF r

LEMMA SubAgrees ==
  ASSUME NEW w \in Nat \ {0}, NEW x \in Word(w), NEW y \in Word(w)
  PROVE  DefinedBinary("sub", w, x, y) = Unsigned(w, x - y)
<1> DEFINE m == 2 ^ w
           s == x - y
           r == s % m
           q == s \div m
           Is(v) == (v + y) % m = x
<1>1. m \in Nat \ {0} /\ x \in 0 .. m - 1 /\ y \in 0 .. m - 1 /\ s \in Int
  BY PowerOfNat DEF Word
<1>2. DefinedBinary("sub", w, x, y) = CHOOSE v \in 0 .. m - 1 : Is(v)
  BY DEF DefinedBinary
<1>3. Unsigned(w, x - y) = r
  BY DEF Unsigned
<1> HIDE DEF m
<1>4. q \in Int /\ r \in 0 .. m - 1 /\ s = m * q + r
  <2> HIDE DEF s
  <2> QED
    BY <1>1, Division
<1> HIDE DEF r, q
<1>5. Is(r)
  <2> DEFINE k == -q
  <2>1. k \in Int /\ x \in Int /\ r + y = x + m * k
    BY <1>1, <1>4
  <2> HIDE DEF k, Is
  <2>2. (x + m * k) % m = x % m
    BY <1>1, <2>1, DivisionOfSum, Zenon
  <2>3. x % m = x
    BY <1>1, <2>1, NearRemainder, Zenon
  <2> QED
    BY <2>1, <2>2, <2>3 DEF Is
<1>6. \A v \in 0 .. m - 1 : Is(v) => v = r
  <2> SUFFICES ASSUME NEW v \in 0 .. m - 1, Is(v)
               PROVE  v = r
    OBVIOUS
  <2> DEFINE u == v + y
             c == u \div m
  <2>1. u \in Int
    BY <1>1
  <2>2. c \in Int /\ u = m * c + (u % m)
    <3> HIDE DEF u
    <3> QED
      BY <1>1, <2>1, Division
  <2>3. u % m = x
    OBVIOUS
  <2> HIDE DEF c
  <2>4. -c \in Int /\ s = m * (-c) + v
    <3>1. u = m * c + x
      BY <2>2, <2>3
    <3> QED
      BY <1>1, <2>2, <3>1
  <2> HIDE DEF s
  <2> QED
    BY <1>1, <2>4, DivisionIsUnique DEF r
<1> HIDE DEF Is
<1> QED
  BY <1>2, <1>3, <1>4, <1>5, <1>6

(* Everything but the divisions: no such instruction traps.                *)
LEMMA BinaryAgrees ==
  ASSUME NEW t \in Types, 2 ^ BITS["i32"] % BITS[t] = 0,
         NEW x \in Word(BITS[t]), NEW y \in Word(BITS[t]), NEW o \in Binary \ Divisions
  PROVE  /\ IntegerTrap(o, t, x, y) = "none"
         /\ ~DivisionFaults(o, t, x, y)
         /\ Computed(o, t, x, y) = DefinedBinary(o, BITS[t], x, y)
<1> DEFINE w == BITS[t]
<1>1. w \in Nat \ {0}
  BY BitsAssumption DEF Types
<1>2. IntegerTrap(o, t, x, y) = "none" /\ ~DivisionFaults(o, t, x, y)
  BY DEF IntegerTrap, DivisionFaults, Divisions
<1> HIDE DEF w
<1>3. x \in Word(w) /\ y \in Word(w) /\ 2 ^ BITS["i32"] % w = 0
  BY DEF w
<1>4. CASE o = "add"
  <2>1. DefinedBinary("add", w, x, y) = Unsigned(w, x + y)
    BY DEF DefinedBinary, Unsigned
  <2> QED
    BY <1>2, <1>4, <2>1 DEF Computed, w
<1>5. CASE o = "sub"
  <2>1. DefinedBinary("sub", w, x, y) = Unsigned(w, x - y)
    BY <1>1, <1>3, SubAgrees
  <2> QED
    BY <1>2, <1>5, <2>1 DEF Computed, w
<1>6. CASE o = "mul"
  <2>1. DefinedBinary("mul", w, x, y) = Unsigned(w, x * y)
    BY DEF DefinedBinary, Unsigned
  <2> QED
    BY <1>2, <1>6, <2>1 DEF Computed, w
<1>7. CASE o = "and"
  <2>1. DefinedBinary("and", w, x, y) = And(w, x, y)
    BY <1>1, <1>3, AndAgrees
  <2> QED
    BY <1>2, <1>7, <2>1 DEF Computed, w
<1>8. CASE o = "or"
  <2>1. DefinedBinary("or", w, x, y) = Or(w, x, y)
    BY <1>1, <1>3, OrAgrees
  <2> QED
    BY <1>2, <1>8, <2>1 DEF Computed, w
<1>9. CASE o = "xor"
  <2>1. DefinedBinary("xor", w, x, y) = Xor(w, x, y)
    BY <1>1, <1>3, XorAgrees
  <2> QED
    BY <1>2, <1>9, <2>1 DEF Computed, w
<1>10. CASE o = "shl"
  <2>1. DefinedBinary("shl", w, x, y) = ShiftLeft(w, x, y)
    BY <1>1, <1>3, ShlAgrees
  <2> QED
    BY <1>2, <1>10, <2>1 DEF Computed, w
<1>11. CASE o = "shr_s"
  <2>1. DefinedBinary("shr_s", w, x, y) = ShiftRightSigned(w, x, y)
    BY <1>1, <1>3, ShrSAgrees
  <2> QED
    BY <1>2, <1>11, <2>1 DEF Computed, w
<1>12. CASE o = "shr_u"
  <2>1. DefinedBinary("shr_u", w, x, y) = ShiftRight(w, x, y)
    BY <1>1, <1>3, ShrUAgrees
  <2> QED
    BY <1>2, <1>12, <2>1 DEF Computed, w
<1>13. CASE o = "rotl"
  <2>1. DefinedBinary("rotl", w, x, y) = RotateLeft(w, x, y)
    BY <1>1, <1>3, RotlAgrees
  <2> QED
    BY <1>2, <1>13, <2>1 DEF Computed, w
<1>14. CASE o = "rotr"
  <2>1. DefinedBinary("rotr", w, x, y) = RotateRight(w, x, y)
    BY <1>1, <1>3, RotrAgrees
  <2> QED
    BY <1>2, <1>14, <2>1 DEF Computed, w
<1> QED
  BY <1>4, <1>5, <1>6, <1>7, <1>8, <1>9, <1>10, <1>11, <1>12, <1>13, <1>14 DEF Binary, Divisions

-----------------------------------------------------------------------------
(***************************************************************************)
(* Divisions.  The quotient of C is the nearest number on the way to zero. *)
(***************************************************************************)
LEMMA MagnitudeOfProduct ==
  ASSUME NEW m \in Int, NEW n \in Int
  PROVE  Magnitude(m * n) = Magnitude(m) * Magnitude(n) /\ Magnitude(m) \in Nat
<1>1. CASE m >= 0 /\ n >= 0
  <2>1. m * n >= 0
    BY <1>1
  <2> QED
    BY <1>1, <2>1 DEF Magnitude
<1>2. CASE m < 0 /\ n < 0
  <2>1. m * n >= 0 /\ m * n = (-m) * (-n)
    BY <1>2
  <2> QED
    BY <1>2, <2>1 DEF Magnitude
<1>3. CASE m < 0 /\ n >= 0
  <2>1. m * n <= 0 /\ -(m * n) = (-m) * n
    BY <1>3
  <2> QED
    BY <1>3, <2>1 DEF Magnitude
<1>4. CASE m >= 0 /\ n < 0
  <2>1. m * n <= 0 /\ -(m * n) = m * (-n)
    BY <1>4
  <2> QED
    BY <1>4, <2>1 DEF Magnitude
<1> QED
  BY <1>1, <1>2, <1>3, <1>4

LEMMA QuotientOf ==
  ASSUME NEW m \in Int, NEW n \in Int \ {0}
  PROVE  LET c == Magnitude(m) \div Magnitude(n) IN
         /\ Magnitude(m) \in Nat /\ Magnitude(n) \in Nat \ {0}
         /\ c \in 0 .. Magnitude(m)
         /\ Magnitude(n) * c <= Magnitude(m) /\ Magnitude(m) < Magnitude(n) * c + Magnitude(n)
         /\ Quotient(m, n) = IF (m < 0) = (n < 0) THEN c ELSE -c
         /\ Quotient(m, n) \in Int /\ Magnitude(Quotient(m, n)) = c
<1> DEFINE u == Magnitude(m)
           d == Magnitude(n)
           c == u \div d
<1>1. u \in Nat /\ d \in Nat \ {0}
  BY DEF Magnitude
<1>2. Quotient(m, n) = IF (m < 0) = (n < 0) THEN c ELSE -c
  BY DEF Quotient
<1> HIDE DEF u, d
<1>3. c \in 0 .. u
  BY <1>1, DivisionOfNat
<1>4. u \in Int /\ u % d \in 0 .. d - 1 /\ u = d * c + (u % d)
  BY <1>1, Division
<1> HIDE DEF c
<1>5. d * c <= u /\ u < d * c + d
  <2> DEFINE r == u % d
  <2>1. r \in 0 .. d - 1 /\ u = d * c + r
    BY <1>4
  <2> HIDE DEF r
  <2> QED
    BY <1>1, <1>3, <2>1
<1>6. Quotient(m, n) \in Int /\ Magnitude(Quotient(m, n)) = c
  BY <1>1, <1>2, <1>3 DEF Magnitude
<1> QED
  BY <1>1, <1>2, <1>3, <1>5, <1>6 DEF u, d, c

LEMMA NearestIsQuotient ==
  ASSUME NEW m \in Int, NEW n \in Int \ {0}
  PROVE  Nearest(m, n) = Quotient(m, n)
<1> DEFINE u == Magnitude(m)
           d == Magnitude(n)
           c == u \div d
           r == Quotient(m, n)
           Is(q) == /\ Magnitude(q * n) <= u
                    /\ (q = 0 \/ ((q > 0) <=> ((m > 0) <=> (n > 0))))
                    /\ u - Magnitude(q * n) < d
<1>1. /\ u \in Nat /\ d \in Nat \ {0} /\ c \in 0 .. u
      /\ d * c <= u /\ u < d * c + d
      /\ r = IF (m < 0) = (n < 0) THEN c ELSE -c
      /\ r \in Int /\ Magnitude(r) = c
  BY QuotientOf
<1>2. Nearest(m, n) = CHOOSE q \in -u .. u : Is(q)
  BY DEF Nearest
<1>3. u = 0 => m = 0
  BY DEF Magnitude
<1> HIDE DEF u, c, r
<1>4. r \in -u .. u
  BY <1>1
<1>5. Is(r)
  <2>1. Magnitude(r * n) = d * c
    <3>1. Magnitude(r * n) = Magnitude(r) * Magnitude(n)
      BY <1>1, MagnitudeOfProduct
    <3> HIDE DEF d
    <3> QED
      BY <1>1, <3>1 DEF d
  <2>2. r = 0 \/ ((r > 0) <=> ((m > 0) <=> (n > 0)))
    <3>1. CASE m = 0
      <4>1. c = 0
        <5>1. u = 0
          BY <3>1 DEF u, Magnitude
        <5> QED
          BY <1>1, <5>1
      <4>2. r = 0
        BY <1>1, <4>1 DEF Magnitude
      <4> QED
        BY <4>2
    <3>2. CASE m # 0
      <4> HIDE DEF d
      <4> QED
        BY <1>1, <3>2
    <3> QED
      BY <3>1, <3>2
  <2> HIDE DEF d
  <2>3. d * c \in Int /\ u - d * c < d
    BY <1>1
  <2> QED
    BY <1>1, <2>1, <2>2, <2>3
<1>6. \A q \in -u .. u : Is(q) => q = r
  <2> SUFFICES ASSUME NEW q \in -u .. u, Is(q)
               PROVE  q = r
    OBVIOUS
  <2> DEFINE p == Magnitude(q)
  <2>1. q \in Int /\ Magnitude(q * n) = p * d /\ p \in Nat
    <3>1. q \in Int
      BY <1>1
    <3> QED
      BY <3>1, MagnitudeOfProduct, Zenon
  <2>2. p * d <= u /\ u - p * d < d
    BY <2>1
  <2>3. q = p \/ q = -p
    BY <2>1 DEF Magnitude
  <2>4. p # 0 => ((q = p) <=> (q > 0))
    BY <2>1 DEF Magnitude
  <2>5. q = 0 \/ ((q > 0) <=> ((m > 0) <=> (n > 0)))
    OBVIOUS
  <2> HIDE DEF p, d, Is
  <2>6. p = c
    <3>1. p * d \in Int /\ u \in Int /\ u = d * p + (u - p * d) /\ u - p * d \in 0 .. d - 1
      BY <1>1, <2>1, <2>2
    <3> QED
      BY <1>1, <2>1, <3>1, DivisionIsUnique DEF c
  <2>7. m = 0 => c = 0
    <3>1. m = 0 => u = 0
      BY DEF u, Magnitude
    <3> QED
      BY <1>1, <3>1
  <2> QED
    BY <1>1, <2>1, <2>3, <2>4, <2>5, <2>6, <2>7
<1> HIDE DEF Is
<1> QED
  BY <1>2, <1>4, <1>5, <1>6 DEF r

LEMMA SignedNumbers ==
  ASSUME NEW w \in Nat \ {0}, NEW x \in Word(w)
  PROVE  /\ Signed(w, x) = 0 <=> x = 0
         /\ Signed(w, x) + 2 ^ (w - 1) = 0 <=> x = 2 ^ (w - 1)
         /\ Signed(w, x) + 1 = 0 <=> x = MinusOne(w)
<1> DEFINE h == 2 ^ (w - 1)
<1>1. h \in Nat \ {0} /\ 2 ^ w = 2 * h
  BY HalfAWord
<1>2. x \in 0 .. 2 * h - 1 /\ MinusOne(w) = 2 * h - 1
  BY <1>1 DEF Word, MinusOne
<1>3. Signed(w, x) = IF x < h THEN x ELSE x - 2 * h
  BY <1>1 DEF Signed
<1> HIDE DEF h
<1>4. /\ Signed(w, x) = 0 <=> x = 0
      /\ Signed(w, x) + h = 0 <=> x = h
      /\ Signed(w, x) + 1 = 0 <=> x = 2 * h - 1
  BY <1>1, <1>2, <1>3
<1> QED
  BY <1>2, <1>4 DEF h

(* The only quotient out of range is that of the least number by -1.       *)
LEMMA OnlyOverflow ==
  ASSUME NEW h \in Nat \ {0}, NEW m \in -h .. h - 1, NEW n \in -h .. h - 1, n # 0
  PROVE  /\ Quotient(m, n) = h <=> m + h = 0 /\ n + 1 = 0
         /\ Quotient(m, n) \in -h .. h
<1> DEFINE u == Magnitude(m)
           d == Magnitude(n)
           c == u \div d
<1>1. m \in Int /\ n \in Int \ {0}
  OBVIOUS
<1>2. /\ u \in Nat /\ d \in Nat \ {0} /\ c \in 0 .. u
      /\ d * c <= u /\ u < d * c + d
      /\ Quotient(m, n) = IF (m < 0) = (n < 0) THEN c ELSE -c
  BY <1>1, QuotientOf
<1>3. u <= h /\ (u = h <=> m + h = 0) /\ (m < 0 => u = -m) /\ (m >= 0 => u = m)
  BY DEF Magnitude
<1>4. (d = 1 /\ n < 0 <=> n + 1 = 0)
  BY DEF Magnitude
<1> HIDE DEF u, d, c
<1>5. c = h => u = h /\ d = 1
  <2> SUFFICES ASSUME c = h, d # 1
               PROVE  FALSE
    BY <1>2, <1>3
  <2>1. d >= 2 /\ d * h <= h
    BY <1>2, <1>3
  <2>2. d * h >= 2 * h
    BY <1>2, <2>1
  <2> QED
    BY <1>2, <2>1, <2>2
<1>6. u = h /\ d = 1 => c = h
  <2> SUFFICES ASSUME u = h, d = 1
               PROVE  c = h
    OBVIOUS
  <2>1. d * c = c
    BY <1>2
  <2> QED
    BY <1>2, <2>1
<1>7. c \in 0 .. h
  BY <1>2, <1>3
<1>8. Quotient(m, n) = h <=> m + h = 0 /\ n + 1 = 0
  <2>1. ASSUME Quotient(m, n) = h PROVE m + h = 0 /\ n + 1 = 0
    <3>1. c = h /\ (m < 0) = (n < 0)
      BY <1>2, <1>7, <2>1
    <3>2. u = h /\ d = 1
      BY <1>5, <3>1
    <3>3. m + h = 0 /\ m < 0
      BY <1>1, <1>3, <3>2
    <3> QED
      BY <1>4, <3>1, <3>2, <3>3
  <2>2. ASSUME m + h = 0, n + 1 = 0 PROVE Quotient(m, n) = h
    <3>1. c = h
      BY <1>3, <1>4, <1>6, <2>2
    <3>2. m < 0 /\ n < 0
      BY <2>2
    <3> QED
      BY <1>2, <3>1, <3>2
  <2> QED
    BY <2>1, <2>2
<1>9. Quotient(m, n) \in -h .. h
  BY <1>2, <1>7
<1> QED
  BY <1>8, <1>9

LEMMA UnsignedQuotient ==
  ASSUME NEW w \in Nat \ {0}, NEW x \in Word(w), NEW y \in Word(w), y # 0
  PROVE  /\ Nearest(x, y) = x \div y
         /\ (x \div y) % 2 ^ w = x \div y
         /\ (x - y * (x \div y)) % 2 ^ w = x % y
         /\ x \div y \in Word(w) /\ x % y \in Word(w)
<1> DEFINE m == 2 ^ w
           c == x \div y
           r == x % y
<1>1. m \in Nat \ {0} /\ x \in 0 .. m - 1 /\ y \in 0 .. m - 1 /\ x \in Int /\ y \in Int \ {0}
  BY PowerOfNat DEF Word
<1>2. x \in Nat /\ y \in Nat \ {0} /\ Magnitude(x) = x /\ Magnitude(y) = y /\ (x < 0) = (y < 0)
  BY <1>1 DEF Magnitude
<1>3. Quotient(x, y) = c
  <2>1. Quotient(x, y) = IF (x < 0) = (y < 0) THEN c ELSE -c
    BY <1>2 DEF Quotient
  <2> QED
    BY <1>2, <2>1
<1>4. Nearest(x, y) = c
  BY <1>1, <1>3, NearestIsQuotient
<1>5. c \in 0 .. x
  BY <1>2, DivisionOfNat
<1>6. r \in 0 .. y - 1 /\ x = y * c + r
  BY <1>1, <1>2, Division
<1> HIDE DEF m, c, r
<1>7. c \in 0 .. m - 1 /\ r \in 0 .. m - 1 /\ c \in Int /\ r \in Int /\ x - y * c = r
  BY <1>1, <1>2, <1>5, <1>6
<1>8. c % m = c
  BY <1>1, <1>7, NearRemainder, Zenon
<1>9. r % m = r
  BY <1>1, <1>7, NearRemainder, Zenon
<1> QED
  BY <1>4, <1>7, <1>8, <1>9 DEF m, c, r, Word

(* What the divisions should give, and where the code differs from it.     *)
Outcome(o, t, x, y) ==
  IF IntegerTrap(o, t, x, y) # "none" THEN Trapped(IntegerTrap(o, t, x, y))
  ELSE Value(Computed(o, t, x, y))

Misjudged(o, t, x, y) ==
  /\ t = "i64" /\ o \in {"div_s", "rem_s"}
  /\ y = MinusOne(BITS["i64"])
  /\ x \in {2 ^ (BITS["i32"] - 1), 2 ^ (BITS["i64"] - 1)}

LEMMA DivisionsAgree ==
  ASSUME NEW t \in Types, NEW x \in Word(BITS[t]), NEW y \in Word(BITS[t]),
         NEW o \in Divisions, ~Misjudged(o, t, x, y)
  PROVE  /\ ~DivisionFaults(o, t, x, y)
         /\ DefinedDivision(o, BITS[t], x, y) = Outcome(o, t, x, y)
<1> DEFINE w == BITS[t]
           h == 2 ^ (w - 1)
           m == Signed(w, x)
           n == Signed(w, y)
<1>1. w \in Nat \ {0}
  BY BitsAssumption DEF Types
<1>2. x \in Word(w) /\ y \in Word(w)
  OBVIOUS
<1>3. o \in {"div_s", "rem_s"} => (OverflowTest(t, x, y) <=> x = h /\ y = MinusOne(w))
  BY DEF OverflowTest, Misjudged, Types
<1>4. ~DivisionFaults(o, t, x, y)
  BY <1>3 DEF DivisionFaults
<1> HIDE DEF w
<1>5. /\ n = 0 <=> y = 0
      /\ m + h = 0 <=> x = h
      /\ n + 1 = 0 <=> y = MinusOne(w)
      /\ m \in -h .. h - 1 /\ n \in -h .. h - 1
      /\ Int2(w, x) = m /\ Int2(w, y) = n
  BY <1>1, <1>2, SignedNumbers, SignedIsChosen
<1>6. h \in Nat \ {0}
  BY <1>1, HalfAWord
<1> HIDE DEF h, m, n
<1>7. CASE y = 0
  <2>1. IntegerTrap(o, t, x, y) = "integer_divide_by_zero"
    BY <1>7 DEF IntegerTrap
  <2>2. DefinedDivision(o, w, x, y) = Trapped("integer_divide_by_zero")
    BY <1>7 DEF DefinedDivision
  <2> QED
    BY <1>4, <2>1, <2>2 DEF Outcome, w
<1>8. CASE y # 0
  <2>1. m \in Int /\ n \in Int \ {0}
    BY <1>5, <1>6, <1>8
  <2>2. Nearest(m, n) = Quotient(m, n)
    BY <2>1, NearestIsQuotient
  <2>3. Quotient(m, n) = h <=> x = h /\ y = MinusOne(w)
    <3>1. Quotient(m, n) = h <=> m + h = 0 /\ n + 1 = 0
      BY <1>5, <1>6, <2>1, OnlyOverflow
    <3> QED
      BY <1>5, <3>1
  <2>4. /\ Nearest(x, y) = x \div y
        /\ (x \div y) % 2 ^ w = x \div y
        /\ (x - y * (x \div y)) % 2 ^ w = x % y
    BY <1>1, <1>2, <1>8, UnsignedQuotient
  <2>5. CASE o = "div_u"
    <3>1. IntegerTrap(o, t, x, y) = "none" /\ Computed(o, t, x, y) = x \div y
      BY <1>8, <2>5 DEF IntegerTrap, Computed
    <3>2. DefinedDivision(o, w, x, y) = Value(Nearest(x, y) % 2 ^ w)
      BY <1>8, <2>5 DEF DefinedDivision
    <3> QED
      BY <1>4, <2>4, <3>1, <3>2 DEF Outcome, w
  <2>6. CASE o = "rem_u"
    <3>1. IntegerTrap(o, t, x, y) = "none" /\ Computed(o, t, x, y) = x % y
      BY <1>8, <2>6 DEF IntegerTrap, Computed
    <3>2. DefinedDivision(o, w, x, y) = Value((x - y * Nearest(x, y)) % 2 ^ w)
      BY <1>8, <2>6 DEF DefinedDivision
    <3> QED
      BY <1>4, <2>4, <3>1, <3>2 DEF Outcome, w
  <2>7. CASE o = "div_s"
    <3>1. IntegerTrap(o, t, x, y) = IF OverflowTest(t, x, y) THEN "integer_overflow" ELSE "none"
      BY <1>8, <2>7 DEF IntegerTrap, Divisions
    <3>2. Computed(o, t, x, y) = Quotient(m, n) % 2 ^ w
      BY <2>7 DEF Computed, Unsigned, w, m, n
    <3>3. DefinedDivision(o, w, x, y) =
            IF Nearest(m, n) = h THEN Trapped("integer_overflow") ELSE Value(Nearest(m, n) % 2 ^ w)
      BY <1>5, <1>8, <2>7 DEF DefinedDivision, h
    <3> QED
      BY <1>3, <1>4, <2>2, <2>3, <2>7, <3>1, <3>2, <3>3 DEF Outcome, w
  <2>8. CASE o = "rem_s"
    <3>1. IntegerTrap(o, t, x, y) = "none"
      BY <1>8, <2>8 DEF IntegerTrap
    <3>2. DefinedDivision(o, w, x, y) = Value((m - n * Quotient(m, n)) % 2 ^ w)
      BY <1>5, <1>8, <2>2, <2>8 DEF DefinedDivision
    <3>3. CASE OverflowTest(t, x, y)
      <4>1. Quotient(m, n) = h /\ m + h = 0 /\ n + 1 = 0
        BY <1>3, <1>5, <2>3, <2>8, <3>3
      <4>2. m - n * Quotient(m, n) = 0
        <5>1. m - n * h = 0
          BY <1>6, <2>1, <4>1
        <5> QED
          BY <4>1, <5>1
      <4>3. 0 % 2 ^ w = 0
        <5>1. 2 ^ w \in Nat \ {0}
          BY <1>1, PowerOfNat
        <5> QED
          BY <5>1, DivisionOfNat
      <4>4. Computed(o, t, x, y) = 0
        BY <2>8, <3>3 DEF Computed
      <4> QED
        BY <1>4, <3>1, <3>2, <4>2, <4>3, <4>4 DEF Outcome, w
    <3>4. CASE ~OverflowTest(t, x, y)
      <4>1. Computed(o, t, x, y) = (m - n * Quotient(m, n)) % 2 ^ w
        BY <2>8, <3>4 DEF Computed, Unsigned, Remainder, w, m, n
      <4> QED
        BY <1>4, <3>1, <3>2, <4>1 DEF Outcome, w
    <3> QED
      BY <3>3, <3>4
  <2> QED
    BY <2>5, <2>6, <2>7, <2>8 DEF Divisions
<1> QED
  BY <1>7, <1>8

-----------------------------------------------------------------------------
(***************************************************************************)
(* Comparisons, counts and extensions.                                     *)
(***************************************************************************)
LEMMA RelationsAgree ==
  ASSUME NEW w \in Nat \ {0}, NEW x \in Word(w), NEW y \in Word(w),
         NEW o \in Relations \ SignedRelations
  PROVE  Related(o, x, y) = DefinedRelation(o, w, x, y)
<1>1. x \in Nat /\ y \in Nat
  BY Words
<1>2. (\A i \in 0 .. w - 1 : Bit(x, i) = Bit(y, i)) <=> x = y
  BY SameBits DEF Word
<1>3. CASE o = "eq"
  BY <1>2, <1>3 DEF Related, DefinedRelation
<1>4. CASE o = "ne"
  BY <1>2, <1>4 DEF Related, DefinedRelation
<1>5. CASE o \notin {"eq", "ne"}
  <2>1. DefinedRelation(o, w, x, y) = Order(o, x, y)
    BY <1>5 DEF DefinedRelation, Relations, SignedRelations
  <2>2. o \in {"lt_u", "gt_u", "le_u", "ge_u"}
    BY <1>5 DEF Relations, SignedRelations
  <2>3. Related(o, x, y) = Order(o, x, y)
    BY <1>1, <2>2 DEF Related, Order
  <2> QED
    BY <2>1, <2>3
<1> QED
  BY <1>3, <1>4, <1>5

LEMMA LeadingZeros ==
  ASSUME NEW w \in Nat \ {0}, NEW x \in Word(w), NEW n \in 0 .. w,
         x < 2 ^ (w - n), n < w => x >= 2 ^ (w - n - 1)
  PROVE  DefinedCount("clz", w, x) = n
<1> DEFINE Is(k) == x < 2 ^ (w - k) /\ (k < w => x >= 2 ^ (w - k - 1))
<1>1. DefinedCount("clz", w, x) = CHOOSE k \in 0 .. w : Is(k)
  BY DEF DefinedCount
<1>2. \A k, l \in 0 .. w : Is(k) /\ Is(l) => ~(k < l)
  <2> SUFFICES ASSUME NEW k \in 0 .. w, NEW l \in 0 .. w, Is(k), Is(l), k < l
               PROVE  FALSE
    OBVIOUS
  <2> DEFINE c == w - l
             d == w - k - 1
  <2>1. c \in Nat /\ d \in Nat /\ c <= d /\ k < w
    OBVIOUS
  <2>2. x < 2 ^ c /\ x >= 2 ^ d
    BY <2>1
  <2> HIDE DEF c, d, Is
  <2>3. 2 ^ c \in Nat /\ 2 ^ d \in Nat /\ 2 ^ c <= 2 ^ d
    BY <2>1, PowerOfNat, PowersGrow
  <2>4. x \in Nat
    BY Words
  <2> QED
    BY <2>2, <2>3, <2>4
<1>3. Is(n)
  OBVIOUS
<1> HIDE DEF Is
<1>4. \A k \in 0 .. w : Is(k) => k = n
  <2> SUFFICES ASSUME NEW k \in 0 .. w, Is(k)
               PROVE  k = n
    OBVIOUS
  <2>1. ~(k < n) /\ ~(n < k)
    BY <1>2, <1>3
  <2> QED
    BY <2>1
<1> QED
  BY <1>1, <1>3, <1>4

LEMMA TrailingZeros ==
  ASSUME NEW w \in Nat \ {0}, NEW x \in Word(w), NEW n \in 0 .. w,
         x % 2 ^ n = 0, n < w => Bit(x, n) = 1
  PROVE  DefinedCount("ctz", w, x) = n
<1> DEFINE Is(k) == x % 2 ^ k = 0 /\ (k < w => Bit(x, k) = 1)
<1>1. DefinedCount("ctz", w, x) = CHOOSE k \in 0 .. w : Is(k)
  BY DEF DefinedCount
<1>2. \A k, l \in 0 .. w : Is(k) /\ Is(l) => ~(k < l)
  <2> SUFFICES ASSUME NEW k \in 0 .. w, NEW l \in 0 .. w, Is(k), Is(l), k < l
               PROVE  FALSE
    OBVIOUS
  <2>1. x % 2 ^ l = 0 /\ Bit(x, k) = 1
    OBVIOUS
  <2>2. x \in Int /\ l \in Nat /\ k \in Nat /\ k \in 0 .. l - 1
    BY Words
  <2> HIDE DEF Is
  <2>3. Bit(x % 2 ^ l, k) = Bit(x, k)
    BY <2>2, BitOfRemainder
  <2>4. Bit(0, k) = 0
    BY <2>2, BitOfZero
  <2> QED
    BY <2>1, <2>3, <2>4
<1>3. Is(n)
  OBVIOUS
<1> HIDE DEF Is
<1>4. \A k \in 0 .. w : Is(k) => k = n
  <2> SUFFICES ASSUME NEW k \in 0 .. w, Is(k)
               PROVE  k = n
    OBVIOUS
  <2>1. ~(k < n) /\ ~(n < k)
    BY <1>2, <1>3
  <2> QED
    BY <2>1
<1> QED
  BY <1>1, <1>3, <1>4

LEMMA ClzAgrees ==
  ASSUME NEW w \in Nat \ {0}, NEW x \in Word(w), x # 0
  PROVE  LET i == CHOOSE i \in Bits(w, x) : \A j \in Bits(w, x) : j <= i IN
         DefinedCount("clz", w, x) = w - 1 - i /\ w - 1 - i \in 0 .. w - 1
<1> DEFINE i == CHOOSE i \in Bits(w, x) : \A j \in Bits(w, x) : j <= i
           n == w - 1 - i
<1>1. i \in Bits(w, x) /\ \A j \in Bits(w, x) : j <= i
  BY LastBit
<1> HIDE DEF i
<1>2. x \in Nat /\ x \in Int /\ Bits(w, x) = {k \in 0 .. w - 1 : Bit(x, k) = 1}
  BY Words, BitsOf
<1>3. i \in 0 .. w - 1 /\ Bit(x, i) = 1 /\ \A j \in 0 .. w - 1 : j > i => Bit(x, j) # 1
  BY <1>1, <1>2
<1>4. i \in Nat /\ i + 1 \in Nat /\ n \in 0 .. w - 1 /\ w - n = i + 1 /\ w - n - 1 = i
  BY <1>3
<1>5. x >= 2 ^ i
  <2>1. 2 ^ i \in Nat \ {0}
    BY <1>4, PowerOfNat
  <2>2. ASSUME x < 2 ^ i PROVE FALSE
    <3>1. x \in 0 .. 2 ^ i - 1
      BY <1>2, <2>1, <2>2
    <3>2. Bit(x, i) = 0
      BY <1>4, <3>1, BitAbove
    <3> QED
      BY <1>3, <3>2
  <2> QED
    BY <1>2, <2>1, <2>2
<1>6. x < 2 ^ (i + 1)
  <2> DEFINE m == 2 ^ (i + 1)
             r == x % m
  <2>1. m \in Nat \ {0} /\ 2 ^ w \in Nat /\ m <= 2 ^ w
    BY <1>3, <1>4, PowerOfNat, PowersGrow
  <2> HIDE DEF m
  <2>2. r \in 0 .. m - 1
    BY <1>2, <2>1, Division
  <2>3. \A k \in 0 .. w - 1 : Bit(r, k) = Bit(x, k)
    <3> SUFFICES ASSUME NEW k \in 0 .. w - 1
                 PROVE  Bit(r, k) = Bit(x, k)
      OBVIOUS
    <3>1. CASE k <= i
      <4>1. k \in 0 .. (i + 1) - 1
        BY <1>4, <3>1
      <4> QED
        BY <1>2, <1>4, <4>1, BitOfRemainder DEF m
    <3>2. CASE k > i
      <4>1. Bit(x, k) = 0
        <5>1. Bit(x, k) \in {0, 1}
          BY <1>2, BitIsBinary
        <5> QED
          BY <1>3, <3>2, <5>1
      <4>2. Bit(r, k) = 0
        <5>1. k \in Nat /\ i + 1 <= k
          BY <1>4, <3>2
        <5> HIDE DEF r
        <5> QED
          BY <1>4, <2>2, <5>1, BitAbove DEF m
      <4> QED
        BY <4>1, <4>2
    <3> QED
      BY <1>4, <3>1, <3>2
  <2> HIDE DEF r
  <2>4. r \in 0 .. 2 ^ w - 1 /\ x \in 0 .. 2 ^ w - 1
    BY <2>1, <2>2 DEF Word
  <2>5. r = x
    BY <2>3, <2>4, SameBits
  <2> QED
    BY <2>1, <2>2, <2>5 DEF m
<1> HIDE DEF n
<1>7. n \in 0 .. w /\ x < 2 ^ (w - n) /\ x >= 2 ^ (w - n - 1)
  BY <1>4, <1>5, <1>6
<1>8. DefinedCount("clz", w, x) = n
  BY <1>7, LeadingZeros
<1> QED
  BY <1>4, <1>8 DEF n, i

LEMMA CtzAgrees ==
  ASSUME NEW w \in Nat \ {0}, NEW x \in Word(w), x # 0
  PROVE  LET i == CHOOSE i \in Bits(w, x) : \A j \in Bits(w, x) : i <= j IN
         DefinedCount("ctz", w, x) = i /\ i \in 0 .. w - 1
<1> DEFINE i == CHOOSE i \in Bits(w, x) : \A j \in Bits(w, x) : i <= j
<1>1. i \in Bits(w, x) /\ \A j \in Bits(w, x) : i <= j
  BY FirstBit
<1> HIDE DEF i
<1>2. x \in Nat /\ x \in Int /\ Bits(w, x) = {k \in 0 .. w - 1 : Bit(x, k) = 1}
  BY Words, BitsOf
<1>3. i \in 0 .. w - 1 /\ Bit(x, i) = 1 /\ \A j \in 0 .. w - 1 : j < i => Bit(x, j) # 1
  BY <1>1, <1>2
<1>4. i \in Nat
  BY <1>3
<1>5. x % 2 ^ i = 0
  <2> DEFINE m == 2 ^ i
             r == x % m
  <2>1. m \in Nat \ {0}
    BY <1>4, PowerOfNat
  <2> HIDE DEF m
  <2>2. r \in 0 .. m - 1 /\ 0 \in 0 .. m - 1
    <3>1. r \in 0 .. m - 1
      BY <1>2, <2>1, Division
    <3> QED
      BY <2>1, <3>1
  <2>3. \A k \in 0 .. i - 1 : Bit(r, k) = Bit(0, k)
    <3> SUFFICES ASSUME NEW k \in 0 .. i - 1
                 PROVE  Bit(r, k) = Bit(0, k)
      OBVIOUS
    <3>1. Bit(r, k) = Bit(x, k)
      BY <1>2, <1>4, BitOfRemainder DEF m
    <3>2. k \in 0 .. w - 1 /\ k < i /\ k \in Nat
      BY <1>3
    <3>3. Bit(x, k) \in {0, 1} /\ Bit(0, k) = 0
      BY <1>2, <3>2, BitIsBinary, BitOfZero
    <3> QED
      BY <1>3, <3>1, <3>2, <3>3
  <2> HIDE DEF r
  <2>4. r = 0
    BY <1>4, <2>2, <2>3, SameBits DEF m
  <2> QED
    BY <2>4 DEF r, m
<1>6. DefinedCount("ctz", w, x) = i
  <2>1. i \in 0 .. w /\ (i < w => Bit(x, i) = 1)
    BY <1>3
  <2> QED
    BY <1>5, <2>1, TrailingZeros
<1> QED
  BY <1>3, <1>6 DEF i

LEMMA CountsAgree ==
  ASSUME NEW t \in Types, NEW x \in Word(BITS[t]), NEW o \in Counts
  PROVE  Counted(o, t, x) = DefinedCount(o, BITS[t], x)
<1> DEFINE w == BITS[t]
<1>1. w \in Nat \ {0}
  BY BitsAssumption DEF Types
<1>2. x \in Word(w) /\ x \in Nat
  BY <1>1, Words
<1>3. CASE o = "popcnt"
  <2>1. Bits(w, x) = {i \in 0 .. w - 1 : Bit(x, i) = 1}
    BY <1>1, <1>2, BitsOf
  <2> QED
    BY <1>3, <2>1 DEF Counted, DefinedCount
<1>4. CASE o # "popcnt" /\ x = 0
  <2>1. Counted(o, t, x) = w
    BY <1>4 DEF Counted
  <2>2. 0 < 2 ^ (w - w) /\ 0 % 2 ^ w = 0
    <3>1. w - w = 0 /\ 2 ^ 0 \in Nat \ {0} /\ 2 ^ w \in Nat \ {0} /\ w - w \in Nat
      BY <1>1, PowerOfNat
    <3>2. 0 % 2 ^ w = 0
      BY <3>1, DivisionOfNat
    <3>3. 2 ^ (w - w) \in Nat \ {0}
      BY <3>1, PowerOfNat
    <3> QED
      BY <3>2, <3>3
  <2>3. DefinedCount("clz", w, 0) = w /\ DefinedCount("ctz", w, 0) = w
    <3>1. w \in 0 .. w /\ ~(w < w) /\ 0 \in Word(w)
      BY <1>1, <1>2, <1>4
    <3> HIDE DEF w
    <3> QED
      BY <1>1, <2>2, <3>1, LeadingZeros, TrailingZeros
  <2> QED
    BY <1>4, <2>1, <2>3 DEF Counts
<1>5. CASE o = "clz" /\ x # 0
  BY <1>1, <1>2, <1>5, ClzAgrees DEF Counted
<1>6. CASE o = "ctz" /\ x # 0
  BY <1>1, <1>2, <1>6, CtzAgrees DEF Counted
<1> QED
  BY <1>3, <1>4, <1>5, <1>6 DEF Counts

LEMMA ExtensionAgrees ==
  ASSUME NEW w \in Nat \ {0}, NEW x \in Word(w), NEW n \in 1 .. w - 1
  PROVE  /\ SignExtended(n, w, x) = OfBits(w, LAMBDA i : Bit(x, IF i < n THEN i ELSE n - 1))
         /\ SignExtended(n, w, x) \in Word(w)
<1> DEFINE r == SignExtended(n, w, x)
           Is(v) == \A i \in 0 .. w - 1 : Bit(v, i) = Bit(x, IF i < n THEN i ELSE n - 1)
<1>1. r \in Word(w) /\ Is(r)
  BY BitOfExtension
<1>2. OfBits(w, LAMBDA i : Bit(x, IF i < n THEN i ELSE n - 1)) = CHOOSE v \in Word(w) : Is(v)
  BY DEF OfBits, Word
<1> HIDE DEF r
<1>3. \A v \in Word(w) : Is(v) => v = r
  <2> SUFFICES ASSUME NEW v \in Word(w), Is(v)
               PROVE  v = r
    OBVIOUS
  <2>1. \A i \in 0 .. w - 1 : Bit(v, i) = Bit(r, i)
    BY <1>1, Zenon
  <2> HIDE DEF Is
  <2> QED
    BY <1>1, <2>1, SameBits DEF Word
<1>4. (CHOOSE v \in Word(w) : Is(v)) = r
  <2> HIDE DEF Is
  <2> QED
    BY <1>1, <1>3
<1> QED
  BY <1>1, <1>2, <1>4 DEF r

-----------------------------------------------------------------------------
(***************************************************************************)
(* The machine that runs one instruction.                                  *)
(***************************************************************************)
(* The operands are numbers of the type they are read as.                  *)
InRange ==
  op \in IntegerOps =>
    /\ type \in Types /\ a \in Word(BITS[type])
    /\ op \in Relations \cup Binary => b \in Word(BITS[type])
    /\ op = "extend" => b \in 1 .. BITS[type] - 1

LEMMA NoFloatOps ==
  op \in IntegerOps => op \notin Truncations \cup Conversions \cup Formats \cup Unary \cup Pairwise
BY DEF IntegerOps, Relations, Binary, Divisions, Counts,
       Truncations, Conversions, Formats, Unary, Pairwise

LEMMA OneOfTheOps ==
  op \in IntegerOps <=> op \in Relations \/ op \in Divisions \/ op \in Binary \ Divisions
                        \/ op \in Counts \/ op = "extend"
BY DEF IntegerOps, Binary

LEMMA OpsAreApart ==
  /\ op \in Relations => op \notin Binary /\ op \notin Counts /\ op # "extend"
  /\ op \in Binary => op \notin Counts /\ op # "extend"
  /\ op \in Counts => op # "extend"
BY DEF Relations, Binary, Divisions, Counts

LEMMA InRangeInit == NumericInit => InRange
<1>1. Init => InRange
  <2> SUFFICES ASSUME Init
               PROVE  InRange
    OBVIOUS
  <2>1. type \in Types /\ op \in IntegerOps /\ a \in Values[type] /\ b \in Second
    BY DEF Init
  <2>2. Values[type] \subseteq Word(BITS[type])
    BY <2>1, OperandAssumption DEF Word
  <2>3. op \in Relations \cup Binary => b \in Values[type]
    BY <2>1, OpsAreApart DEF Second
  <2>4. op = "extend" => b \in 1 .. BITS[type] - 1
    <3> SUFFICES ASSUME op = "extend"
                 PROVE  b \in 1 .. BITS[type] - 1
      OBVIOUS
    <3>1. b \in Narrow /\ b < BITS[type]
      BY <2>1, OpsAreApart DEF Second
    <3>2. b \in Nat \ {0} /\ BITS[type] \in Nat
      BY <2>1, <3>1, OperandAssumption, BitsAssumption DEF Types
    <3> QED
      BY <3>1, <3>2
  <2> QED
    BY <2>1, <2>2, <2>3, <2>4 DEF InRange
<1>2. FloatInit => InRange
  BY NoFloatOps DEF FloatInit, InRange, Formats, Unary
<1> QED
  BY <1>1, <1>2 DEF NumericInit

LEMMA InRangeNext == InRange /\ [Next \/ FloatNext]_vars => InRange'
<1> SUFFICES ASSUME InRange, [Next \/ FloatNext]_vars
             PROVE  InRange'
  OBVIOUS
<1>1. UNCHANGED <<op, type, a, b>>
  BY DEF Next, FloatNext, vars
<1> QED
  BY <1>1 DEF InRange

LEMMA IntegerStep ==
  ASSUME InRange, op \in IntegerOps, Next \/ FloatNext
  PROVE  /\ Compare \/ Arith \/ Count \/ Extend
         /\ UNCHANGED <<op, type, a, b>>
<1>1. ~FloatNext
  BY NoFloatOps DEF FloatNext, OP_TRUNC, OP_TRUNC_SAT, Convert, Reformat, Negate, Abs, MinMax,
     CopySign, Truncations, Conversions, Formats, Unary, Pairwise
<1> QED
  BY <1>1 DEF Next

LEMMA OutcomeIsDefined ==
  ASSUME InRange, op \in IntegerOps \ SignedRelations, ~MisjudgedOverflow,
         Compare \/ Arith \/ Count \/ Extend
  PROVE  outcome' = Defined
<1> DEFINE w == BITS[type]
<1>1. w \in Nat \ {0} /\ type \in Types /\ a \in Word(w)
  BY BitsAssumption DEF InRange, Types
<1>2. CASE op \in Relations
  <2>1. b \in Word(w)
    BY <1>2 DEF InRange
  <2>2. Related(op, a, b) = DefinedRelation(op, w, a, b)
    BY <1>1, <1>2, <2>1, RelationsAgree
  <2>3. outcome' = Value(IF Related(op, a, b) THEN 1 ELSE 0)
    BY <1>2, OpsAreApart DEF Compare, Arith, Count, Extend
  <2>4. Defined = Value(IF DefinedRelation(op, w, a, b) THEN 1 ELSE 0)
    BY <1>2, OpsAreApart DEF Defined, OfBits, Binary
  <2> QED
    BY <2>2, <2>3, <2>4
<1>3. CASE op \in Binary
  <2>1. b \in Word(w) /\ op \notin Relations
    BY <1>3, OpsAreApart DEF InRange
  <2>2. Arith
    BY <1>3, OpsAreApart DEF Compare, Count, Extend
  <2>3. CASE op \in Divisions
    <3>1. ~Misjudged(op, type, a, b)
      BY DEF Misjudged, MisjudgedOverflow
    <3>2. /\ ~DivisionFaults(op, type, a, b)
          /\ DefinedDivision(op, w, a, b) = Outcome(op, type, a, b)
      BY <1>1, <2>1, <2>3, <3>1, DivisionsAgree
    <3>3. outcome' = Outcome(op, type, a, b)
      BY <2>2, <3>2 DEF Arith, Outcome
    <3>4. Defined = DefinedDivision(op, w, a, b)
      BY <1>3, <2>1, <2>3, OpsAreApart DEF Defined, OfBits
    <3> QED
      BY <3>2, <3>3, <3>4
  <2>4. CASE op \notin Divisions
    <3>1. /\ IntegerTrap(op, type, a, b) = "none"
          /\ ~DivisionFaults(op, type, a, b)
          /\ Computed(op, type, a, b) = DefinedBinary(op, w, a, b)
      BY <1>1, <1>3, <2>1, <2>4, RotationAssumption, BinaryAgrees
    <3>2. outcome' = Value(Computed(op, type, a, b))
      BY <2>2, <3>1 DEF Arith
    <3>3. Defined = Value(DefinedBinary(op, w, a, b))
      BY <1>3, <2>1, <2>4, OpsAreApart DEF Defined, OfBits
    <3> QED
      BY <3>1, <3>2, <3>3
  <2> QED
    BY <2>3, <2>4
<1>4. CASE op \in Counts
  <2>1. op \notin Relations /\ op \notin Binary /\ op \notin Divisions
    BY <1>4, OpsAreApart DEF Binary
  <2>2. Counted(op, type, a) = DefinedCount(op, w, a)
    BY <1>1, <1>4, CountsAgree
  <2>3. outcome' = Value(Counted(op, type, a))
    BY <1>4, <2>1, OpsAreApart DEF Compare, Arith, Count, Extend
  <2>4. Defined = Value(DefinedCount(op, w, a))
    BY <1>4, <2>1, OpsAreApart DEF Defined, OfBits
  <2> QED
    BY <2>2, <2>3, <2>4
<1>5. CASE op = "extend"
  <2>1. op \notin Relations /\ op \notin Binary /\ op \notin Divisions /\ op \notin Counts
    BY <1>5, OpsAreApart DEF Binary
  <2>2. b \in 1 .. w - 1
    BY <1>5 DEF InRange
  <2>3. outcome' = Value(SignExtended(b, w, a))
    BY <2>1 DEF Compare, Arith, Count, Extend
  <2>4. Defined = Value(OfBits(w, LAMBDA i : Bit(a, IF i < b THEN i ELSE b - 1)))
    BY <1>5, <2>1 DEF Defined, OfBits
  <2>5. SignExtended(b, w, a) = OfBits(w, LAMBDA i : Bit(a, IF i < b THEN i ELSE b - 1))
    BY <1>1, <2>2, ExtensionAgrees
  <2> QED
    BY <2>3, <2>4, <2>5
<1> QED
  BY <1>2, <1>3, <1>4, <1>5 DEF IntegerOps

LEMMA SameInstruction ==
  ASSUME UNCHANGED <<op, type, a, b>>
  PROVE  Defined' = Defined /\ MisjudgedOverflow' = MisjudgedOverflow
BY DEF Defined, MisjudgedOverflow, OfBits

(* Integer instructions are WebAssembly's, whatever the widths and the     *)
(* operands.                                                               *)
THEOREM IntegersAreDefined == NumericSpec => []IntegersAgree
<1> DEFINE I == InRange /\ IntegersAgree
<1>1. NumericInit => I
  BY InRangeInit DEF NumericInit, Init, FloatInit, IntegersAgree
<1>2. I /\ [Next \/ FloatNext]_vars => I'
  <2> SUFFICES ASSUME InRange, IntegersAgree, [Next \/ FloatNext]_vars
               PROVE  IntegersAgree'
    BY InRangeNext
  <2>1. CASE UNCHANGED vars
    <3>1. UNCHANGED <<op, type, a, b, outcome>>
      BY <2>1 DEF vars
    <3> QED
      BY <3>1, SameInstruction DEF IntegersAgree, Pending
  <2>2. CASE Next \/ FloatNext
    <3> SUFFICES ASSUME op' \in IntegerOps \ SignedRelations, ~MisjudgedOverflow'
                 PROVE  outcome' = Defined'
      BY DEF IntegersAgree
    <3>1. UNCHANGED <<op, type, a, b>>
      BY <2>2 DEF Next, FloatNext
    <3>2. op \in IntegerOps \ SignedRelations /\ ~MisjudgedOverflow /\ Defined' = Defined
      BY <3>1, SameInstruction
    <3>3. Compare \/ Arith \/ Count \/ Extend
      BY <2>2, <3>2, IntegerStep
    <3> QED
      BY <3>2, <3>3, OutcomeIsDefined
  <2> QED
    BY <2>1, <2>2
<1>3. I => IntegersAgree
  OBVIOUS
<1> QED
  BY <1>1, <1>2, <1>3, PTL DEF NumericSpec

LEMMA OutcomeInRange ==
  ASSUME InRange, op \in IntegerOps, Compare \/ Arith \/ Count \/ Extend
  PROVE  /\ outcome'.trap \in {"pending", "none", "killed",
                               "integer_divide_by_zero", "integer_overflow"}
         /\ outcome'.value \in Word(BITS[type])
<1> DEFINE w == BITS[type]
<1>1. w \in Nat \ {0} /\ type \in {"i32", "i64"} /\ a \in Word(w) /\ a \in Int
  BY BitsAssumption, Words DEF InRange, Types
<1>2. {0, 1} \subseteq Word(w)
  BY <1>1, WidthInWord
<1>3. ASSUME NEW v \in Word(w), outcome' = Value(v)
      PROVE  outcome'.trap = "none" /\ outcome'.value \in Word(w)
  BY <1>3 DEF Value
<1>4. ASSUME NEW message, outcome' = Trapped(message)
      PROVE  outcome'.trap = message /\ outcome'.value \in Word(w)
  BY <1>2, <1>4 DEF Trapped
<1>5. CASE Compare
  BY <1>2, <1>3, <1>5 DEF Compare
<1>6. CASE Arith
  <2>1. b \in Word(w) /\ op \in Binary
    BY <1>6 DEF InRange, Arith
  <2>2. IntegerTrap(op, type, a, b) \in {"none", "integer_divide_by_zero", "integer_overflow"}
    BY DEF IntegerTrap
  <2>3. IntegerTrap(op, type, a, b) = "none" => Computed(op, type, a, b) \in Word(w)
    BY <1>1, <2>1, ComputedInWord
  <2> QED
    BY <1>3, <1>4, <1>6, <2>2, <2>3 DEF Arith
<1>7. CASE Count
  <2>1. Counted(op, type, a) \in Word(w)
    BY <1>1, <1>7, CountedInWord DEF Count, Counts
  <2> QED
    BY <1>3, <1>7, <2>1 DEF Count
<1>8. CASE Extend
  <2>1. b \in 1 .. w - 1
    BY <1>8 DEF Extend, InRange
  <2>2. b \in Nat \ {0}
    BY <1>1, <2>1
  <2>3. SignExtended(b, w, a) \in Word(w)
    BY <1>1, <2>2, ExtendedInWord
  <2> QED
    BY <1>3, <1>8, <2>3 DEF Extend
<1> QED
  BY <1>5, <1>6, <1>7, <1>8

(* Outcomes of integer instructions are numbers of their type.             *)
THEOREM OutcomesAreInRange == NumericSpec => []TypeOK
<1> DEFINE I == InRange /\ TypeOK
<1>1. NumericInit => I
  <2> SUFFICES ASSUME NumericInit, op \in IntegerOps
               PROVE  Pending.trap = "pending" /\ Pending.value \in Word(BITS[type])
    BY InRangeInit DEF NumericInit, Init, FloatInit, TypeOK, Word
  <2>1. type \in Types
    BY InRangeInit DEF InRange
  <2>2. BITS[type] \in Nat \ {0}
    BY <2>1, BitsAssumption DEF Types
  <2> QED
    BY <2>2, WidthInWord DEF Pending
<1>2. I /\ [Next \/ FloatNext]_vars => I'
  <2> SUFFICES ASSUME InRange, TypeOK, [Next \/ FloatNext]_vars
               PROVE  TypeOK'
    BY InRangeNext
  <2>1. CASE UNCHANGED vars
    BY <2>1 DEF vars, TypeOK
  <2>2. CASE Next \/ FloatNext
    <3> SUFFICES ASSUME op' \in IntegerOps
                 PROVE  /\ outcome'.trap \in {"pending", "none", "killed",
                                              "integer_divide_by_zero", "integer_overflow"}
                        /\ outcome'.value \in Word(BITS[type'])
      BY DEF TypeOK, Word
    <3>1. UNCHANGED <<op, type, a, b>>
      BY <2>2 DEF Next, FloatNext
    <3>2. Compare \/ Arith \/ Count \/ Extend
      BY <2>2, <3>1, IntegerStep
    <3> QED
      BY <3>1, <3>2, OutcomeInRange
  <2> QED
    BY <2>1, <2>2
<1>3. I => TypeOK
  OBVIOUS
<1> QED
  BY <1>1, <1>2, <1>3, PTL DEF NumericSpec

-----------------------------------------------------------------------------
(***************************************************************************)
(* Floats.                                                                 *)
(***************************************************************************)
LEMMA MagnitudesAreNumbers ==
  ASSUME NEW f \in FloatTypes
  PROVE  Magnitudes(f) \subseteq Nat /\ TooLarge(f) \in Nat \ {0}
<1>1. PRECISION[f] \in Nat /\ SCALE[f] \in Nat /\ UNIT[f] \in Nat \ {0}
  BY FormatAssumption
<1>2. 2 ^ PRECISION[f] \in Nat \ {0} /\ 2 ^ SCALE[f] \in Nat \ {0}
  BY <1>1, PowerOfNat
<1>3. TooLarge(f) \in Nat \ {0}
  <2> DEFINE p == 2 ^ PRECISION[f]
             e == 2 ^ SCALE[f]
             u == UNIT[f]
  <2>1. p \in Nat \ {0} /\ e \in Nat \ {0} /\ u \in Nat \ {0} /\ TooLarge(f) = p * e * u
    BY <1>1, <1>2 DEF TooLarge
  <2> HIDE DEF p, e, u
  <2>2. p * e \in Nat \ {0}
    BY <2>1
  <2> QED
    BY <2>1, <2>2
<1>4. \A s \in 0 .. 2 ^ PRECISION[f] - 1, k \in 0 .. SCALE[f] : s * 2 ^ k * UNIT[f] \in Nat
  <2> SUFFICES ASSUME NEW s \in 0 .. 2 ^ PRECISION[f] - 1, NEW k \in 0 .. SCALE[f]
               PROVE  s * 2 ^ k * UNIT[f] \in Nat
    OBVIOUS
  <2>1. s \in Nat /\ k \in Nat
    BY <1>1, <1>2
  <2>2. 2 ^ k \in Nat
    BY <2>1, PowerOfNat
  <2> QED
    BY <1>1, <2>1, <2>2
<1> QED
  BY <1>3, <1>4 DEF Magnitudes

LEMMA FloatFacts ==
  ASSUME NEW f \in FloatTypes, NEW x \in Floats(f)
  PROVE  /\ x = Float(x.neg, x.mag) /\ x.neg \in BOOLEAN /\ x.mag \in Int
         /\ isnan(x) => x = NaN
         /\ ~isnan(x) => x.mag \in Nat
<1>1. Magnitudes(f) \cup {Infinity} \subseteq Nat
  BY MagnitudesAreNumbers DEF Infinity, FloatTypes
<1>2. CASE x = NaN
  BY <1>2 DEF NaN, Float, isnan
<1>3. CASE x # NaN
  <2>1. x \in [neg : BOOLEAN, mag : Magnitudes(f) \cup {Infinity}]
    BY <1>3 DEF Floats
  <2>2. x.mag \in Nat /\ x.neg \in BOOLEAN /\ x = Float(x.neg, x.mag)
    BY <1>1, <2>1 DEF Float
  <2> QED
    BY <2>2 DEF isnan
<1> QED
  BY <1>2, <1>3

LEMMA MinMaxOfPair ==
  ASSUME NEW f \in FloatTypes, NEW x \in Floats(f), NEW y \in Floats(f), isnan(x) = isnan(y)
  PROVE  /\ \A c \in wa_fmax(x, y) : c = DefinedMax(x, y)
         /\ \A c \in wa_fmin(x, y) : c = DefinedMin(x, y)
<1>1. /\ x = Float(x.neg, x.mag) /\ x.neg \in BOOLEAN /\ x.mag \in Int
      /\ isnan(x) => x = NaN
      /\ ~isnan(x) => x.mag \in Nat
      /\ y = Float(y.neg, y.mag) /\ y.neg \in BOOLEAN /\ y.mag \in Int
      /\ isnan(y) => y = NaN
      /\ ~isnan(y) => y.mag \in Nat
  BY FloatFacts
<1>2. CASE isnan(x)
  <2>1. x = NaN /\ y = NaN /\ NaN.mag = -1
    BY <1>1, <1>2 DEF NaN, Float
  <2>2. fmax(x, y) = {NaN} /\ fmin(x, y) = {NaN}
    BY <1>2, <2>1 DEF fmax, fmin
  <2>3. wa_fmax(x, y) = {NaN} /\ wa_fmin(x, y) = {NaN}
    BY <2>1, <2>2 DEF wa_fmax, wa_fmin
  <2>4. DefinedMax(x, y) = NaN /\ DefinedMin(x, y) = NaN
    BY <1>2 DEF DefinedMax, DefinedMin
  <2> QED
    BY <2>3, <2>4
<1>3. CASE ~isnan(x)
  <2> DEFINE u == Real(x)
             v == Real(y)
  <2>1. ~isnan(y) /\ x.mag \in Nat /\ y.mag \in Nat
    BY <1>1, <1>3
  <2>2. u \in Int /\ v \in Int
    BY <1>1, <2>1 DEF Real
  <2>3. u = v /\ x.mag # 0 => x = y
    <3>1. u = v /\ x.mag # 0 => x.neg = y.neg /\ x.mag = y.mag
      BY <1>1, <2>1 DEF Real
    <3> QED
      BY <1>1, <3>1
  <2>4. u = v => (x.mag = 0 <=> y.mag = 0)
    BY <1>1, <2>1 DEF Real
  <2>5. fmax(x, y) = IF u > v THEN {x} ELSE IF u < v THEN {y} ELSE {x, y}
    BY <1>3, <2>1 DEF fmax
  <2>6. fmin(x, y) = IF u < v THEN {x} ELSE IF u > v THEN {y} ELSE {x, y}
    BY <1>3, <2>1 DEF fmin
  <2>7. DefinedMax(x, y) = IF u > v \/ (u = v /\ ~x.neg) THEN x ELSE y
    BY <1>3, <2>1 DEF DefinedMax
  <2>8. DefinedMin(x, y) = IF u < v \/ (u = v /\ x.neg) THEN x ELSE y
    BY <1>3, <2>1 DEF DefinedMin
  <2>9. wa_fmax(x, y) =
          {IF c.mag = 0 /\ u = v THEN (IF x.neg THEN y ELSE x) ELSE c : c \in fmax(x, y)}
    BY DEF wa_fmax
  <2>10. wa_fmin(x, y) =
          {IF c.mag = 0 /\ u = v THEN (IF x.neg THEN x ELSE y) ELSE c : c \in fmin(x, y)}
    BY DEF wa_fmin
  <2> HIDE DEF u, v
  <2>11. ASSUME NEW c \in fmax(x, y)
         PROVE  (IF c.mag = 0 /\ u = v THEN (IF x.neg THEN y ELSE x) ELSE c) = DefinedMax(x, y)
    <3>1. CASE u = v
      <4>1. c \in {x, y}
        BY <2>2, <2>5, <3>1
      <4>2. DefinedMax(x, y) = IF ~x.neg THEN x ELSE y
        BY <2>2, <2>7, <3>1
      <4>3. CASE c.mag = 0
        BY <4>2, <4>3, <3>1
      <4>4. CASE c.mag # 0
        <5>1. x = y
          BY <2>3, <2>4, <3>1, <4>1, <4>4
        <5> QED
          BY <4>1, <4>2, <4>4, <5>1
      <4> QED
        BY <4>3, <4>4
    <3>2. CASE u # v
      BY <2>2, <2>5, <2>7, <3>2
    <3> QED
      BY <3>1, <3>2
  <2>12. ASSUME NEW c \in fmin(x, y)
         PROVE  (IF c.mag = 0 /\ u = v THEN (IF x.neg THEN x ELSE y) ELSE c) = DefinedMin(x, y)
    <3>1. CASE u = v
      <4>1. c \in {x, y}
        BY <2>2, <2>6, <3>1
      <4>2. DefinedMin(x, y) = IF x.neg THEN x ELSE y
        BY <2>2, <2>8, <3>1
      <4>3. CASE c.mag = 0
        BY <4>2, <4>3, <3>1
      <4>4. CASE c.mag # 0
        <5>1. x = y
          BY <2>3, <2>4, <3>1, <4>1, <4>4
        <5> QED
          BY <4>1, <4>2, <4>4, <5>1
      <4> QED
        BY <4>3, <4>4
    <3>2. CASE u # v
      BY <2>2, <2>6, <2>8, <3>2
    <3> QED
      BY <3>1, <3>2
  <2> QED
    BY <2>9, <2>10, <2>11, <2>12
<1> QED
  BY <1>2, <1>3

(* The operands are numbers of the format they are read as.                *)
FloatsInRange ==
  /\ op \in Truncations => type \in FloatTypes /\ a \in Floats(type) /\ b \in Types
  /\ op \in Conversions => type \in Types /\ a \in Word(BITS[type]) /\ b \in FloatTypes
  /\ op \in Formats => type \in FloatTypes /\ b \in FloatTypes /\ a \in Floats(type)
  /\ op \in Pairwise => type \in FloatTypes /\ a \in Floats(type) /\ b \in Floats(type)

LEMMA FloatsInRangeInit == NumericInit => FloatsInRange
<1>1. Init => FloatsInRange
  BY NoFloatOps DEF Init, FloatsInRange
<1>2. FloatInit => FloatsInRange
  <2> SUFFICES ASSUME FloatInit
               PROVE  FloatsInRange
    OBVIOUS
  <2>1. \A t \in Types : Values[t] \subseteq Word(BITS[t])
    BY OperandAssumption DEF Word
  <2>2. \A f \in FloatTypes : Operands[f] \subseteq Floats(f)
    BY FloatOperandAssumption
  <2> QED
    BY <2>1, <2>2 DEF FloatInit, FloatsInRange, FloatTypes, Truncations, Conversions, Formats,
       Pairwise
<1> QED
  BY <1>1, <1>2 DEF NumericInit

LEMMA FloatsInRangeNext == FloatsInRange /\ [Next \/ FloatNext]_vars => FloatsInRange'
<1> SUFFICES ASSUME FloatsInRange, [Next \/ FloatNext]_vars
             PROVE  FloatsInRange'
  OBVIOUS
<1>1. UNCHANGED <<op, type, a, b>>
  BY DEF Next, FloatNext, vars
<1> QED
  BY <1>1 DEF FloatsInRange

(* The minimum and the maximum of two numbers are WebAssembly's.           *)
THEOREM MinimaAreDefined == NumericSpec => []MinMaxAgrees
<1> DEFINE I == FloatsInRange /\ MinMaxAgrees
<1>1. NumericInit => I
  BY FloatsInRangeInit DEF NumericInit, Init, FloatInit, MinMaxAgrees, Pending
<1>2. I /\ [Next \/ FloatNext]_vars => I'
  <2> SUFFICES ASSUME FloatsInRange, MinMaxAgrees, [Next \/ FloatNext]_vars
               PROVE  MinMaxAgrees'
    BY FloatsInRangeNext
  <2>1. CASE UNCHANGED vars
    BY <2>1 DEF vars, MinMaxAgrees, IgnoresNaN
  <2>2. CASE Next \/ FloatNext
    <3> SUFFICES ASSUME op' \in {"min", "max"}, ~IgnoresNaN'
                 PROVE  outcome' = Value(IF op' = "max" THEN DefinedMax(a', b')
                                                        ELSE DefinedMin(a', b'))
      BY DEF MinMaxAgrees
    <3>1. UNCHANGED <<op, type, a, b>>
      BY <2>2 DEF Next, FloatNext
    <3>2. op \in {"min", "max"} /\ isnan(a) = isnan(b)
      BY <3>1 DEF IgnoresNaN
    <3>3. MinMax
      BY <2>2, <3>2 DEF Next, Compare, Arith, Count, Extend, Relations, Binary, Divisions, Counts,
         FloatNext, OP_TRUNC, OP_TRUNC_SAT, Convert, Reformat, Negate, Abs, CopySign,
         Conversions, Formats
    <3>4. type \in FloatTypes /\ a \in Floats(type) /\ b \in Floats(type)
      BY <3>2 DEF FloatsInRange, Pairwise
    <3>5. /\ \A c \in wa_fmax(a, b) : c = DefinedMax(a, b)
          /\ \A c \in wa_fmin(a, b) : c = DefinedMin(a, b)
      BY <3>2, <3>4, MinMaxOfPair
    <3> QED
      BY <3>1, <3>2, <3>3, <3>5 DEF MinMax
  <2> QED
    BY <2>1, <2>2
<1>3. I => MinMaxAgrees
  OBVIOUS
<1> QED
  BY <1>1, <1>2, <1>3, PTL DEF NumericSpec

-----------------------------------------------------------------------------
(***************************************************************************)
(* Truncations.  The integer part of a number is in range if and only if   *)
(* the number is between the bounds of utils.h.                            *)
(***************************************************************************)
LEMMA IntegerPart ==
  ASSUME NEW m \in Nat, NEW c \in Nat
  PROVE  /\ m \div ONE \in Nat
         /\ m < c * ONE <=> m \div ONE < c
<1> DEFINE n == m \div ONE
           r == m % ONE
<1>1. ONE \in Nat \ {0}
  BY FormatAssumption
<1>2. n \in Int /\ r \in 0 .. ONE - 1 /\ m = ONE * n + r
  BY <1>1, Division
<1>3. n \in 0 .. m
  BY <1>1, DivisionOfNat
<1> HIDE DEF n, r
<1>4. n \in Nat /\ m >= n * ONE /\ m < n * ONE + ONE
  BY <1>1, <1>2, <1>3
<1>5. n < c => n * ONE + ONE <= c * ONE
  <2>1. n + 1 <= c => (n + 1) * ONE <= c * ONE
    BY <1>1, <1>4
  <2> QED
    BY <1>1, <1>4, <2>1
<1>6. c <= n => c * ONE <= n * ONE
  BY <1>1, <1>4
<1>7. n * ONE \in Int /\ c * ONE \in Int
  BY <1>1, <1>4
<1>8. m < c * ONE <=> n < c
  BY <1>1, <1>4, <1>5, <1>6, <1>7
<1> QED
  BY <1>4, <1>8 DEF n

LEMMA CastIsTruncation ==
  ASSUME NEW f \in FloatTypes, NEW x \in Floats(f), ~isnan(x)
  PROVE  /\ Cast(x) \in Int /\ Magnitude(Cast(x)) = x.mag \div ONE
         /\ \A n \in Int : TruncationOf(x, n) <=> n = Cast(x)
<1> DEFINE c == x.mag \div ONE
<1>1. x.mag \in Nat /\ x.neg \in BOOLEAN
  BY FloatFacts
<1>2. c \in Nat /\ \A k \in Nat : x.mag < k * ONE <=> c < k
  BY <1>1, IntegerPart
<1>3. Cast(x) = IF x.neg THEN -c ELSE c
  BY DEF Cast
<1> HIDE DEF c
<1>4. ASSUME NEW n \in Int
      PROVE  TruncationOf(x, n) <=> n = Cast(x)
  <2> DEFINE u == Magnitude(n)
  <2>1. u \in Nat /\ u + 1 \in Nat
    BY DEF Magnitude
  <2>2. u * ONE \in Int
    BY <2>1, FormatAssumption
  <2>3. u * ONE <= x.mag <=> u <= c
    <3>1. x.mag < u * ONE <=> c < u
      BY <1>2, <2>1
    <3> HIDE DEF u
    <3> QED
      BY <1>1, <1>2, <2>1, <2>2, <3>1
  <2>4. x.mag < (u + 1) * ONE <=> c <= u
    <3>1. x.mag < (u + 1) * ONE <=> c < u + 1
      BY <1>2, <2>1
    <3> HIDE DEF u
    <3> QED
      BY <1>2, <2>1, <3>1
  <2>5. TruncationOf(x, n) <=> u = c /\ (n = 0 \/ (n < 0) = x.neg)
    <3>1. TruncationOf(x, n) <=> /\ u * ONE <= x.mag /\ x.mag < (u + 1) * ONE
                                 /\ n = 0 \/ (n < 0) = x.neg
      BY DEF TruncationOf
    <3> HIDE DEF u
    <3> QED
      BY <1>2, <2>1, <2>3, <2>4, <3>1
  <2>6. CASE x.neg
    <3>1. n = Cast(x) <=> n = -c
      BY <1>3, <2>6
    <3>2. u = c /\ (n = 0 \/ n < 0) <=> n = -c
      BY <1>2 DEF Magnitude
    <3> QED
      BY <2>5, <2>6, <3>1, <3>2
  <2>7. CASE ~x.neg
    <3>1. n = Cast(x) <=> n = c
      BY <1>3, <2>7
    <3>2. u = c /\ (n = 0 \/ ~(n < 0)) <=> n = c
      BY <1>2 DEF Magnitude
    <3>3. ((n < 0) = x.neg) <=> ~(n < 0)
      <4>1. x.neg = FALSE
        BY <1>1, <2>7
      <4>2. ((n < 0) = FALSE) <=> ~(n < 0)
        OBVIOUS
      <4> QED
        BY <4>1, <4>2, Zenon
    <3> HIDE DEF u
    <3> QED
      BY <2>5, <3>1, <3>2, <3>3
  <2> QED
    BY <2>6, <2>7
<1>5. Cast(x) \in Int /\ Magnitude(Cast(x)) = c
  BY <1>1, <1>2, <1>3 DEF Magnitude
<1> QED
  BY <1>4, <1>5 DEF c

(* A number of the format that is below the least integer by 1 is below it *)
(* by the distance of the numbers there.                                   *)
LEMMA GapBelowLeast ==
  ASSUME NEW f \in FloatTypes, NEW t \in Types, NEW m \in Magnitudes(f) \cup {Infinity},
         BITS[t] > PRECISION[f], m >= (2 ^ (BITS[t] - 1) + 1) * ONE
  PROVE  m >= (2 ^ (BITS[t] - 1) + 2 ^ (BITS[t] - PRECISION[f])) * ONE
<1> DEFINE w == BITS[t]
           p == PRECISION[f]
           u == UNIT[f]
           h == 2 ^ (w - 1)
           g == 2 ^ (w - p)
           z == 2 ^ (p - 1)
<1>1. w \in Nat \ {0} /\ p \in Nat \ {0} /\ u \in Nat \ {0} /\ ONE \in Nat \ {0}
  BY BitsAssumption, FormatAssumption DEF Types
<1>2. w > p /\ m \in Nat
  BY MagnitudesAreNumbers DEF Infinity, FloatTypes
<1>3. w - 1 \in Nat /\ w - p \in Nat /\ p - 1 \in Nat /\ w - 1 = (w - p) + (p - 1)
  BY <1>1, <1>2
<1>4. h \in Nat \ {0} /\ g \in Nat \ {0} /\ z \in Nat \ {0} /\ h = g * z
  BY <1>3, PowerOfNat, PowerOfSum
<1>5. m >= (h + 1) * ONE
  OBVIOUS
<1>6. CASE m = Infinity
  <2>1. 2 ^ w = 2 * h /\ 2 ^ w * ONE <= m
    BY <1>1, <1>6, HalfAWord, RangeAssumption
  <2>2. g <= h
    BY <1>1, <1>2, <1>3, PowersGrow
  <2> HIDE DEF w, g, h
  <2>3. (h + g) * ONE <= (2 * h) * ONE
    BY <1>1, <1>4, <2>2
  <2>4. (2 * h) * ONE <= m
    BY <2>1
  <2>5. (h + g) * ONE \in Int /\ (2 * h) * ONE \in Int
    BY <1>1, <1>4
  <2>6. m >= (h + g) * ONE
    BY <1>2, <2>3, <2>4, <2>5
  <2> QED
    BY <2>6 DEF w, g, h, p
<1>7. CASE m \in Magnitudes(f)
  <2>1. PICK s \in 0 .. 2 ^ p - 1, k \in 0 .. SCALE[f] : m = s * 2 ^ k * u
    BY <1>7 DEF Magnitudes
  <2>2. PICK j \in 0 .. ONE : ONE = 2 ^ j * u
    BY RangeAssumption
  <2>3. s \in Nat /\ k \in Nat /\ j \in Nat
    BY <1>1, <2>1, <2>2, PowerOfNat, FormatAssumption
  <2>4. 2 ^ k \in Nat \ {0} /\ 2 ^ j \in Nat \ {0} /\ 2 ^ p \in Nat \ {0}
    BY <1>1, <2>3, PowerOfNat
  <2> HIDE DEF w, p, u, g, h, z
  <2>5. s * 2 ^ k > 2 ^ j * h
    <3> DEFINE c == s * 2 ^ k
               d == 2 ^ j * h
    <3>1. c \in Nat /\ d \in Nat
      BY <1>4, <2>3, <2>4
    <3>2. d * u = h * ONE
      BY <1>1, <1>4, <2>2, <2>4
    <3>3. m = c * u
      BY <2>1
    <3> HIDE DEF c, d
    <3>4. c * u > d * u
      <4>1. (h + 1) * ONE = h * ONE + ONE /\ h * ONE \in Int
        BY <1>1, <1>4
      <4> QED
        BY <1>1, <1>2, <1>5, <3>2, <3>3, <4>1
    <3>5. c <= d => c * u <= d * u
      BY <1>1, <3>1
    <3>6. c * u \in Int /\ d * u \in Int
      BY <1>1, <3>1
    <3>7. c > d
      BY <3>1, <3>4, <3>5, <3>6
    <3> QED
      BY <3>7 DEF c, d
  <2>6. k >= j + w - p
    <3> SUFFICES ASSUME k < j + w - p
                 PROVE  FALSE
      BY <1>1, <2>3
    <3>1. p + k \in Nat /\ j + (w - 1) \in Nat /\ p + k <= j + (w - 1)
      BY <1>1, <2>3
    <3>2. 2 ^ (p + k) <= 2 ^ (j + (w - 1))
      BY <3>1, PowersGrow
    <3>3. 2 ^ (p + k) = 2 ^ p * 2 ^ k /\ 2 ^ (j + (w - 1)) = 2 ^ j * h
      BY <1>1, <1>3, <2>3, PowerOfSum DEF h
    <3>4. s < 2 ^ p
      BY <2>1, <2>3, <2>4
    <3>5. s * 2 ^ k <= 2 ^ p * 2 ^ k
      BY <2>3, <2>4, <3>4
    <3>6. s * 2 ^ k \in Int /\ 2 ^ p * 2 ^ k \in Int /\ 2 ^ j * h \in Int
      BY <1>4, <2>3, <2>4
    <3> QED
      BY <2>5, <3>2, <3>3, <3>5, <3>6
  <2> DEFINE e == k - (j + (w - p))
             c == s * 2 ^ e
  <2>7. e \in Nat /\ k = e + (j + (w - p)) /\ j + (w - p) \in Nat
    BY <1>1, <1>3, <2>3, <2>6
  <2>8. 2 ^ k = 2 ^ e * (2 ^ j * g) /\ 2 ^ e \in Nat \ {0}
    <3>1. 2 ^ (j + (w - p)) = 2 ^ j * g
      BY <1>3, <2>3, PowerOfSum DEF g
    <3> HIDE DEF e
    <3>2. 2 ^ (e + (j + (w - p))) = 2 ^ e * 2 ^ (j + (w - p))
      BY <2>7, PowerOfSum
    <3> QED
      BY <2>7, <3>1, <3>2, PowerOfNat
  <2> HIDE DEF e
  <2>9. c \in Nat
    BY <2>3, <2>8
  <2>10. m = c * (g * ONE)
    <3> DEFINE x == 2 ^ e
               y == 2 ^ j
    <3>1. m = s * (x * (y * g)) * u /\ ONE = y * u /\ c = s * x
      BY <2>1, <2>2, <2>8
    <3>2. x \in Nat /\ y \in Nat
      BY <2>4, <2>8
    <3> HIDE DEF x, y, c
    <3>3. s * (x * (y * g)) * u = (s * x) * (g * (y * u))
      BY <1>1, <1>4, <2>3, <3>2
    <3> QED
      BY <3>1, <3>3
  <2> HIDE DEF c
  <2>11. c > z
    <3> DEFINE d == g * ONE
    <3>1. d \in Nat \ {0}
      BY <1>1, <1>4
    <3>2. h * ONE = z * d
      BY <1>1, <1>4
    <3>3. m > z * d
      <4>1. (h + 1) * ONE = h * ONE + ONE /\ h * ONE \in Int
        BY <1>1, <1>4
      <4> QED
        BY <1>1, <1>2, <1>5, <3>2, <4>1
    <3>4. m = c * d
      BY <2>10
    <3> HIDE DEF d
    <3>5. c <= z => c * d <= z * d
      BY <1>4, <2>9, <3>1
    <3>6. c * d \in Int /\ z * d \in Int
      BY <1>4, <2>9, <3>1
    <3> QED
      BY <1>4, <2>9, <3>3, <3>4, <3>5, <3>6
  <2>12. m >= (h + g) * ONE
    <3> DEFINE d == g * ONE
    <3>1. d \in Nat \ {0} /\ m = c * d
      BY <1>1, <1>4, <2>10
    <3>2. (h + g) * ONE = (z + 1) * d
      BY <1>1, <1>4
    <3> HIDE DEF d
    <3>3. (z + 1) * d <= c * d
      BY <1>4, <2>9, <2>11, <3>1
    <3> QED
      BY <3>1, <3>2, <3>3
  <2> QED
    BY <2>12 DEF h, g, w, p
<1> QED
  BY <1>6, <1>7

LEMMA SignedBounds ==
  ASSUME NEW o \in Truncations, NEW f \in FloatTypes, NEW t \in Types,
         NEW x \in Floats(f), ~isnan(x), IsSigned(o)
  PROVE  /\ Cast(x) \in IntegersOf(o, t) <=> Real(x) > RMin(o, f, t) /\ Real(x) < RMax(o, t)
         /\ Real(x) <= RMin(o, f, t) => x.neg
         /\ Real(x) >= RMax(o, t) => ~x.neg
<1> DEFINE w == BITS[t]
           p == PRECISION[f]
           h == 2 ^ (w - 1)
           g == IF w > p THEN 2 ^ (w - p) ELSE 1
           m == x.mag
           c == m \div ONE
           lo == (h + g) * ONE
           hi == h * ONE
           next == (h + 1) * ONE
<1>1. m \in Nat /\ x.neg \in BOOLEAN /\ m \in Magnitudes(f) \cup {Infinity}
  <2>1. x \in [neg : BOOLEAN, mag : Magnitudes(f) \cup {Infinity}]
    BY DEF Floats, NaN, Float, isnan
  <2> QED
    BY <2>1, FloatFacts
<1>2. c \in Nat /\ \A k \in Nat : m < k * ONE <=> c < k
  BY <1>1, IntegerPart
<1>3. w \in Nat \ {0} /\ p \in Nat \ {0} /\ ONE \in Nat \ {0}
  BY BitsAssumption, FormatAssumption DEF Types
<1>4. h \in Nat \ {0} /\ 2 ^ w = 2 * h
  BY <1>3, HalfAWord
<1>5. g \in Nat \ {0}
  <2>1. w > p => w - p \in Nat
    BY <1>3
  <2> QED
    BY <2>1, PowerOfNat
<1>6. Cast(x) = IF x.neg THEN -c ELSE c
  BY DEF Cast
<1>7. Real(x) = IF x.neg THEN -m ELSE m
  BY DEF Real
<1>8. IntegersOf(o, t) = -h .. h - 1
  BY DEF IntegersOf
<1>9. m >= next => m >= lo
  <2>1. w > p /\ m >= next => m >= lo
    BY <1>1, GapBelowLeast
  <2>2. ~(w > p) => lo = next
    OBVIOUS
  <2> QED
    BY <2>1, <2>2
<1>10. lo \in Nat /\ hi \in Nat /\ next \in Nat /\ hi < next /\ next <= lo /\ 0 < hi
  <2> HIDE DEF h, g
  <2>1. hi \in Nat /\ next = hi + ONE /\ 0 < hi
    BY <1>3, <1>4
  <2>2. g * ONE \in Nat /\ lo = hi + g * ONE
    BY <1>3, <1>4, <1>5
  <2>3. 1 * ONE <= g * ONE
    BY <1>3, <1>5
  <2> QED
    BY <1>3, <2>1, <2>2, <2>3
<1>11. RMin(o, f, t) = -lo /\ RMax(o, t) = hi
  <2>1. RMin(o, f, t) = ONE * (-(h + g)) /\ RMax(o, t) = ONE * h
    BY DEF RMin, RMax
  <2> HIDE DEF h, g
  <2> QED
    BY <1>3, <1>4, <1>5, <2>1
<1>12. (m < hi <=> c < h) /\ (m < next <=> c < h + 1)
  BY <1>2, <1>4
<1> HIDE DEF w, p, h, g, m, c, lo, hi, next
<1>13. CASE x.neg
  <2>1. -c \in -h .. h - 1 <=> m < next
    BY <1>2, <1>4, <1>12
  <2>2. -m > -lo /\ -m < hi <=> m < next
    BY <1>1, <1>9, <1>10
  <2>3. ~(-m >= hi)
    BY <1>1, <1>10
  <2> QED
    BY <1>6, <1>7, <1>8, <1>11, <1>13, <2>1, <2>2, <2>3
<1>14. CASE ~x.neg
  <2>1. c \in -h .. h - 1 <=> m < hi
    BY <1>2, <1>4, <1>12
  <2>2. m > -lo /\ ~(m <= -lo)
    BY <1>1, <1>10
  <2> QED
    BY <1>6, <1>7, <1>8, <1>11, <1>14, <2>1, <2>2
<1> QED
  BY <1>13, <1>14

LEMMA UnsignedBounds ==
  ASSUME NEW o \in Truncations, NEW f \in FloatTypes, NEW t \in Types,
         NEW x \in Floats(f), ~isnan(x), ~IsSigned(o)
  PROVE  /\ Cast(x) \in IntegersOf(o, t) <=> Real(x) > RMin(o, f, t) /\ Real(x) < RMax(o, t)
         /\ Real(x) <= RMin(o, f, t) => x.neg
         /\ Real(x) >= RMax(o, t) => ~x.neg
<1> DEFINE w == BITS[t]
           h == 2 ^ w
           m == x.mag
           c == m \div ONE
           hi == h * ONE
<1>1. m \in Nat /\ x.neg \in BOOLEAN
  BY FloatFacts
<1>2. c \in Nat /\ \A k \in Nat : m < k * ONE <=> c < k
  BY <1>1, IntegerPart
<1>3. w \in Nat /\ ONE \in Nat \ {0} /\ h \in Nat \ {0}
  BY BitsAssumption, FormatAssumption, PowerOfNat DEF Types
<1>4. Cast(x) = IF x.neg THEN -c ELSE c
  BY DEF Cast
<1>5. Real(x) = IF x.neg THEN -m ELSE m
  BY DEF Real
<1>6. IntegersOf(o, t) = 0 .. h - 1
  BY DEF IntegersOf
<1>7. hi \in Nat /\ 0 < hi
  <2> HIDE DEF h
  <2> QED
    BY <1>3
<1>8. RMin(o, f, t) = -ONE /\ RMax(o, t) = hi
  <2>1. RMin(o, f, t) = ONE * (-1) /\ RMax(o, t) = ONE * h
    BY DEF RMin, RMax
  <2> HIDE DEF h
  <2> QED
    BY <1>3, <2>1
<1>9. (m < hi <=> c < h) /\ (m < ONE <=> c < 1)
  <2>1. m < 1 * ONE <=> c < 1
    BY <1>2
  <2> QED
    BY <1>2, <1>3, <2>1
<1> HIDE DEF w, h, m, c, hi
<1>10. CASE x.neg
  <2>1. -c \in 0 .. h - 1 <=> m < ONE
    BY <1>2, <1>3, <1>9
  <2>2. -m > -ONE /\ -m < hi <=> m < ONE
    BY <1>1, <1>3, <1>7
  <2>3. ~(-m >= hi)
    BY <1>1, <1>7
  <2> QED
    BY <1>4, <1>5, <1>6, <1>8, <1>10, <2>1, <2>2, <2>3
<1>11. CASE ~x.neg
  <2>1. c \in 0 .. h - 1 <=> m < hi
    BY <1>2, <1>3, <1>9
  <2>2. m > -ONE /\ ~(m <= -ONE)
    BY <1>1, <1>3
  <2> QED
    BY <1>4, <1>5, <1>6, <1>8, <1>11, <2>1, <2>2
<1> QED
  BY <1>10, <1>11

(* IMin and IMax are the least and the greatest integer of the type.       *)
LEMMA LeastAndGreatest ==
  ASSUME NEW o \in Truncations, NEW t \in Types
  PROVE  /\ IntegersOf(o, t) \subseteq Int
         /\ IMin(o, t) = CHOOSE n \in IntegersOf(o, t) : \A k \in IntegersOf(o, t) : n <= k
         /\ IMax(o, t) = CHOOSE n \in IntegersOf(o, t) : \A k \in IntegersOf(o, t) : k <= n
<1> DEFINE h == 2 ^ (BITS[t] - 1)
           z == 2 ^ BITS[t]
           last == IF IsSigned(o) THEN h ELSE z
           first == IF IsSigned(o) THEN -h ELSE 0
<1>1. ONE \in Nat \ {0} /\ BITS[t] \in Nat \ {0}
  BY BitsAssumption, FormatAssumption DEF Types
<1>2. h \in Nat \ {0} /\ z \in Nat \ {0}
  BY <1>1, HalfAWord, PowerOfNat
<1>3. last \in Nat \ {0} /\ first \in Int /\ first <= last - 1
  <2> HIDE DEF h, z
  <2> QED
    BY <1>2
<1>4. IntegersOf(o, t) = first .. last - 1
  BY DEF IntegersOf
<1>5. IMin(o, t) = first
  BY DEF IMin
<1>6. IMax(o, t) = last - 1
  <2>1. RMax(o, t) = ONE * last /\ IMax(o, t) = RMax(o, t) \div ONE - 1
    BY DEF RMax, IMax
  <2> HIDE DEF last
  <2> DEFINE v == ONE * last
  <2>2. v \in Nat
    BY <1>1, <1>3
  <2> HIDE DEF v
  <2>3. \A c \in Nat : v < c * ONE <=> v \div ONE < c
    BY <2>2, IntegerPart
  <2>4. v \div ONE \in Nat
    BY <2>2, IntegerPart
  <2>5. v \div ONE >= last
    <3>1. ~(v < last * ONE)
      BY <1>1, <1>3 DEF v
    <3> QED
      BY <1>3, <2>3, <2>4, <3>1
  <2>6. v \div ONE < last + 1
    <3>1. v < (last + 1) * ONE
      BY <1>1, <1>3 DEF v
    <3> QED
      BY <1>3, <2>3, <3>1
  <2>7. v \div ONE = last
    BY <1>3, <2>4, <2>5, <2>6
  <2> QED
    BY <2>1, <2>7 DEF v
<1> HIDE DEF first, last
<1>7. \A n \in first .. last - 1 : (\A k \in first .. last - 1 : n <= k) <=> n = first
  BY <1>3
<1>8. \A n \in first .. last - 1 : (\A k \in first .. last - 1 : k <= n) <=> n = last - 1
  BY <1>3
<1>9. first \in first .. last - 1 /\ last - 1 \in first .. last - 1
  BY <1>3
<1>10. first = CHOOSE n \in first .. last - 1 : \A k \in first .. last - 1 : n <= k
  BY <1>7, <1>9
<1>11. last - 1 = CHOOSE n \in first .. last - 1 : \A k \in first .. last - 1 : k <= n
  BY <1>8, <1>9
<1> QED
  BY <1>3, <1>4, <1>5, <1>6, <1>10, <1>11

LEMMA BoundsAreNumbers ==
  ASSUME NEW o \in Truncations, NEW f \in FloatTypes, NEW t \in Types,
         NEW x \in Floats(f), ~isnan(x)
  PROVE  Real(x) \in Int /\ RMin(o, f, t) \in Int /\ RMax(o, t) \in Int
<1> DEFINE w == BITS[t]
           p == PRECISION[f]
           h == 2 ^ (w - 1)
           z == 2 ^ w
           g == IF w > p THEN 2 ^ (w - p) ELSE 1
           lo == IF IsSigned(o) THEN -(h + g) ELSE -1
           hi == IF IsSigned(o) THEN h ELSE z
<1>1. w \in Nat \ {0} /\ p \in Nat \ {0} /\ ONE \in Nat \ {0}
  BY BitsAssumption, FormatAssumption DEF Types
<1>2. h \in Nat \ {0} /\ z \in Nat \ {0}
  BY <1>1, HalfAWord, PowerOfNat
<1>3. g \in Nat
  <2>1. w > p => w - p \in Nat
    BY <1>1
  <2> QED
    BY <2>1, PowerOfNat
<1>4. lo \in Int /\ hi \in Int
  <2> HIDE DEF h, z, g
  <2> QED
    BY <1>2, <1>3
<1>5. RMin(o, f, t) = ONE * lo /\ RMax(o, t) = ONE * hi
  BY DEF RMin, RMax
<1>6. Real(x) \in Int
  BY FloatFacts DEF Real
<1> HIDE DEF lo, hi
<1> QED
  BY <1>1, <1>4, <1>5, <1>6

LEMMA TruncationIsDefined ==
  ASSUME op \in Truncations, type \in FloatTypes, a \in Floats(type), b \in Types,
         OP_TRUNC \/ OP_TRUNC_SAT, UNCHANGED <<op, type, a, b>>
  PROVE  DefinedTruncation'
<1> DEFINE range == IntegersOf(op, b)
           Is(n) == outcome' = Value(n % 2 ^ BITS[b])
           saturating == op \in {"trunc_sat_s", "trunc_sat_u"}
           least == CHOOSE n \in range : \A k \in range : n <= k
           greatest == CHOOSE n \in range : \A k \in range : k <= n
           Between == Real(a) > RMin(op, type, b) /\ Real(a) < RMax(op, b)
<1>1. /\ isnan(a) /\ saturating => Is(0)
      /\ isnan(a) /\ ~saturating => outcome' = Trapped("invalid_conversion_to_integer")
  <2>1. 0 % 2 ^ BITS[b] = 0
    <3>1. BITS[b] \in Nat
      BY BitsAssumption DEF Types
    <3>2. 2 ^ BITS[b] \in Nat \ {0}
      BY <3>1, PowerOfNat
    <3> QED
      BY <3>2
  <2>2. isnan(a) /\ OP_TRUNC => ~saturating
                                /\ outcome' = Trapped("invalid_conversion_to_integer")
    BY DEF OP_TRUNC
  <2>3. isnan(a) /\ OP_TRUNC_SAT => saturating /\ outcome' = Value(0)
    BY DEF OP_TRUNC_SAT
  <2> QED
    BY <2>1, <2>2, <2>3
<1>2. ASSUME ~isnan(a), Between
      PROVE  Is(Cast(a))
  <2>1. Real(a) \in Int /\ RMin(op, type, b) \in Int /\ RMax(op, b) \in Int
    BY <1>2, BoundsAreNumbers
  <2>2. ~(Real(a) <= RMin(op, type, b)) /\ ~(Real(a) >= RMax(op, b))
    BY <1>2, <2>1
  <2> QED
    BY <1>2, <2>2 DEF OP_TRUNC, OP_TRUNC_SAT, Unsigned
<1>3. ASSUME ~isnan(a), ~Between
      PROVE  IF saturating THEN Is(IF a.neg THEN least ELSE greatest)
                           ELSE outcome' = Trapped("integer_overflow")
  <2>1. Real(a) \in Int /\ RMin(op, type, b) \in Int /\ RMax(op, b) \in Int
    BY <1>3, BoundsAreNumbers
  <2>2. /\ Real(a) <= RMin(op, type, b) => a.neg
        /\ Real(a) >= RMax(op, b) => ~a.neg
    BY <1>3, SignedBounds, UnsignedBounds
  <2>3. IMin(op, b) = least /\ IMax(op, b) = greatest
    BY LeastAndGreatest
  <2> HIDE DEF least, greatest
  <2>4. OP_TRUNC => ~saturating /\ outcome' = Trapped("integer_overflow")
    BY <1>3 DEF OP_TRUNC
  <2>5. OP_TRUNC_SAT => /\ saturating
                        /\ \/ a.neg /\ outcome' = Value(Unsigned(BITS[b], IMin(op, b)))
                           \/ ~a.neg /\ outcome' = Value(Unsigned(BITS[b], IMax(op, b)))
    BY <1>3, <2>2 DEF OP_TRUNC_SAT
  <2> QED
    BY <2>3, <2>4, <2>5 DEF Unsigned
<1>4. ~isnan(a) => /\ Cast(a) \in range <=> Between
                   /\ \A n \in range : TruncationOf(a, n) <=> n = Cast(a)
  <2> SUFFICES ASSUME ~isnan(a)
               PROVE  /\ Cast(a) \in range <=> Between
                      /\ \A n \in range : TruncationOf(a, n) <=> n = Cast(a)
    OBVIOUS
  <2>1. Cast(a) \in range <=> Between
    BY SignedBounds, UnsignedBounds
  <2>2. range \subseteq Int
    BY LeastAndGreatest
  <2> QED
    BY <2>1, <2>2, CastIsTruncation
<1>5. ~isnan(a) => ((\E n \in range : TruncationOf(a, n)) <=> Between)
  BY <1>4
<1>6. ~isnan(a) /\ Between => \E n \in range : TruncationOf(a, n) /\ Is(n)
  BY <1>2, <1>4
<1> HIDE DEF Is, Between, least, greatest, range, saturating
<1> DEFINE Case == CASE isnan(a) /\ saturating -> Is(0)
                     [] isnan(a) /\ ~saturating ->
                          outcome' = Trapped("invalid_conversion_to_integer")
                     [] ~isnan(a) /\ (\E n \in range : TruncationOf(a, n)) ->
                          \E n \in range : TruncationOf(a, n) /\ Is(n)
                     [] OTHER -> IF saturating THEN Is(IF a.neg THEN least ELSE greatest)
                                 ELSE outcome' = Trapped("integer_overflow")
<1>7. Case
  BY <1>1, <1>3, <1>5, <1>6
<1> HIDE DEF Case
<1>8. DefinedTruncation' = Case
  BY DEF DefinedTruncation, Case, Is, least, greatest, range, saturating
<1> QED
  BY <1>7, <1>8

(* A truncation gives the integer part of every number that has one in     *)
(* range and no other, whatever the width of the significand.              *)
THEOREM TruncationsAreDefined == NumericSpec => []TruncationsAgree
<1> DEFINE I == FloatsInRange /\ TruncationsAgree
<1>1. NumericInit => I
  BY FloatsInRangeInit DEF NumericInit, Init, FloatInit, TruncationsAgree, Pending
<1>2. I /\ [Next \/ FloatNext]_vars => I'
  <2> SUFFICES ASSUME FloatsInRange, TruncationsAgree, [Next \/ FloatNext]_vars
               PROVE  TruncationsAgree'
    BY FloatsInRangeNext
  <2>1. CASE UNCHANGED vars
    BY <2>1 DEF vars, TruncationsAgree, DefinedTruncation
  <2>2. CASE Next \/ FloatNext
    <3> SUFFICES ASSUME op' \in Truncations
                 PROVE  DefinedTruncation'
      BY DEF TruncationsAgree
    <3>1. UNCHANGED <<op, type, a, b>>
      BY <2>2 DEF Next, FloatNext
    <3>2. op \in Truncations
      BY <3>1
    <3>3. OP_TRUNC \/ OP_TRUNC_SAT
      BY <2>2, <3>2 DEF Truncations, Next, Compare, Arith, Count, Extend, Relations, Binary,
         Divisions, Counts, FloatNext, Convert, Reformat, Negate, Abs, MinMax, CopySign,
         Conversions, Formats
    <3>4. type \in FloatTypes /\ a \in Floats(type) /\ b \in Types
      BY <3>2 DEF FloatsInRange
    <3> QED
      BY <3>1, <3>2, <3>3, <3>4, TruncationIsDefined
  <2> QED
    BY <2>1, <2>2
<1>3. I => TruncationsAgree
  OBVIOUS
<1> QED
  BY <1>1, <1>2, <1>3, PTL DEF NumericSpec

-----------------------------------------------------------------------------
(***************************************************************************)
(* Rounding.  A number between two multiples of a step becomes the nearer  *)
(* one, or the even one; the numbers of the format with a smaller step lie *)
(* below, on the far side of one of these multiples.                       *)
(***************************************************************************)
LEMMA NearestMultiple ==
  ASSUME NEW m \in Nat, NEW s \in Nat \ {0}, NEW e \in Int
  PROVE  LET d == m \div s
             t == m % s
             up == 2 * t > s \/ (2 * t = s /\ d % 2 = 1)
             c == IF up THEN d + 1 ELSE d IN
         /\ d \in Nat /\ t \in 0 .. s - 1 /\ m = s * d + t
         /\ c \in Nat
         /\ e # c => \/ Magnitude(c * s - m) < Magnitude(e * s - m)
                     \/ Magnitude(c * s - m) = Magnitude(e * s - m) /\ c % 2 = 0
<1> DEFINE d == m \div s
           t == m % s
           up == 2 * t > s \/ (2 * t = s /\ d % 2 = 1)
           c == IF up THEN d + 1 ELSE d
           x == e * s - m
           y == c * s - m
<1>0. m \in Int /\ m \div s \in 0 .. m
  BY DivisionOfNat
<1>1. d \in Nat /\ t \in 0 .. s - 1 /\ m = s * d + t
  <2>1. m \div s \in Int /\ m % s \in 0 .. s - 1 /\ m = s * (m \div s) + (m % s)
    BY <1>0, Division
  <2> QED
    BY <1>0, <2>1
<1>2. d % 2 = 1 \/ d % 2 = 0
  BY <1>1
<1>3. d % 2 = 1 => (d + 1) % 2 = 0
  BY <1>1
<1> HIDE DEF d, t
<1>4. c \in Nat
  BY <1>1
<1>5. y = IF up THEN s - t ELSE -t
  <2>1. d * s - m = -t
    BY <1>1
  <2>2. (d + 1) * s - m = s - t
    BY <1>1
  <2> QED
    BY <2>1, <2>2
<1>6. Magnitude(y) = IF up THEN s - t ELSE t
  BY <1>1, <1>5 DEF Magnitude
<1>7. x \in Int
  <2>1. e * s \in Int
    OBVIOUS
  <2> QED
    BY <2>1
<1>8. e >= d + 1 => x >= s - t
  <2>1. e >= d + 1 => e * s >= (d + 1) * s
    BY <1>1
  <2>2. (d + 1) * s = d * s + s /\ d * s \in Int /\ e * s \in Int
    BY <1>1
  <2> QED
    BY <1>1, <2>1, <2>2
<1>9. e >= d + 2 => x >= s + s - t
  <2>1. e >= d + 2 => e * s >= (d + 2) * s
    BY <1>1
  <2>2. (d + 2) * s = d * s + s + s /\ d * s \in Int /\ e * s \in Int
    BY <1>1
  <2> QED
    BY <1>1, <2>1, <2>2
<1>10. e <= d => x <= -t
  <2>1. e <= d => e * s <= d * s
    BY <1>1
  <2>2. d * s \in Int /\ e * s \in Int
    BY <1>1
  <2> QED
    BY <1>1, <2>1, <2>2
<1>11. e <= d - 1 => x <= -t - s
  <2>1. e <= d - 1 => e * s <= (d - 1) * s
    BY <1>1
  <2>2. (d - 1) * s = d * s - s /\ d * s \in Int /\ e * s \in Int
    BY <1>1
  <2> QED
    BY <1>1, <2>1, <2>2
<1> HIDE DEF x, y
<1>12. ASSUME e # c
       PROVE  Magnitude(y) < Magnitude(x) \/ (Magnitude(y) = Magnitude(x) /\ c % 2 = 0)
  <2>1. CASE up
    <3>1. e <= d \/ e >= d + 2
      BY <1>1, <1>12, <2>1
    <3>2. Magnitude(x) >= t
      BY <1>1, <1>7, <1>9, <1>10, <3>1 DEF Magnitude
    <3>3. e >= d + 2 => Magnitude(x) > s - t
      BY <1>1, <1>7, <1>9 DEF Magnitude
    <3>4. 2 * t > s => t > s - t
      BY <1>1
    <3>5. 2 * t = s => t = s - t /\ c % 2 = 0
      BY <1>1, <1>3, <2>1
    <3>6. Magnitude(x) \in Int
      BY <1>7 DEF Magnitude
    <3> QED
      BY <1>1, <1>6, <2>1, <3>1, <3>2, <3>3, <3>4, <3>5, <3>6
  <2>2. CASE ~up
    <3>1. e <= d - 1 \/ e >= d + 1
      BY <1>1, <1>12, <2>2
    <3>2. e <= d - 1 => Magnitude(x) > t
      BY <1>1, <1>7, <1>11 DEF Magnitude
    <3>3. e >= d + 1 => Magnitude(x) >= s - t
      BY <1>1, <1>7, <1>8 DEF Magnitude
    <3>4. 2 * t < s \/ (2 * t = s /\ c % 2 = 0)
      BY <1>1, <1>2, <2>2
    <3>5. Magnitude(x) \in Int
      BY <1>7 DEF Magnitude
    <3> QED
      BY <1>1, <1>6, <2>2, <3>1, <3>2, <3>3, <3>4, <3>5
  <2> QED
    BY <2>1, <2>2
<1>13. /\ d \in Nat /\ t \in 0 .. s - 1 /\ m = s * d + t
       /\ c \in Nat
       /\ e # c => \/ Magnitude(y) < Magnitude(x)
                   \/ Magnitude(y) = Magnitude(x) /\ c % 2 = 0
  BY <1>1, <1>4, <1>12
<1> QED
  BY <1>13 DEF d, t, x, y

LEMMA StepOfNumber ==
  ASSUME NEW f \in FloatTypes, NEW m \in Nat
  PROVE  \E k \in 0 .. SCALE[f] + 1 :
           /\ Step(f, m) = UNIT[f] * 2 ^ k
           /\ m < 2 ^ PRECISION[f] * 2 ^ k * UNIT[f] \/ k = SCALE[f] + 1
           /\ \A l \in 0 .. k - 1 : m >= 2 ^ PRECISION[f] * 2 ^ l * UNIT[f]
<1> DEFINE top == SCALE[f] + 1
           Fits(k) == m < 2 ^ PRECISION[f] * 2 ^ k * UNIT[f] \/ k = top
           Above(l) == m >= 2 ^ PRECISION[f] * 2 ^ l * UNIT[f]
           Is(k) == Fits(k) /\ \A l \in 0 .. k - 1 : Above(l)
           K == {k \in 0 .. top : Fits(k)}
<1>1. top \in Nat
  BY FormatAssumption
<1>2. \A l \in Nat : 2 ^ PRECISION[f] * 2 ^ l * UNIT[f] \in Nat
  <2> SUFFICES ASSUME NEW l \in Nat
               PROVE  2 ^ PRECISION[f] * 2 ^ l * UNIT[f] \in Nat
    OBVIOUS
  <2> DEFINE p == 2 ^ PRECISION[f]
             q == 2 ^ l
  <2>1. p \in Nat /\ q \in Nat /\ UNIT[f] \in Nat
    BY FormatAssumption, PowerOfNat
  <2> HIDE DEF p, q
  <2>2. p * q * UNIT[f] \in Nat
    BY <2>1
  <2> QED
    BY <2>2 DEF p, q
<1>3. PICK k \in K : \A l \in K : k <= l
  <2>1. K \in SUBSET Nat /\ top \in K
    BY <1>1
  <2> HIDE DEF K
  <2> QED
    BY <2>1, Least
<1>4. k \in 0 .. top /\ Fits(k)
  OBVIOUS
<1>5. \A l \in 0 .. k - 1 : Above(l)
  <2> SUFFICES ASSUME NEW l \in 0 .. k - 1
               PROVE  Above(l)
    OBVIOUS
  <2>1. l \in 0 .. top /\ l \in Nat /\ ~(k <= l)
    BY <1>1, <1>4
  <2>2. ~Fits(l)
    BY <1>3, <2>1
  <2> QED
    BY <1>2, <2>1, <2>2
<1>6. Is(k)
  BY <1>4, <1>5
<1>7. Step(f, m) = UNIT[f] * 2 ^ (CHOOSE n \in 0 .. top : Is(n))
  BY DEF Step
<1> HIDE DEF Is, Fits, Above, top, K
<1>8. (CHOOSE n \in 0 .. top : Is(n)) \in 0 .. top /\ Is(CHOOSE n \in 0 .. top : Is(n))
  BY <1>4, <1>6
<1> QED
  BY <1>7, <1>8 DEF Is, Fits, Above, top

(* Where the other numbers of a format lie, seen from a step: on multiples *)
(* of it, or below all numbers that need this step.                        *)
LEMMA PlacesOfNumbers ==
  ASSUME NEW f \in FloatTypes, NEW k \in 0 .. SCALE[f] + 1,
         NEW q \in Magnitudes(f) \cup {TooLarge(f)}
  PROVE  LET h == 2 ^ (PRECISION[f] - 1)
             s == UNIT[f] * 2 ^ k IN
         /\ q \in Nat /\ q <= TooLarge(f)
         /\ (\E e \in Nat : q = e * s) \/ (k > 0 /\ q < h * s)
         /\ k = SCALE[f] + 1 => TooLarge(f) = h * s
<1> DEFINE p == 2 ^ PRECISION[f]
           h == 2 ^ (PRECISION[f] - 1)
           u == UNIT[f]
           z == 2 ^ SCALE[f]
           x == 2 ^ k
           s == u * x
<1>1. PRECISION[f] \in Nat \ {0} /\ SCALE[f] \in Nat /\ u \in Nat \ {0} /\ k \in Nat
  BY FormatAssumption
<1>2. h \in Nat \ {0} /\ p = 2 * h /\ z \in Nat \ {0} /\ x \in Nat \ {0}
  BY <1>1, HalfAWord, PowerOfNat
<1>3. TooLarge(f) = p * z * u
  BY DEF TooLarge
<1> HIDE DEF p, h, u, z, x
<1>4. s \in Nat \ {0}
  BY <1>1, <1>2
<1>5. PICK c \in 0 .. p, j \in 0 .. SCALE[f] :
        /\ q = c * 2 ^ j * u
        /\ c < p \/ j = SCALE[f]
  <2>1. CASE q = TooLarge(f)
    <3>1. p \in 0 .. p /\ SCALE[f] \in 0 .. SCALE[f]
      BY <1>1, <1>2
    <3> QED
      BY <1>3, <2>1, <3>1 DEF z
  <2>2. CASE q \in Magnitudes(f)
    <3>1. PICK c \in 0 .. p - 1, j \in 0 .. SCALE[f] : q = c * 2 ^ j * u
      BY <2>2 DEF Magnitudes, p, u
    <3>2. c \in 0 .. p /\ c < p
      BY <1>2
    <3> QED
      BY <3>1, <3>2
  <2> QED
    BY <2>1, <2>2
<1> DEFINE y == 2 ^ j
<1>6. c \in Nat /\ j \in Nat /\ y \in Nat \ {0} /\ y <= z
  <2>1. c \in Nat /\ j \in Nat /\ j <= SCALE[f]
    BY <1>1, <1>2, <1>5
  <2> QED
    BY <1>1, <2>1, PowerOfNat, PowersGrow DEF z
<1>7. q = c * y * u
  BY <1>5
<1> HIDE DEF y
<1>8. q \in Nat /\ q <= TooLarge(f)
  <2>1. c * y \in Nat /\ p * z \in Nat
    BY <1>2, <1>6
  <2>2. c * y <= p * y
    BY <1>2, <1>5, <1>6
  <2>3. p * y <= p * z
    BY <1>2, <1>6
  <2>4. c * y <= p * z
    BY <1>2, <1>6, <2>1, <2>2, <2>3
  <2>5. (c * y) * u <= (p * z) * u
    <3> DEFINE l == c * y
               r == p * z
    <3>1. l \in Nat /\ r \in Nat /\ l <= r
      BY <2>1, <2>4
    <3> HIDE DEF l, r
    <3>2. l * u <= r * u
      BY <1>1, <3>1
    <3> QED
      BY <3>2 DEF l, r
  <2>6. (c * y) * u \in Nat
    BY <1>1, <2>1
  <2> QED
    BY <1>3, <1>7, <2>5, <2>6
<1> DEFINE Placed == (\E e \in Nat : q = e * s) \/ (k > 0 /\ q < h * s)
<1>9. ASSUME j >= k PROVE Placed
  <2> DEFINE i == j - k
             w == 2 ^ i
  <2>1. i \in Nat /\ j = k + i
    BY <1>1, <1>6, <1>9
  <2>2. y = x * w /\ w \in Nat
    <3> HIDE DEF i
    <3>1. 2 ^ (k + i) = 2 ^ k * 2 ^ i
      BY <1>1, <2>1, PowerOfSum
    <3> QED
      BY <2>1, <3>1, PowerOfNat DEF x, y
  <2> HIDE DEF w
  <2>3. q = (c * w) * s
    BY <1>1, <1>2, <1>6, <1>7, <2>2
  <2>4. c * w \in Nat
    BY <1>6, <2>2
  <2> QED
    BY <2>3, <2>4
<1>10. k = SCALE[f] + 1 => TooLarge(f) = h * s
  <2>1. k = SCALE[f] + 1 => x = 2 * z
    BY <1>1, PowerOfNext DEF x, z
  <2> QED
    BY <1>1, <1>2, <1>3, <2>1
<1>11. ASSUME j < k PROVE Placed
  <2>1. CASE c = p /\ j = SCALE[f]
    <3>1. k = SCALE[f] + 1
      BY <1>1, <1>6, <1>11, <2>1
    <3>2. q = h * s
      BY <1>3, <1>7, <1>10, <2>1, <3>1 DEF y, z
    <3> QED
      BY <1>2, <3>2
  <2>2. CASE c < p
    <3> DEFINE w == 2 ^ (k - 1)
    <3>1. k - 1 \in Nat /\ j <= k - 1 /\ k > 0
      BY <1>1, <1>6, <1>11
    <3>2. w \in Nat \ {0} /\ x = 2 * w /\ y <= w
      BY <1>1, <1>6, <3>1, HalfAWord, PowersGrow DEF x, y
    <3> HIDE DEF w
    <3>3. c * y <= c * w
      BY <1>6, <3>2
    <3>4. (c + 1) * w <= p * w
      BY <1>2, <1>6, <2>2, <3>2
    <3>5. (c + 1) * w = c * w + w /\ c * w \in Nat /\ c * y \in Nat /\ p * w \in Nat
      BY <1>2, <1>6, <3>2
    <3>6. c * y + 1 <= p * w
      BY <3>2, <3>3, <3>4, <3>5
    <3>7. c * y * u < p * w * u
      <4> DEFINE l == c * y
                 r == p * w
      <4>1. l \in Nat /\ r \in Nat /\ l + 1 <= r
        BY <3>5, <3>6
      <4> HIDE DEF l, r
      <4>2. (l + 1) * u <= r * u
        BY <1>1, <4>1
      <4>3. (l + 1) * u = l * u + u /\ l * u \in Nat /\ r * u \in Nat
        BY <1>1, <4>1
      <4>4. l * u < r * u
        BY <1>1, <4>2, <4>3
      <4> QED
        BY <4>4 DEF l, r
    <3>8. p * w * u = h * s
      BY <1>1, <1>2, <3>2
    <3> QED
      BY <1>7, <3>1, <3>7, <3>8
  <2> QED
    BY <1>2, <1>5, <1>6, <2>1, <2>2
<1>12. Placed
  BY <1>1, <1>6, <1>9, <1>11
<1> QED
  BY <1>8, <1>10, <1>12 DEF h, s, u, x

(* An even multiple of a step is a multiple of the next one.               *)
LEMMA EvenPlace ==
  ASSUME NEW f \in FloatTypes, NEW k \in 0 .. SCALE[f], NEW c \in 0 .. 2 ^ PRECISION[f],
         c % 2 = 0
  PROVE  \E i \in 1 .. SCALE[f] + 1, n \in 0 .. 2 ^ PRECISION[f] :
           /\ c * (UNIT[f] * 2 ^ k) = n * 2 ^ i * UNIT[f]
           /\ n < 2 ^ (PRECISION[f] - 1) \/ n = 2 ^ PRECISION[f]
<1> DEFINE w == PRECISION[f]
           p == 2 ^ w
           h == 2 ^ (w - 1)
           u == UNIT[f]
           x == 2 ^ k
           d == c \div 2
<1>1. w \in Nat /\ w > 1 /\ SCALE[f] \in Nat /\ SCALE[f] > 0 /\ u \in Nat \ {0} /\ k \in Nat
  BY FormatAssumption, RangeAssumption
<1>2. h \in Nat \ {0} /\ p = 2 * h /\ x \in Nat \ {0}
  BY <1>1, HalfAWord, PowerOfNat
<1>3. 2 ^ (k + 1) = 2 * x
  BY <1>1, PowerOfNext
<1>4. c \in Nat /\ c <= p
  BY <1>2
<1>5. c = 2 * d /\ d \in Nat
  BY <1>4
<1> HIDE DEF p, h, x, d
<1>6. d <= h
  BY <1>2, <1>4, <1>5
<1>7. CASE d < h
  <2>1. c * (u * x) = d * (2 * x) * u
    BY <1>1, <1>2, <1>5
  <2>2. k + 1 \in 1 .. SCALE[f] + 1 /\ d \in 0 .. p
    BY <1>1, <1>2, <1>5, <1>7
  <2> QED
    BY <1>3, <1>7, <2>1, <2>2 DEF x, p, h
<1>8. CASE d = h /\ k > 0
  <2>1. c = p
    BY <1>2, <1>5, <1>8
  <2>2. c * (u * x) = p * x * u
    BY <1>1, <1>2, <2>1
  <2>3. k \in 1 .. SCALE[f] + 1 /\ p \in 0 .. p
    BY <1>1, <1>2, <1>8
  <2> QED
    BY <2>2, <2>3 DEF x, p
<1>9. CASE d = h /\ k = 0
  <2> DEFINE n == 2 ^ (w - 2)
  <2>1. w - 2 \in Nat /\ w - 1 = (w - 2) + 1 /\ w - 1 \in Nat
    BY <1>1
  <2>2. n \in Nat \ {0}
    BY <2>1, PowerOfNat
  <2>3. h = 2 * n
    BY <2>1, PowerOfNext DEF h
  <2>4. 2 ^ 2 = 4
    <3>1. 2 ^ 1 = 2 /\ 2 = 1 + 1 /\ 1 \in Nat
      <4>1. 2 ^ 0 = 1 /\ 0 \in Nat /\ 0 + 1 = 1
        OBVIOUS
      <4>2. 2 ^ (0 + 1) = 2 * 2 ^ 0
        BY <4>1, PowerOfNext
      <4> QED
        BY <4>1, <4>2
    <3>2. 2 ^ (1 + 1) = 2 * 2 ^ 1
      BY <3>1, PowerOfNext
    <3> QED
      BY <3>1, <3>2
  <2>5. x = 1
    BY <1>9 DEF x
  <2> HIDE DEF n
  <2>6. c * (u * x) = n * 4 * u
    BY <1>1, <1>2, <1>5, <1>9, <2>2, <2>3, <2>5
  <2>7. 2 \in 1 .. SCALE[f] + 1 /\ n \in 0 .. p /\ n < h
    BY <1>1, <1>2, <2>2, <2>3
  <2> QED
    BY <2>4, <2>6, <2>7 DEF x, p, h
<1> QED
  BY <1>1, <1>2, <1>5, <1>6, <1>7, <1>8, <1>9

(* What is rounded becomes the nearest number of the format.  The step is  *)
(* the least that leaves no more than the digits of the significand, and   *)
(* numbers that are no multiple of it are below half of these digits, so   *)
(* further away than that multiple is.                                     *)
LEMMA RoundedIsNearest ==
  ASSUME NEW f \in FloatTypes, NEW m \in Nat
  PROVE  NearestTo(f, m, Rounded(f, m))
<1> DEFINE p == 2 ^ PRECISION[f]
           h == 2 ^ (PRECISION[f] - 1)
           u == UNIT[f]
           z == 2 ^ SCALE[f]
           T == TooLarge(f)
           r == Rounded(f, m)
           Distance(q) == Magnitude(q - m)
           Even(q) == \E i \in 1 .. SCALE[f] + 1, n \in 0 .. p :
                        q = n * 2 ^ i * u /\ (n < h \/ n = p)
           Best(v) == \A q \in Magnitudes(f) \cup {T} :
             q = v \/ Distance(v) < Distance(q) \/ (Distance(v) = Distance(q) /\ Even(v))
           place == IF r = Infinity THEN T ELSE r
<1>1. PICK k \in 0 .. SCALE[f] + 1 :
        /\ Step(f, m) = u * 2 ^ k
        /\ m < p * 2 ^ k * u \/ k = SCALE[f] + 1
        /\ \A l \in 0 .. k - 1 : m >= p * 2 ^ l * u
  BY StepOfNumber
<1> DEFINE x == 2 ^ k
           s == u * x
           d == m \div s
           t == m % s
           up == 2 * t > s \/ (2 * t = s /\ d % 2 = 1)
           c == IF up THEN d + 1 ELSE d
<1>2. /\ PRECISION[f] \in Nat \ {0} /\ SCALE[f] \in Nat /\ u \in Nat \ {0} /\ k \in Nat
      /\ h \in Nat \ {0} /\ p = 2 * h /\ z \in Nat \ {0} /\ x \in Nat \ {0}
  <2>1. PRECISION[f] \in Nat \ {0} /\ SCALE[f] \in Nat /\ u \in Nat \ {0} /\ k \in Nat
    BY FormatAssumption
  <2> QED
    BY <2>1, HalfAWord, PowerOfNat
<1>3. s \in Nat \ {0}
  <2> HIDE DEF u, x
  <2> QED
    BY <1>2
<1>4. d \in Nat /\ t \in 0 .. s - 1 /\ m = s * d + t /\ c \in Nat
  <2> HIDE DEF s
  <2>1. 0 \in Int
    OBVIOUS
  <2> QED
    BY <1>3, <2>1, NearestMultiple
<1>5. \A e \in Int : e # c => \/ Distance(c * s) < Distance(e * s)
                              \/ Distance(c * s) = Distance(e * s) /\ c % 2 = 0
  <2> TAKE e \in Int
  <2> HIDE DEF s
  <2> QED
    BY <1>3, NearestMultiple
<1>6. r = IF c * s >= T THEN Infinity ELSE c * s
  <2>1. r = IF (IF up THEN d * s + s ELSE d * s) >= T THEN Infinity
            ELSE IF up THEN d * s + s ELSE d * s
    BY <1>1 DEF Rounded
  <2> HIDE DEF s, d, up, T, r
  <2>2. (d + 1) * s = d * s + s
    BY <1>3, <1>4
  <2> QED
    BY <2>1, <2>2
<1>7. T \in Nat /\ T < Infinity
  <2>1. \A g \in FloatTypes : TooLarge(g) \in Nat \ {0}
    BY MagnitudesAreNumbers
  <2>2. f = "f32" \/ f = "f64"
    BY DEF FloatTypes
  <2>3. TooLarge("f32") \in Nat \ {0} /\ TooLarge("f64") \in Nat \ {0}
    BY <2>1 DEF FloatTypes
  <2> QED
    BY <2>2, <2>3 DEF Infinity
<1>8. \A q \in Magnitudes(f) \cup {T} :
        /\ q \in Nat /\ q <= T
        /\ (\E e \in Nat : q = e * s) \/ (k > 0 /\ q < h * s)
        /\ k = SCALE[f] + 1 => T = h * s
  BY PlacesOfNumbers
<1>9. T \in Magnitudes(f) \cup {T}
  OBVIOUS
<1>10. k > 0 => m >= h * s
  <2>1. ASSUME k > 0 PROVE m >= h * s
    <3> DEFINE w == 2 ^ (k - 1)
    <3>1. k - 1 \in 0 .. k - 1 /\ k \in Nat \ {0}
      BY <1>2, <2>1
    <3>2. m >= p * w * u
      BY <1>1, <3>1
    <3>3. w \in Nat \ {0} /\ x = 2 * w
      BY <3>1, HalfAWord
    <3> HIDE DEF w, p, h, u, x
    <3>4. p * w * u = h * (u * x)
      BY <1>2, <3>3
    <3> QED
      BY <3>2, <3>4
  <2> QED
    BY <2>1
<1>11. NearestTo(f, m, r) <=> Best(place)
  BY DEF NearestTo
<1>12. k = SCALE[f] + 1 => T = h * s
  BY <1>8, <1>9
<1>13. k <= SCALE[f] => /\ m < p * s
                        /\ p * s <= T
  <2>1. ASSUME k <= SCALE[f] PROVE m < p * s
    <3>1. m < p * x * u
      BY <1>1, <1>2, <2>1
    <3> HIDE DEF p, x, u
    <3>2. p * x * u = p * (u * x)
      BY <1>2
    <3> QED
      BY <3>1, <3>2
  <2>2. ASSUME k <= SCALE[f] PROVE p * s <= T
    <3>1. x <= z
      BY <1>2, <2>2, PowersGrow
    <3>2. T = p * z * u
      BY DEF TooLarge
    <3> HIDE DEF p, x, u, z, T
    <3>3. p * x <= p * z
      BY <1>2, <3>1
    <3> DEFINE l == p * x
               n == p * z
    <3>4. l \in Nat /\ n \in Nat /\ l <= n
      BY <1>2, <3>3
    <3> HIDE DEF l, n
    <3>5. l * u <= n * u
      BY <1>2, <3>4
    <3>6. p * x * u = p * (u * x)
      BY <1>2
    <3> QED
      BY <3>2, <3>5, <3>6 DEF l, n
  <2> QED
    BY <2>1, <2>2
<1>14. k <= SCALE[f] /\ c \in 0 .. p /\ c % 2 = 0 => Even(c * s)
  BY EvenPlace
<1> HIDE DEF p, h, u, z, T, r, Even, x, s, d, t, up, c
<1>15. d * s \in Nat /\ c * s \in Nat /\ h * s \in Nat /\ p * s \in Nat /\ m = d * s + t
  BY <1>2, <1>3, <1>4
<1>16. ASSUME k = SCALE[f] + 1 PROVE Best(place)
  <2>1. k > 0 /\ T = h * s /\ m >= T
    BY <1>2, <1>10, <1>12, <1>16
  <2>2. h * s < (d + 1) * s
    <3>1. (d + 1) * s = d * s + s
      BY <1>3, <1>4
    <3> QED
      BY <1>3, <1>4, <1>15, <2>1, <3>1
  <2>3. h <= d
    <3>1. h >= d + 1 => h * s >= (d + 1) * s
      BY <1>2, <1>3, <1>4
    <3>2. (d + 1) * s \in Nat
      BY <1>3, <1>4
    <3> QED
      BY <1>2, <1>4, <1>15, <2>2, <3>1, <3>2
  <2>4. h <= c
    BY <1>2, <1>4, <2>3 DEF c
  <2>5. h * s <= c * s
    BY <1>2, <1>3, <1>4, <2>4
  <2>6. place = T
    BY <1>6, <2>1, <2>5
  <2> HIDE DEF place
  <2>7. \A q \in Magnitudes(f) \cup {T} : q = T \/ Distance(T) < Distance(q)
    <3> SUFFICES ASSUME NEW q \in Magnitudes(f) \cup {T}, q # T
                 PROVE  Distance(T) < Distance(q)
      OBVIOUS
    <3>1. q \in Nat /\ q < T
      BY <1>7, <1>8
    <3> QED
      BY <1>7, <2>1, <3>1 DEF Magnitude
  <2> QED
    BY <2>6, <2>7
<1>17. ASSUME k <= SCALE[f] PROVE Best(place)
  <2>1. m < p * s /\ p * s <= T
    BY <1>13, <1>17
  <2>2. d < p
    <3>1. d >= p => d * s >= p * s
      BY <1>2, <1>3, <1>4
    <3> QED
      BY <1>2, <1>4, <1>15, <2>1, <3>1
  <2>3. c \in 0 .. p
    BY <1>2, <1>4, <2>2 DEF c
  <2>4. c * s <= p * s
    BY <1>2, <1>3, <1>4, <2>3
  <2>5. place = c * s
    BY <1>6, <1>7, <1>15, <2>1, <2>4
  <2> HIDE DEF place
  <2>6. c % 2 = 0 => Even(c * s)
    BY <1>14, <1>17, <2>3
  <2>7. \A e \in Int : e # c => \/ Distance(c * s) < Distance(e * s)
                                \/ Distance(c * s) = Distance(e * s) /\ Even(c * s)
    BY <1>5, <2>6
  <2> SUFFICES ASSUME NEW q \in Magnitudes(f) \cup {T}
               PROVE  \/ q = c * s
                      \/ Distance(c * s) < Distance(q)
                      \/ Distance(c * s) = Distance(q) /\ Even(c * s)
    BY <2>5
  <2>8. CASE \E e \in Nat : q = e * s
    <3>1. PICK e \in Nat : q = e * s
      BY <2>8
    <3>2. CASE e = c
      BY <3>1, <3>2
    <3>3. CASE e # c
      <4>1. e \in Int
        OBVIOUS
      <4> QED
        BY <2>7, <3>1, <3>3, <4>1, Zenon
    <3> QED
      BY <3>2, <3>3
  <2>9. CASE k > 0 /\ q < h * s
    <3>1. q \in Nat /\ m >= h * s
      BY <1>8, <1>10, <2>9
    <3>2. Distance(h * s) < Distance(q)
      BY <1>15, <2>9, <3>1 DEF Magnitude
    <3>3. Distance(c * s) \in Int /\ Distance(h * s) \in Int /\ Distance(q) \in Int
      BY <1>15, <3>1 DEF Magnitude
    <3>4. h = c \/ Distance(c * s) <= Distance(h * s)
      <4>1. h \in Int
        BY <1>2
      <4>2. h # c => \/ Distance(c * s) < Distance(h * s)
                     \/ Distance(c * s) = Distance(h * s)
        BY <2>7, <4>1, Zenon
      <4> HIDE DEF Distance
      <4> QED
        BY <3>3, <4>2
    <3>5. Distance(c * s) < Distance(q)
      <4> HIDE DEF Distance
      <4> QED
        BY <3>2, <3>3, <3>4
    <3> QED
      BY <3>5
  <2> QED
    BY <1>8, <2>8, <2>9
<1>18. k = SCALE[f] + 1 \/ k <= SCALE[f]
  BY <1>2
<1>19. NearestTo(f, m, r)
  BY <1>11, <1>16, <1>17, <1>18
<1> QED
  BY <1>19 DEF r

-----------------------------------------------------------------------------
(***************************************************************************)
(* Conversions.                                                            *)
(***************************************************************************)
LEMMA ConversionIsNearest ==
  ASSUME Convert, type \in Types, a \in Word(BITS[type]), b \in FloatTypes
  PROVE  LET n == IF op = "convert_s" THEN Int2(BITS[type], a) ELSE a IN
         /\ outcome'.value.neg = (n < 0)
         /\ NearestTo(b, ONE * Magnitude(n), outcome'.value.mag)
<1> DEFINE n == IF op = "convert_s" THEN Int2(BITS[type], a) ELSE a
           m == ONE * Magnitude(n)
<1>1. BITS[type] \in Nat \ {0}
  BY BitsAssumption DEF Types
<1>2. Int2(BITS[type], a) = Signed(BITS[type], a) /\ Signed(BITS[type], a) \in Int
  <2>1. 2 ^ (BITS[type] - 1) \in Nat
    BY <1>1, HalfAWord
  <2> QED
    BY <1>1, <2>1, SignedIsChosen
<1>3. MemberRead(op, type, a) = n
  BY <1>2 DEF MemberRead
<1>4. n \in Int
  <2>1. a \in Int
    <3>1. 2 ^ BITS[type] \in Nat
      BY <1>1, PowerOfNat
    <3> QED
      BY <3>1 DEF Word
  <2> QED
    BY <1>2, <2>1
<1> HIDE DEF n
<1>5. m \in Nat
  BY <1>4, FormatAssumption DEF Magnitude
<1>6. outcome' = Value(Float(n < 0, Rounded(b, m)))
  BY <1>3 DEF Convert
<1>7. outcome'.value.neg = (n < 0) /\ outcome'.value.mag = Rounded(b, m)
  BY <1>6 DEF Value, Float
<1> HIDE DEF m
<1>8. NearestTo(b, m, outcome'.value.mag)
  BY <1>5, <1>7, RoundedIsNearest
<1> QED
  BY <1>7, <1>8 DEF n, m

LEMMA FormatIsNearest ==
  ASSUME Reformat, type \in FloatTypes, b \in FloatTypes, a \in Floats(type)
  PROVE  /\ outcome'.value.neg = a.neg
         /\ IF isnan(a) \/ a.mag = Infinity THEN outcome'.value.mag = a.mag
            ELSE NearestTo(b, a.mag, outcome'.value.mag)
<1>1. CASE isnan(a) \/ a.mag = Infinity
  <2>1. outcome' = Value(a)
    BY <1>1 DEF Reformat, isnan
  <2> QED
    BY <1>1, <2>1 DEF Value
<1>2. CASE ~(isnan(a) \/ a.mag = Infinity)
  <2>1. a.mag \in Magnitudes(type) /\ a = [neg |-> a.neg, mag |-> a.mag]
    BY <1>2 DEF Floats, NaN, Float, isnan
  <2>2. a.mag \in Nat
    BY <2>1, MagnitudesAreNumbers
  <2>3. outcome' = Value([a EXCEPT !.mag = Rounded(b, a.mag)])
    BY <1>2 DEF Reformat, isnan
  <2>4. outcome'.value.neg = a.neg /\ outcome'.value.mag = Rounded(b, a.mag)
    BY <2>1, <2>3 DEF Value
  <2> QED
    BY <1>2, <2>2, <2>4, RoundedIsNearest
<1> QED
  BY <1>1, <1>2

(* Integers and the numbers of the other format become the nearest number, *)
(* for every width, precision and unit: the operands of convert, demote    *)
(* and promote.                                                            *)
THEOREM ConversionsAreNearest == NumericSpec => []ConversionsAgree
<1> DEFINE I == FloatsInRange /\ ConversionsAgree
<1>1. NumericInit => I
  BY FloatsInRangeInit DEF NumericInit, Init, FloatInit, ConversionsAgree, Pending
<1>2. I /\ [Next \/ FloatNext]_vars => I'
  <2> SUFFICES ASSUME FloatsInRange, ConversionsAgree, [Next \/ FloatNext]_vars
               PROVE  ConversionsAgree'
    BY FloatsInRangeNext
  <2>1. CASE UNCHANGED vars
    BY <2>1 DEF vars, ConversionsAgree
  <2>2. CASE Next \/ FloatNext
    <3>1. UNCHANGED <<op, type, a, b>>
      BY <2>2 DEF Next, FloatNext
    <3>2. CASE op \in Conversions
      <4>1. Convert
        BY <2>2, <3>2 DEF Next, Compare, Arith, Count, Extend, Relations, Binary, Divisions,
           Counts, FloatNext, OP_TRUNC, OP_TRUNC_SAT, Reformat, Negate, Abs, MinMax, CopySign,
           Conversions, Formats
      <4>2. type \in Types /\ a \in Word(BITS[type]) /\ b \in FloatTypes /\ op \notin Formats
        BY <3>2 DEF FloatsInRange, Conversions, Formats
      <4> QED
        BY <3>1, <4>1, <4>2, ConversionIsNearest DEF ConversionsAgree
    <3>3. CASE op \in Formats
      <4>1. Reformat
        BY <2>2, <3>3 DEF Next, Compare, Arith, Count, Extend, Relations, Binary, Divisions,
           Counts, FloatNext, OP_TRUNC, OP_TRUNC_SAT, Convert, Negate, Abs, MinMax, CopySign,
           Conversions, Formats
      <4>2. type \in FloatTypes /\ b \in FloatTypes /\ a \in Floats(type) /\ op \notin Conversions
        BY <3>3 DEF FloatsInRange, Conversions, Formats
      <4> QED
        BY <3>1, <4>1, <4>2, FormatIsNearest DEF ConversionsAgree
    <3>4. CASE op \notin Conversions \cup Formats
      BY <3>1, <3>4 DEF ConversionsAgree
    <3> QED
      BY <3>2, <3>3, <3>4
  <2> QED
    BY <2>1, <2>2
<1>3. I => ConversionsAgree
  OBVIOUS
<1> QED
  BY <1>1, <1>2, <1>3, PTL DEF NumericSpec

=============================================================================
