------------------------------- MODULE Numbers -------------------------------
(***************************************************************************)
(* The integer instructions of src/source/interpreter.c as functions of    *)
(* their operands, which are unsigned numbers of BITS[type] bits.  The C   *)
(* code works on uint32_t and uint64_t and casts where an instruction is   *)
(* about signed numbers.                                                   *)
(***************************************************************************)
EXTENDS Integers, FiniteSets

CONSTANT BITS   \* value type -> its width, 32 and 64 in the code

ASSUME BitsAssumption == BITS \in [{"i32", "i64"} -> Nat \ {0}]

(* (int32_t) a or (int64_t) a, and back.                                   *)
Signed(w, a) == IF a < 2 ^ (w - 1) THEN a ELSE a - 2 ^ w
UnsignedUnwrapped(w, n) == n          \* fault: more bits than the type has
Unsigned(w, n) == n % 2 ^ w
MinusOne(w) == 2 ^ w - 1

Bit(a, i) == (a \div 2 ^ i) % 2
Bits(w, a) == {i \in 0 .. w - 1 : Bit(a, i) = 1}
FromBits(w, bits) == CHOOSE a \in 0 .. 2 ^ w - 1 : Bits(w, a) = bits

(***************************************************************************)
(* Comparisons.  The casts in the _s cases are to unsigned types too.      *)
(***************************************************************************)
Related(rel, a, b) ==
  CASE rel = "eq" -> a = b
    [] rel = "ne" -> a # b
    [] rel \in {"lt_s", "lt_u"} -> a < b
    [] rel \in {"gt_s", "gt_u"} -> a > b
    [] rel \in {"le_s", "le_u"} -> a <= b
    [] OTHER -> a >= b

(***************************************************************************)
(* Division.  C truncates towards zero, TLA+ towards minus infinity.       *)
(***************************************************************************)
Magnitude(n) == IF n < 0 THEN -n ELSE n
Quotient(n, d) ==
  LET q == Magnitude(n) \div Magnitude(d) IN IF (n < 0) = (d < 0) THEN q ELSE -q
Remainder(n, d) == n - d * Quotient(n, d)

Divisions == {"div_s", "div_u", "rem_s", "rem_u"}
Binary == Divisions \cup {"add", "sub", "mul", "and", "or", "xor",
                          "shl", "shr_s", "shr_u", "rotl", "rotr"}
Counts == {"clz", "ctz", "popcnt"}

(* Both types are compared with the constant 0x80000000.                   *)
OverflowTest(type, a, b) == a = 2 ^ (BITS["i32"] - 1) /\ b = MinusOne(BITS[type])

IntegerTrap(op, type, a, b) ==
  CASE op \in Divisions /\ b = 0 -> "integer_divide_by_zero"
    [] op = "div_s" /\ b # 0 /\ OverflowTest(type, a, b) -> "integer_overflow"
    [] OTHER -> "none"

(* The least number by -1, when the test above has not seen it: undefined  *)
(* in C; some processors trap, which kills the program, others wrap.       *)
DivisionFaults(op, type, a, b) ==
  /\ op \in {"div_s", "rem_s"}
  /\ a = 2 ^ (BITS[type] - 1) /\ b = MinusOne(BITS[type])
  /\ ~OverflowTest(type, a, b)

(***************************************************************************)
(* Shifts and rotations.  C leaves a shift by the width or more undefined; *)
(* the count is not known to the compiler, and the shift instructions of   *)
(* the machines it compiles for use the count modulo the width.            *)
(***************************************************************************)
ShiftLeft(w, a, n) == Unsigned(w, a * 2 ^ (n % w))
ShiftRight(w, a, n) == a \div 2 ^ (n % w)
ShiftRightLogical(w, a, n) == ShiftRight(w, a, n)   \* fault: no cast to int32_t
ShiftRightSigned(w, a, n) == Unsigned(w, Signed(w, a) \div 2 ^ (n % w))

Or(w, a, b) == FromBits(w, Bits(w, a) \cup Bits(w, b))
And(w, a, b) == FromBits(w, Bits(w, a) \cap Bits(w, b))
Xor(w, a, b) == Or(w, a, b) - And(w, a, b)

(* rotl32 and the others take the count as an unsigned int.                *)
RotateCount(w, b) == (b % 2 ^ BITS["i32"]) % w
RotateLeft(w, a, b) ==
  LET c == RotateCount(w, b) IN Or(w, ShiftLeft(w, a, c), ShiftRight(w, a, -c))
RotateRight(w, a, b) ==
  LET c == RotateCount(w, b) IN Or(w, ShiftRight(w, a, c), ShiftLeft(w, a, -c))

(***************************************************************************)
(* The value of an instruction that does not trap.                         *)
(***************************************************************************)
Computed(op, type, a, b) ==
  LET w == BITS[type] IN
  CASE op = "add" -> Unsigned(w, a + b)
    [] op = "sub" -> Unsigned(w, a - b)
    [] op = "mul" -> Unsigned(w, a * b)
    [] op = "div_s" -> Unsigned(w, Quotient(Signed(w, a), Signed(w, b)))
    [] op = "div_u" -> a \div b
    [] op = "rem_s" /\ OverflowTest(type, a, b) -> 0
    [] op = "rem_s" /\ ~OverflowTest(type, a, b) ->
         Unsigned(w, Remainder(Signed(w, a), Signed(w, b)))
    [] op = "rem_u" -> a % b
    [] op = "and" -> And(w, a, b)
    [] op = "or" -> Or(w, a, b)
    [] op = "xor" -> Xor(w, a, b)
    [] op = "shl" -> ShiftLeft(w, a, b)
    [] op = "shr_s" -> ShiftRightSigned(w, a, b)
    [] op = "shr_u" -> ShiftRight(w, a, b)
    [] op = "rotl" -> RotateLeft(w, a, b)
    [] op = "rotr" -> RotateRight(w, a, b)

(* The builtins behind clz, ctz and popcnt; none is asked about zero.      *)
Counted(op, type, a) ==
  LET w == BITS[type]
      ones == Bits(w, a) IN
  CASE op = "popcnt" -> Cardinality(ones)
    [] op # "popcnt" /\ a = 0 -> w
    [] op = "clz" /\ a # 0 -> w - 1 - CHOOSE i \in ones : \A j \in ones : j <= i
    [] op = "ctz" /\ a # 0 -> CHOOSE i \in ones : \A j \in ones : i <= j

(***************************************************************************)
(* Conversions between widths: a cast to n bits, then back.                *)
(***************************************************************************)
SignExtended(n, w, a) == Unsigned(w, Signed(n, Unsigned(n, a)))

=============================================================================
