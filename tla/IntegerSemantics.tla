-------------------------- MODULE IntegerSemantics ---------------------------
(***************************************************************************)
(* One integer instruction of interpret(), from its operands to its        *)
(* outcome, against what WebAssembly defines for it.                       *)
(***************************************************************************)
EXTENDS Numbers

CONSTANTS
  Values,    \* value type -> the operands to try
  Narrow     \* widths to extend from, 8, 16 and 32 in the code

Relations == {"eq", "ne", "lt_s", "lt_u", "gt_s", "gt_u", "le_s", "le_u", "ge_s", "ge_u"}
Types == {"i32", "i64"}
IntegerOps == Relations \cup Binary \cup Counts \cup {"extend"}

ASSUME OperandAssumption ==
  /\ \A t \in Types : Values[t] \subseteq 0 .. 2 ^ BITS[t] - 1
  /\ Narrow \subseteq Nat \ {0}

(* 32 and 64 divide 2^32: a count keeps its remainder as an unsigned int.  *)
ASSUME RotationAssumption == \A t \in Types : 2 ^ BITS["i32"] % BITS[t] = 0

VARIABLES op, type, a, b, outcome
vars == <<op, type, a, b, outcome>>

Pending == [trap |-> "pending", value |-> 0]
Value(v) == [trap |-> "none", value |-> v]
Trapped(message) == [trap |-> message, value |-> 0]

(* For an extension b is the width it starts from.                         *)
Second ==
  CASE op = "extend" -> {n \in Narrow : n < BITS[type]}
    [] op \in Counts -> {0}
    [] OTHER -> Values[type]

Init ==
  /\ type \in Types
  /\ op \in IntegerOps
  /\ a \in Values[type]
  /\ b \in Second
  /\ outcome = Pending

Compare ==
  /\ op \in Relations
  /\ outcome' = Value(IF Related(op, a, b) THEN 1 ELSE 0)

Arith ==
  /\ op \in Binary
  /\ \/ /\ IntegerTrap(op, type, a, b) # "none"
        /\ outcome' = Trapped(IntegerTrap(op, type, a, b))
     \/ /\ IntegerTrap(op, type, a, b) = "none"
        /\ outcome' = Value(Computed(op, type, a, b))
     \/ DivisionFaults(op, type, a, b) /\ outcome' = Trapped("killed")

Count == op \in Counts /\ outcome' = Value(Counted(op, type, a))

Extend == op = "extend" /\ outcome' = Value(SignExtended(b, BITS[type], a))

Next ==
  /\ outcome.trap = "pending"
  /\ Compare \/ Arith \/ Count \/ Extend
  /\ UNCHANGED <<op, type, a, b>>

Spec == Init /\ [][Next]_vars

-----------------------------------------------------------------------------
(***************************************************************************)
(* WebAssembly's own definitions: signed relations and divisions on two's  *)
(* complement integers, everything else on bits.                           *)
(***************************************************************************)
Int2(w, v) == CHOOSE n \in -(2 ^ (w - 1)) .. 2 ^ (w - 1) - 1 : (n - v) % 2 ^ w = 0
OfBits(w, bit(_)) == CHOOSE v \in 0 .. 2 ^ w - 1 : \A i \in 0 .. w - 1 : Bit(v, i) = bit(i)

Order(rel, x, y) ==
  CASE rel \in {"lt_s", "lt_u"} -> x < y
    [] rel \in {"gt_s", "gt_u"} -> y < x
    [] rel \in {"le_s", "le_u"} -> ~(y < x)
    [] rel \in {"ge_s", "ge_u"} -> ~(x < y)

SignedRelations == {"lt_s", "gt_s", "le_s", "ge_s"}

DefinedRelation(rel, w, x, y) ==
  CASE rel = "eq" -> \A i \in 0 .. w - 1 : Bit(x, i) = Bit(y, i)
    [] rel = "ne" -> \E i \in 0 .. w - 1 : Bit(x, i) # Bit(y, i)
    [] rel \in SignedRelations -> Order(rel, Int2(w, x), Int2(w, y))
    [] OTHER -> Order(rel, x, y)

(* The quotient is the integer nearest to x / y on the way to zero.        *)
Nearest(x, y) == CHOOSE q \in -Magnitude(x) .. Magnitude(x) :
  /\ Magnitude(q * y) <= Magnitude(x)
  /\ (q = 0 \/ ((q > 0) <=> ((x > 0) <=> (y > 0))))
  /\ Magnitude(x) - Magnitude(q * y) < Magnitude(y)

DefinedDivision(div, w, x, y) ==
  LET signed == div \in {"div_s", "rem_s"}
      m == IF signed THEN Int2(w, x) ELSE x
      n == IF signed THEN Int2(w, y) ELSE y IN
  CASE y = 0 -> Trapped("integer_divide_by_zero")
    [] y # 0 /\ div = "div_s" /\ Nearest(m, n) = 2 ^ (w - 1) -> Trapped("integer_overflow")
    [] y # 0 /\ div \in {"rem_s", "rem_u"} -> Value((m - n * Nearest(m, n)) % 2 ^ w)
    [] OTHER -> Value(Nearest(m, n) % 2 ^ w)

DefinedBinary(bin, w, x, y) ==
  LET k == y % w IN
  CASE bin = "add" -> (x + y) % 2 ^ w
    [] bin = "sub" -> CHOOSE v \in 0 .. 2 ^ w - 1 : (v + y) % 2 ^ w = x
    [] bin = "mul" -> (x * y) % 2 ^ w
    [] bin = "and" -> OfBits(w, LAMBDA i : Bit(x, i) * Bit(y, i))
    [] bin = "or" -> OfBits(w, LAMBDA i : IF Bit(x, i) + Bit(y, i) = 0 THEN 0 ELSE 1)
    [] bin = "xor" -> OfBits(w, LAMBDA i : (Bit(x, i) + Bit(y, i)) % 2)
    [] bin = "shl" -> OfBits(w, LAMBDA i : IF i < k THEN 0 ELSE Bit(x, i - k))
    [] bin = "shr_u" -> OfBits(w, LAMBDA i : IF i + k < w THEN Bit(x, i + k) ELSE 0)
    [] bin = "shr_s" -> OfBits(w, LAMBDA i : IF i + k < w THEN Bit(x, i + k) ELSE Bit(x, w - 1))
    [] bin = "rotl" -> OfBits(w, LAMBDA i : Bit(x, (i - k) % w))
    [] bin = "rotr" -> OfBits(w, LAMBDA i : Bit(x, (i + k) % w))

DefinedCount(count, w, x) ==
  CASE count = "clz" -> CHOOSE n \in 0 .. w : x < 2 ^ (w - n) /\ (n < w => x >= 2 ^ (w - n - 1))
    [] count = "ctz" -> CHOOSE n \in 0 .. w : x % 2 ^ n = 0 /\ (n < w => Bit(x, n) = 1)
    [] count = "popcnt" -> Cardinality({i \in 0 .. w - 1 : Bit(x, i) = 1})

Defined ==
  LET w == BITS[type] IN
  CASE op \in Relations -> Value(IF DefinedRelation(op, w, a, b) THEN 1 ELSE 0)
    [] op \in Divisions -> DefinedDivision(op, w, a, b)
    [] op \in Binary \ Divisions -> Value(DefinedBinary(op, w, a, b))
    [] op \in Counts -> Value(DefinedCount(op, w, a))
    [] op = "extend" -> Value(OfBits(w, LAMBDA i : Bit(a, IF i < b THEN i ELSE b - 1)))

-----------------------------------------------------------------------------
(* Outcomes are a number of the type or the name of a trap.                *)
TypeOK ==
  op \in IntegerOps =>
  /\ outcome.trap \in {"pending", "none", "killed", "integer_divide_by_zero", "integer_overflow"}
  /\ outcome.value \in 0 .. 2 ^ BITS[type] - 1

(* The operands on which interpret() goes its own way: the test for an     *)
(* overflow compares an i64 with the least i32.                            *)
MisjudgedOverflow ==
  /\ type = "i64" /\ op \in {"div_s", "rem_s"}
  /\ b = MinusOne(BITS["i64"])
  /\ a \in {2 ^ (BITS["i32"] - 1), 2 ^ (BITS["i64"] - 1)}

(* Apart from the signed relations and that division, every integer        *)
(* instruction has the outcome WebAssembly defines, traps included.        *)
IntegersAgree ==
  op \in IntegerOps \ SignedRelations /\ outcome # Pending /\ ~MisjudgedOverflow => outcome = Defined

(* i32.lt_s and the others compare signed numbers                          *)
(* (res/spectest/i32/i32.json:268).                                        *)
SignedRelationsAgree == op \in SignedRelations /\ outcome # Pending => outcome = Defined

=============================================================================
