---------------------------- MODULE FloatSemantics ----------------------------
(***************************************************************************)
(* The instructions on f32 and f64 in which wasmc does more than pass its  *)
(* operands to an operator of C: truncations to integers with the bounds   *)
(* of utils.h, conversions, minimum, maximum and signs.  They are steps of *)
(* the machine of IntegerSemantics, next to those on integers.             *)
(*                                                                         *)
(* A format has numbers s * 2^k units with s < 2^PRECISION and k <= SCALE, *)
(* the subnormal ones included.  Magnitudes are counted in the unit of the *)
(* finer format, of which ONE make 1.                                      *)
(***************************************************************************)
EXTENDS IntegerSemantics

CONSTANTS
  PRECISION,   \* float type -> the bits of its significand, 24 and 53 in C
  SCALE,       \* float type -> the greatest exponent of its unit
  UNIT,        \* float type -> the distance of its least numbers
  ONE,
  Operands     \* float type -> the numbers that two-operand instructions try

FloatTypes == {"f32", "f64"}

ASSUME FormatAssumption ==
  /\ PRECISION \in [FloatTypes -> Nat \ {0}] /\ SCALE \in [FloatTypes -> Nat]
  /\ UNIT \in [FloatTypes -> Nat \ {0}] /\ ONE \in Nat \ {0}

Magnitudes(f) == {s * 2 ^ k * UNIT[f] : s \in 0 .. 2 ^ PRECISION[f] - 1, k \in 0 .. SCALE[f]}
TooLarge(f) == 2 ^ PRECISION[f] * 2 ^ SCALE[f] * UNIT[f]
Infinity == TooLarge("f32") + TooLarge("f64")

Float(neg, mag) == [neg |-> neg, mag |-> mag]
NaN == Float(FALSE, -1)
Floats(f) == {NaN} \cup [neg : BOOLEAN, mag : Magnitudes(f) \cup {Infinity}]

isnan(x) == x.mag = -1
Real(x) == IF x.neg THEN -x.mag ELSE x.mag

(* Both formats have halves and fractions of 1, and 1 itself a power of    *)
(* two times their unit; some numbers are greater than all integers.       *)
ASSUME RangeAssumption ==
  /\ \A f \in FloatTypes : PRECISION[f] > 1 /\ SCALE[f] > 0
  /\ \A f \in FloatTypes : \E j \in 0 .. ONE : ONE = 2 ^ j * UNIT[f]
  /\ \A t \in Types : 2 ^ BITS[t] * ONE <= Infinity

ASSUME FloatOperandAssumption == \A f \in FloatTypes : Operands[f] \subseteq Floats(f)

Truncations == {"trunc_s", "trunc_u", "trunc_sat_s", "trunc_sat_u"}
Conversions == {"convert_s", "convert_u"}
Formats == {"demote", "promote"}
Unary == {"neg", "abs"}
Pairwise == {"min", "max", "copysign"}

(* For a truncation or a conversion b is the type of the result.  abs is   *)
(* that of f32; for f64 it writes to the wrong member of the union.        *)
FloatInit ==
  /\ \/ op \in Truncations /\ type \in FloatTypes /\ a \in Floats(type) /\ b \in Types
     \/ op \in Conversions /\ type \in Types /\ a \in Values[type] /\ b \in FloatTypes
     \/ op = "demote" /\ type = "f64" /\ a \in Floats(type) /\ b = "f32"
     \/ op = "promote" /\ type = "f32" /\ a \in Floats(type) /\ b = "f64"
     \/ op = "neg" /\ type \in FloatTypes /\ a \in Floats(type) /\ b = type
     \/ op = "abs" /\ type = "f32" /\ a \in Floats(type) /\ b = type
     \/ op \in Pairwise /\ type \in FloatTypes /\ a \in Operands[type] /\ b \in Operands[type]
  /\ outcome = Pending

(***************************************************************************)
(* What C does: a cast to an integer drops the fraction, one to a float    *)
(* rounds to the nearest number, to the even one of two, or to infinity;   *)
(* fmax and fmin ignore a NaN and may give either of two zeros.            *)
(***************************************************************************)
Cast(x) == IF x.neg THEN -(x.mag \div ONE) ELSE x.mag \div ONE

Step(f, mag) ==
  UNIT[f] * 2 ^ (CHOOSE k \in 0 .. SCALE[f] + 1 :
                   /\ mag < 2 ^ PRECISION[f] * 2 ^ k * UNIT[f] \/ k = SCALE[f] + 1
                   /\ \A l \in 0 .. k - 1 : mag >= 2 ^ PRECISION[f] * 2 ^ l * UNIT[f])

Rounded(f, mag) ==
  LET step == Step(f, mag)
      down == (mag \div step) * step
      up == 2 * (mag % step) > step \/ (2 * (mag % step) = step /\ (mag \div step) % 2 = 1)
      nearest == IF up THEN down + step ELSE down
  IN IF nearest >= TooLarge(f) THEN Infinity ELSE nearest

fmax(x, y) ==
  IF isnan(x) THEN {y} ELSE IF isnan(y) \/ Real(x) > Real(y) THEN {x}
  ELSE IF Real(x) < Real(y) THEN {y} ELSE {x, y}
fmin(x, y) ==
  IF isnan(x) THEN {y} ELSE IF isnan(y) \/ Real(x) < Real(y) THEN {x}
  ELSE IF Real(x) > Real(y) THEN {y} ELSE {x, y}

(***************************************************************************)
(* What wasmc makes of it.                                                 *)
(***************************************************************************)
IsSigned(o) == o \in {"trunc_s", "trunc_sat_s"}

RMinAtLeast(o, f, t) ==       \* fault: the least integer itself counts as too small
  ONE * IF IsSigned(o) THEN -(2 ^ (BITS[t] - 1)) ELSE -1

(* The first number of the format whose integer part is too small: -1, one *)
(* below the least integer, or, where numbers are further apart, the next. *)
RMin(o, f, t) ==
  LET w == BITS[t]
      p == PRECISION[f]
  IN ONE * IF IsSigned(o) THEN -(2 ^ (w - 1) + (IF w > p THEN 2 ^ (w - p) ELSE 1)) ELSE -1

RMax(o, t) == ONE * IF IsSigned(o) THEN 2 ^ (BITS[t] - 1) ELSE 2 ^ BITS[t]

IMin(o, t) == IF IsSigned(o) THEN -(2 ^ (BITS[t] - 1)) ELSE 0
IMax(o, t) == RMax(o, t) \div ONE - 1

OP_TRUNC ==
  /\ op \in {"trunc_s", "trunc_u"}
  /\ \/ isnan(a) /\ outcome' = Trapped("invalid_conversion_to_integer")
     \/ /\ ~isnan(a) /\ (Real(a) <= RMin(op, type, b) \/ Real(a) >= RMax(op, b))
        /\ outcome' = Trapped("integer_overflow")
     \/ /\ ~isnan(a) /\ Real(a) > RMin(op, type, b) /\ Real(a) < RMax(op, b)
        /\ outcome' = Value(Unsigned(BITS[b], Cast(a)))

OP_TRUNC_SAT ==
  /\ op \in {"trunc_sat_s", "trunc_sat_u"}
  /\ \/ isnan(a) /\ outcome' = Value(0)
     \/ /\ ~isnan(a) /\ Real(a) <= RMin(op, type, b)
        /\ outcome' = Value(Unsigned(BITS[b], IMin(op, b)))
     \/ /\ ~isnan(a) /\ Real(a) >= RMax(op, b)
        /\ outcome' = Value(Unsigned(BITS[b], IMax(op, b)))
     \/ /\ ~isnan(a) /\ Real(a) > RMin(op, type, b) /\ Real(a) < RMax(op, b)
        /\ outcome' = Value(Unsigned(BITS[b], Cast(a)))

MemberReadSigned(o, t, v) == Signed(BITS[t], v)    \* fault: int32 and int64 for unsigned, too
MemberRead(o, t, v) == IF o = "convert_s" THEN Signed(BITS[t], v) ELSE v

Convert ==
  LET n == MemberRead(op, type, a) IN
  /\ op \in Conversions
  /\ outcome' = Value(Float(n < 0, Rounded(b, ONE * Magnitude(n))))

Reformat ==
  /\ op \in Formats
  /\ outcome' = Value(IF a.mag \in {-1, Infinity} THEN a ELSE [a EXCEPT !.mag = Rounded(b, @)])

Negate == op = "neg" /\ outcome' = Value(IF isnan(a) THEN a ELSE [a EXCEPT !.neg = ~@])

fabs(x) == [x EXCEPT !.neg = FALSE]
Abs == op = "abs" /\ outcome' = Value(fabs(a))

wa_fmaxOfC(x, y) == fmax(x, y)      \* fault: either of two zeros
wa_fmax(x, y) ==
  {IF c.mag = 0 /\ Real(x) = Real(y) THEN (IF x.neg THEN y ELSE x) ELSE c : c \in fmax(x, y)}

wa_fmin(x, y) ==
  {IF c.mag = 0 /\ Real(x) = Real(y) THEN (IF x.neg THEN x ELSE y) ELSE c : c \in fmin(x, y)}

MinMax ==
  /\ op \in {"min", "max"}
  /\ \E c \in IF op = "max" THEN wa_fmax(a, b) ELSE wa_fmin(a, b) : outcome' = Value(c)

CopySign ==
  /\ op = "copysign"
  /\ outcome' = Value(IF isnan(a) THEN a ELSE [fabs(a) EXCEPT !.neg = b.neg])

FloatNext ==
  /\ outcome.trap = "pending"
  /\ \/ OP_TRUNC \/ OP_TRUNC_SAT \/ Convert \/ Reformat
     \/ Negate \/ Abs \/ MinMax \/ CopySign
  /\ UNCHANGED <<op, type, a, b>>

NumericInit == Init \/ FloatInit
NumericSpec == NumericInit /\ [][Next \/ FloatNext]_vars

-----------------------------------------------------------------------------
(***************************************************************************)
(* WebAssembly's definitions.                                              *)
(***************************************************************************)
IntegersOf(o, t) ==
  IF IsSigned(o) THEN -(2 ^ (BITS[t] - 1)) .. 2 ^ (BITS[t] - 1) - 1 ELSE 0 .. 2 ^ BITS[t] - 1

(* The integers whose distance to a number is below 1 on the way to zero.  *)
TruncationOf(x, n) ==
  /\ Magnitude(n) * ONE <= x.mag /\ x.mag < (Magnitude(n) + 1) * ONE
  /\ n = 0 \/ (n < 0) = x.neg

DefinedTruncation ==
  LET range == IntegersOf(op, b)
      Is(n) == outcome = Value(n % 2 ^ BITS[b])
      saturating == op \in {"trunc_sat_s", "trunc_sat_u"}
      least == CHOOSE n \in range : \A k \in range : n <= k
      greatest == CHOOSE n \in range : \A k \in range : k <= n
  IN CASE isnan(a) /\ saturating -> Is(0)
       [] isnan(a) /\ ~saturating -> outcome = Trapped("invalid_conversion_to_integer")
       [] ~isnan(a) /\ (\E n \in range : TruncationOf(a, n)) ->
            \E n \in range : TruncationOf(a, n) /\ Is(n)
       [] OTHER -> IF saturating THEN Is(IF a.neg THEN least ELSE greatest)
                   ELSE outcome = Trapped("integer_overflow")

(* Whatever the width of the significand, a truncation gives the integer   *)
(* part of every number that has one in range, and no other: the bounds of *)
(* utils.h are where the integer part leaves the range, also where it has  *)
(* more digits than the format.                                            *)
TruncationsAgree == op \in Truncations /\ outcome.trap # "pending" => DefinedTruncation

(* Nearest: no number of the format is nearer, and a tie goes to the       *)
(* multiple of the greater power of two.  Infinity counts as TooLarge.     *)
NearestTo(f, mag, r) ==
  LET place == IF r = Infinity THEN TooLarge(f) ELSE r
      Distance(q) == Magnitude(q - mag)
      Even(q) == \E k \in 1 .. SCALE[f] + 1, s \in 0 .. 2 ^ PRECISION[f] : q = s * 2 ^ k * UNIT[f]
                   /\ (s < 2 ^ (PRECISION[f] - 1) \/ s = 2 ^ PRECISION[f])
  IN \A q \in Magnitudes(f) \cup {TooLarge(f)} :
       \/ q = place \/ Distance(place) < Distance(q)
       \/ Distance(place) = Distance(q) /\ Even(place)

DefinedMax(x, y) ==
  IF isnan(x) \/ isnan(y) THEN NaN
  ELSE IF Real(x) > Real(y) \/ (Real(x) = Real(y) /\ ~x.neg) THEN x ELSE y
DefinedMin(x, y) ==
  IF isnan(x) \/ isnan(y) THEN NaN
  ELSE IF Real(x) < Real(y) \/ (Real(x) = Real(y) /\ x.neg) THEN x ELSE y

(* fmax and fmin prefer a number to a NaN; WebAssembly has the NaN         *)
(* (res/spectest/f32/f32.json).                                            *)
IgnoresNaN == op \in {"min", "max"} /\ isnan(a) # isnan(b)

(* Apart from a NaN, the minimum and the maximum are WebAssembly's, which  *)
(* of two zeros included, though C leaves that open.                       *)
MinMaxAgrees ==
  op \in {"min", "max"} /\ outcome.trap # "pending" /\ ~IgnoresNaN =>
    outcome = Value(IF op = "max" THEN DefinedMax(a, b) ELSE DefinedMin(a, b))

(* Integers and the numbers of the other format become the nearest number, *)
(* whatever the sign they are read with.                                   *)
ConversionsAgree ==
  outcome.trap # "pending" =>
    /\ op \in Conversions =>
         LET n == IF op = "convert_s" THEN Int2(BITS[type], a) ELSE a IN
         /\ outcome.value.neg = (n < 0)
         /\ NearestTo(b, ONE * Magnitude(n), outcome.value.mag)
    /\ op \in Formats =>
         /\ outcome.value.neg = a.neg
         /\ IF isnan(a) \/ a.mag = Infinity THEN outcome.value.mag = a.mag
            ELSE NearestTo(b, a.mag, outcome.value.mag)

=============================================================================
