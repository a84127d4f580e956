------------------------------ MODULE MCNumbers ------------------------------
(***************************************************************************)
(* All operands of a 4-bit i32, and for an 8-bit i64 those around the      *)
(* signs and the shift counts.  The formats relate to them as those of C   *)
(* do: f32 has fewer digits than i32, f64 more than i32 and fewer than i64.*)
(***************************************************************************)
EXTENDS FloatSemantics

MCBits == [t \in Types |-> IF t = "i32" THEN 4 ELSE 8]

MCValues == [t \in Types |->
  IF t = "i32" THEN 0 .. 15
  ELSE {0, 1, 2, 3, 7, 8, 9, 15, 16, 17, 100, 127, 128, 129, 248, 254, 255}]

Each(f32, f64) == [f \in FloatTypes |-> IF f = "f32" THEN f32 ELSE f64]

MCPrecision == Each(3, 6)
MCScale == Each(9, 8)
MCUnit == Each(4, 1)

(* Zeros, the least number, halves, integers, the greatest and infinity.   *)
MCOperands ==
  [f \in FloatTypes |->
     {x \in Floats(f) : x.mag \in {-1, 0, 4, 8, 16, 20, 64, 256, Infinity}}]

=============================================================================
