------------------------------ MODULE TypeMask -------------------------------
(***************************************************************************)
(* Function types and get_type_mask, the number call_indirect compares     *)
(* instead of them.  A mask is its nibbles, nibble 0 the lowest.           *)
(***************************************************************************)
EXTENDS Integers, Sequences

CONSTANT NIBBLES    \* of a uint64_t: 16

ASSUME NIBBLES \in Nat

(* I32, I64, F32 and F64 as module.h defines them.                         *)
ValueTypes == {127, 126, 125, 124}
FunctionTypes == [params : Seq(ValueTypes), results : {<<>>} \cup {<<t>> : t \in ValueTypes}]

Digit(t) == 128 - t

MaskOfLast(type) ==      \* fault: the shift for each parameter left out
  [i \in 0 .. NIBBLES - 1 |->
     IF i = 0 /\ type.params # <<>> THEN Digit(type.params[Len(type.params)]) ELSE 0]

(* The mask starts with 0x80 and the digit of the result, is shifted once, *)
(* and by a nibble more for each parameter: the last parameter ends up in  *)
(* nibble 0, and what passes nibble NIBBLES - 1 is lost.                   *)
Mask(type) ==
  LET n == Len(type.params) IN
  [i \in 0 .. NIBBLES - 1 |->
     IF i < n THEN Digit(type.params[n - i])
     ELSE IF i = n + 1 /\ Len(type.results) = 1 THEN Digit(type.results[1])
     ELSE IF i = n + 2 THEN 8
     ELSE 0]

(* So many parameters leave room for the shift and for the result.         *)
Distinguishable(type) == Len(type.params) <= NIBBLES - 2

=============================================================================
