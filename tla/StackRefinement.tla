---------------------------- MODULE StackRefinement ----------------------------
(***************************************************************************)
(* The arrays and pointers of the virtual machine, read as the stack of    *)
(* entries of WebAssemblyStack.tla: every frame has a part of m->stack.    *)
(***************************************************************************)
EXTENDS InterpreterProperties

(* A frame's part begins above Below(i): parameters and locals up to its   *)
(* Floor, then operands, up to where the next frame's part begins.         *)
Below(w, frames, i) ==
  IF IsFunction(w, frames[i].block) THEN frames[i].sp ELSE Floor(w, frames, i)

Slice(s, low, high) == [k \in 1 .. high - low |-> s[low + k]]

(* The part of frame i with the operands up to slot high.                  *)
Part(w, s, frames, i, high) ==
  [block |-> frames[i].block,
   locals |-> Slice(s, Below(w, frames, i), Floor(w, frames, i)),
   operands |-> Slice(s, Floor(w, frames, i), high),
   return_to |-> IF IsFunction(w, frames[i].block) /\ i > 0 THEN frames[i].ra ELSE 0]

Above(i) == IF i = csp THEN sp ELSE Below(wasm, callstack, i + 1)

Entries == [n \in 1 .. csp + 1 |-> Part(wasm, stack, callstack, n - 1, Above(n - 1))]

(* What the numeric instructions calculate, and when they trap.            *)
I32Of(v) == Operand("i32", v)
FirstOf(i, v) == Operand(i.imm.type, v[1])
SecondOf(i, v) == Operand(i.imm.type, v[2])

ValueOf(i, v) ==
  CASE i.op = "eqz" -> Bool(Operand(i.imm, v[1]) = 0)
    [] i.op = "compare" -> Bool(Related(i.imm.op, FirstOf(i, v), SecondOf(i, v)))
    [] i.op = "arith" -> Val(i.imm.type, Computed(i.imm.op, i.imm.type, FirstOf(i, v), SecondOf(i, v)))
    [] i.op = "count" -> Val(i.imm.type, Counted(i.imm.op, i.imm.type, FirstOf(i, v)))
    [] i.op = "convert" ->
         Val(ConvertedTo(i),
             CASE i.imm.op \in {"wrap", "extend_u"} -> I32Of(v[1])
               [] i.imm.op = "extend_s" -> SignExtended(BITS["i32"], BITS["i64"], v[1].value)
               [] OTHER -> SignExtended(i.imm.bits, BITS[i.imm.type], v[1].value))

TrapsOn(i, v) ==
  i.op = "arith" /\ IntegerTrap(i.imm.op, i.imm.type, FirstOf(i, v), SecondOf(i, v)) # "none"
FaultsOn(i, v) ==
  i.op = "arith" /\ DivisionFaults(i.imm.op, i.imm.type, FirstOf(i, v), SecondOf(i, v))
StopsOn(i, v) == TrapsOn(i, v) \/ FaultsOn(i, v)

(* The abstract variables.                                                 *)
NextAddress == IF Running THEN pc ELSE 0
Stack == IF Running THEN Entries ELSE <<>>
Phase == CASE Running -> "running"
           [] status \in {"ready", "true", "false"} -> "idle"
           [] OTHER -> "gone"
Answer == IF status = "true" THEN Slice(stack, -1, sp) ELSE <<>>

Abstract == INSTANCE WebAssemblyStack WITH
  pc <- NextAddress, entries <- Stack, phase <- Phase, answer <- Answer,
  Number <- I32Of, Calculated <- ValueOf, MayTrap <- StopsOn, MustTrap <- TrapsOn

(* In a module whose branches leave nothing behind and which imports       *)
(* nothing, one shared array without bounds between its parts, and frames  *)
(* that br and return skip without pop_block, are as good as a stack for   *)
(* each block: every instruction finds its own operands and locals, and a  *)
(* call changes nothing of its caller's but for the arguments it takes and *)
(* the result it gives.                                                    *)
ImplementsStack ==
  /\ Exact(wasm) => Abstract!Init
  /\ [][Exact(wasm) => [Abstract!Next]_Abstract!vars]_vars

=============================================================================
