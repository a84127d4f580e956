-------------------------- MODULE InterpreterProofs --------------------------
(***************************************************************************)
(* For every valid module and every size of the stacks, in four parts.     *)
(* Control: the call stack mirrors the block structure of the code, and    *)
(* calls return into the block that made them.  Operands: each activation  *)
(* finds on the shared operand stack at least the operands it pushed, and  *)
(* keeps to its own part of it.  Types of slots: if branches leave nothing *)
(* behind and no import is called, each slot and each global has the type  *)
(* that validation derived, so the tests of value_type in pop_block and    *)
(* Select never fail.  Types of variables: all of them, always.            *)
(***************************************************************************)
EXTENDS InterpreterProperties, NumbersProofs, SequenceTheorems, TLAPS

-----------------------------------------------------------------------------
(***************************************************************************)
(* What well-nestedness says of one block and of one instruction.          *)
(***************************************************************************)
LEMMA BlockFacts ==
  ASSUME NEW w \in Modules, NEW b \in DOMAIN w.labels
  PROVE  /\ NestedBlock(w, b)
         /\ b \in DOMAIN w.block
BY NestingAssumption DEF WellNested

LEMMA InstrFacts ==
  ASSUME NEW w \in Modules, NEW a \in DOMAIN w.code
  PROVE  NestedInstr(w, a)
BY NestingAssumption DEF WellNested

(* The counts that move sp are numbers.                                    *)
LEMMA CountFacts ==
  ASSUME NEW w \in Modules, NEW b \in DOMAIN w.block
  PROVE  ParamCount(w, b) \in Nat /\ LocalCount(w, b) \in Nat /\ ResultCount(w, b) \in Nat
<1>1. w.block[b].type \in FuncType /\ w.block[b].locals \in Seq(ValueType)
  BY NestingAssumption DEF WellNested
<1>2. w.block[b].type.params \in Seq(ValueType) /\ w.block[b].type.results \in Seq(ValueType)
  BY <1>1 DEF FuncType
<1> QED
  BY <1>1, <1>2, LenProperties DEF ParamCount, LocalCount, ResultCount

(* The label at depth d of a block, seen from a call stack that mirrors    *)
(* the nesting, is the block of the d-th frame from the top.               *)
LEMMA LabelAtDepth ==
  ASSUME NEW w \in Modules, NEW cs, NEW n \in Nat, Mirrors(w, cs, n),
         NEW d \in 0 .. w.nest[cs[n].block]
  PROVE  /\ n - d \in 0 .. n
         /\ cs[n - d].block \in DOMAIN w.labels
         /\ w.nest[cs[n - d].block] = w.nest[cs[n].block] - d
         /\ ActivationFp(w, cs, n - d) = ActivationFp(w, cs, n)
<1> DEFINE b == cs[n].block
<1>1. b \in DOMAIN w.labels /\ w.nest[b] \in 0 .. n /\ cs[n - d].block = w.labels[b][d]
  BY DEF Mirrors
<1>2. n - d \in 0 .. n
  BY <1>1
<1>3. w.nest[w.labels[b][d]] = w.nest[b] - d
  <2>1. NestedBlock(w, b)
    BY <1>1, BlockFacts
  <2> QED
    BY <2>1 DEF NestedBlock
<1>4. (n - d) - (w.nest[b] - d) = n - w.nest[b]
  BY <1>1
<1> QED
  BY <1>1, <1>2, <1>3, <1>4 DEF Mirrors, ActivationFp

-----------------------------------------------------------------------------
(***************************************************************************)
(* Pushing and popping frames.                                             *)
(***************************************************************************)
Framed(w, cs, n) == Mirrors(w, cs, n) /\ Returns(w, cs, n) /\ SavedFps(w, cs, n)

(* Popping frames keeps the rest in order.                                 *)
LEMMA FramedBelow ==
  ASSUME NEW w, NEW cs, NEW n \in Int, NEW m \in Int, m <= n, Framed(w, cs, n)
  PROVE  Framed(w, cs, m)
BY DEF Framed, Mirrors, Returns, SavedFps

(* So does writing a frame above the top.                                  *)
LEMMA FramedAbove ==
  ASSUME NEW w, NEW cs, NEW new, NEW n \in Int, Framed(w, cs, n),
         \A i \in 0 .. n : new[i] = cs[i]
  PROVE  Framed(w, new, n)
<1>1. /\ \A i \in 0 .. n : w.nest[cs[i].block] \in 0 .. i
      /\ \A i \in 0 .. n : \A k \in 0 .. i : i - k \in 0 .. n
      /\ \A i \in 1 .. n : i \in 0 .. n /\ i - 1 \in 0 .. n
  BY DEF Framed, Mirrors
<1>2. Mirrors(w, new, n)
  <2> SUFFICES ASSUME NEW i \in 0 .. n
               PROVE  /\ new[i].block \in DOMAIN w.labels
                      /\ w.nest[new[i].block] \in 0 .. i
                      /\ \A k \in 0 .. w.nest[new[i].block] :
                           new[i - k].block = w.labels[new[i].block][k]
    BY DEF Mirrors
  <2>1. \A k \in 0 .. w.nest[cs[i].block] : new[i - k] = cs[i - k]
    BY <1>1
  <2> QED
    BY <2>1 DEF Framed, Mirrors
<1>3. \A i \in 0 .. n : ActivationFp(w, new, i) = ActivationFp(w, cs, i)
  BY <1>1 DEF ActivationFp
<1>4. Returns(w, new, n)
  BY <1>1 DEF Framed, Returns
<1>5. SavedFps(w, new, n)
  <2> SUFFICES ASSUME NEW i \in 0 .. n
               PROVE  /\ ~IsFunction(w, new[i].block) => new[i].fp = ActivationFp(w, new, i)
                      /\ IsFunction(w, new[i].block) /\ i > 0 =>
                           new[i].fp = ActivationFp(w, new, i - 1)
    BY DEF SavedFps
  <2>1. new[i] = cs[i] /\ ActivationFp(w, new, i) = ActivationFp(w, cs, i)
    BY <1>3
  <2>2. i > 0 => ActivationFp(w, new, i - 1) = ActivationFp(w, cs, i - 1)
    BY <1>3
  <2> QED
    BY <2>1, <2>2 DEF Framed, SavedFps
<1> QED
  BY <1>2, <1>4, <1>5 DEF Framed

(* push_block for a block that was opened in the block on top.             *)
LEMMA FramedPushBlock ==
  ASSUME NEW w \in Modules, NEW cs, NEW new, NEW n \in Nat, Framed(w, cs, n),
         \A i \in 0 .. n : new[i] = cs[i],
         new[n + 1].block \in DOMAIN w.labels, ~IsFunction(w, new[n + 1].block),
         Parent(w, new[n + 1].block) = cs[n].block,
         new[n + 1].fp = ActivationFp(w, cs, n)
  PROVE  /\ Framed(w, new, n + 1)
         /\ ActivationFp(w, new, n + 1) = ActivationFp(w, cs, n)
<1> DEFINE b == new[n + 1].block
           p == cs[n].block
<1>1. Framed(w, new, n)
  BY FramedAbove
<1>2. \A i \in 0 .. n + 1 : i \in 0 .. n \/ i = n + 1
  OBVIOUS
<1>3. /\ p \in DOMAIN w.labels
      /\ w.nest[p] \in 0 .. n
      /\ \A k \in 0 .. w.nest[p] : cs[n - k].block = w.labels[p][k]
  BY DEF Framed, Mirrors
<1>4. /\ w.nest[b] = w.nest[p] + 1
      /\ w.labels[b][0] = b
      /\ \A k \in 0 .. w.nest[p] : w.labels[b][k + 1] = w.labels[p][k]
  <2>1. NestedBlock(w, b)
    BY BlockFacts
  <2> QED
    BY <2>1 DEF NestedBlock
<1>5. \A k \in 0 .. w.nest[b] : new[(n + 1) - k].block = w.labels[b][k]
  <2> SUFFICES ASSUME NEW k \in 0 .. w.nest[b]
               PROVE  new[(n + 1) - k].block = w.labels[b][k]
    OBVIOUS
  <2>1. CASE k = 0
    <3>1. (n + 1) - k = n + 1
      BY <2>1
    <3> QED
      BY <2>1, <3>1, <1>4
  <2>2. CASE k # 0
    <3>1. k - 1 \in 0 .. w.nest[p] /\ (k - 1) + 1 = k /\ (n + 1) - k = n - (k - 1)
          /\ (n + 1) - k \in 0 .. n
      BY <2>2, <1>3, <1>4
    <3>2. w.labels[b][k] = w.labels[p][k - 1]
      BY <3>1, <1>4
    <3> QED
      BY <3>1, <3>2, <1>3
  <2> QED
    BY <2>1, <2>2
<1>6. Mirrors(w, new, n + 1)
  <2>1. w.nest[b] \in 0 .. n + 1
    BY <1>3, <1>4
  <2> QED
    BY <1>1, <1>2, <1>5, <2>1 DEF Framed, Mirrors
<1>7. ActivationFp(w, new, n + 1) = ActivationFp(w, cs, n)
  <2>1. (n + 1) - w.nest[b] = n - w.nest[p] /\ n - w.nest[p] \in 0 .. n
    BY <1>3, <1>4
  <2> QED
    BY <2>1 DEF ActivationFp
<1>8. Returns(w, new, n + 1)
  <2>1. \A i \in 1 .. n + 1 : i \in 1 .. n \/ i = n + 1
    OBVIOUS
  <2> QED
    BY <1>1, <2>1 DEF Framed, Returns
<1>9. SavedFps(w, new, n + 1)
  BY <1>1, <1>2, <1>7 DEF Framed, SavedFps
<1> QED
  BY <1>6, <1>7, <1>8, <1>9 DEF Framed

(* push_block for a function, called from the block on top or, when no     *)
(* frame is left, by invoke().                                             *)
LEMMA FramedPushFunction ==
  ASSUME NEW w \in Modules, NEW cs, NEW new, NEW n \in Nat \cup {-1}, Framed(w, cs, n),
         \A i \in 0 .. n : new[i] = cs[i],
         new[n + 1].block \in DOMAIN w.labels, IsFunction(w, new[n + 1].block),
         n >= 0 => /\ new[n + 1].fp = ActivationFp(w, cs, n)
                   /\ BehindCall(w, cs[n].block, new[n + 1].ra)
  PROVE  /\ Framed(w, new, n + 1)
         /\ ActivationFp(w, new, n + 1) = new[n + 1].sp + 1
<1> DEFINE b == new[n + 1].block
<1>1. Framed(w, new, n)
  BY FramedAbove
<1>2. \A i \in 0 .. n + 1 : i \in 0 .. n \/ i = n + 1
  OBVIOUS
<1>3. w.nest[b] = 0 /\ w.labels[b][0] = b
  <2>1. NestedBlock(w, b)
    BY BlockFacts
  <2> QED
    BY <2>1 DEF NestedBlock
<1>4. (n + 1) - 0 = n + 1 /\ 0 \in 0 .. n + 1
  OBVIOUS
<1>5. Mirrors(w, new, n + 1)
  <2>1. \A k \in 0 .. w.nest[b] : k = 0
    BY <1>3
  <2> QED
    BY <1>1, <1>2, <1>3, <1>4, <2>1 DEF Framed, Mirrors
<1>6. ActivationFp(w, new, n + 1) = new[n + 1].sp + 1
  BY <1>3, <1>4 DEF ActivationFp
<1>7. Returns(w, new, n + 1)
  <2>1. \A i \in 1 .. n + 1 : i \in 1 .. n \/ (i = n + 1 /\ i - 1 = n /\ n >= 0)
    OBVIOUS
  <2>2. n >= 0 => new[n] = cs[n]
    OBVIOUS
  <2> QED
    BY <1>1, <2>1, <2>2 DEF Framed, Returns
<1>8. SavedFps(w, new, n + 1)
  <2>1. n >= 0 => ActivationFp(w, new, n) = ActivationFp(w, cs, n)
    <3> SUFFICES ASSUME n >= 0
                 PROVE  ActivationFp(w, new, n) = ActivationFp(w, cs, n)
      OBVIOUS
    <3>1. w.nest[cs[n].block] \in 0 .. n /\ new[n] = cs[n]
      BY DEF Framed, Mirrors
    <3>2. n - w.nest[cs[n].block] \in 0 .. n
      BY <3>1
    <3> QED
      BY <3>1, <3>2 DEF ActivationFp
  <2>2. n + 1 > 0 => n >= 0 /\ (n + 1) - 1 = n
    OBVIOUS
  <2> QED
    BY <1>1, <1>2, <2>1, <2>2 DEF Framed, SavedFps
<1> QED
  BY <1>5, <1>6, <1>7, <1>8 DEF Framed

-----------------------------------------------------------------------------
(***************************************************************************)
(* The invariant of control.  Whatever interpret() does when a call has    *)
(* ended is no concern of Control: the next invocation starts afresh.      *)
(***************************************************************************)
ControlTypes ==
  /\ wasm \in Modules
  /\ pc \in Nat
  /\ sp \in Int
  /\ fp \in Int
  /\ csp \in -1 .. CALLSTACK_SIZE
  /\ callstack \in [0 .. CALLSTACK_SIZE -> Frame]
  /\ status \in Statuses

Control ==
  /\ csp \in 0 .. CALLSTACK_SIZE
  /\ pc \in DOMAIN wasm.code
  /\ wasm.owner[pc] = BlockAt(csp)
  /\ Framed(wasm, callstack, csp)
  /\ fp = ActivationFp(wasm, callstack, csp)

ControlInv == ControlTypes /\ (Running => Control)

-----------------------------------------------------------------------------
(***************************************************************************)
(* What preserves Control, by what happens to the call stack.              *)
(***************************************************************************)
(* interpret() is left.                                                    *)
LEMMA AfterStop ==
  ASSUME ControlTypes, wasm' = wasm, pc' \in Nat, sp' \in Int, fp' \in Int,
         csp' \in -1 .. CALLSTACK_SIZE, callstack' = callstack,
         status' \in Statuses \ {"running"}
  PROVE  ControlInv'
BY DEF ControlInv, ControlTypes, Running, Frame

(* The next instruction in the same block.                                 *)
LEMMA AfterAdvance ==
  ASSUME ControlInv, Running, Instr.op \in PlainOps \cup JumpOps, Advance,
         wasm' = wasm, sp' \in Int, fp' = fp, csp' = csp, callstack' = callstack,
         status' \in Statuses
  PROVE  ControlInv'
<1>1. Control
  BY DEF ControlInv
<1>2. NestedInstr(wasm, pc)
  BY <1>1, InstrFacts DEF Control, ControlInv, ControlTypes
<1>3. pc' \in Nat /\ pc' \in DOMAIN wasm.code /\ wasm.owner[pc'] = wasm.owner[pc]
  BY <1>2 DEF NestedInstr, Advance, Instr
<1>4. ControlTypes'
  BY <1>3 DEF ControlInv, ControlTypes, Frame
<1>5. Control'
  BY <1>1, <1>3 DEF Control, BlockAt
<1> QED
  BY <1>4, <1>5 DEF ControlInv

(* The label at depth d of the block around the instruction.               *)
LEMMA AfterGoto ==
  ASSUME ControlInv, Running, NEW d \in 0 .. wasm.nest[BlockAt(csp)], Goto(d),
         wasm' = wasm, sp' \in Int, fp' = fp, callstack' = callstack, status' = status
  PROVE  ControlInv'
<1>1. Control /\ wasm \in Modules
  BY DEF ControlInv, ControlTypes
<1>2. d \in 0 .. wasm.nest[BlockAt(csp)]
  OBVIOUS
<1> DEFINE n == csp - d
           b == callstack[n].block
<1>3. /\ n \in 0 .. csp
      /\ b \in DOMAIN wasm.labels
      /\ ActivationFp(wasm, callstack, n) = ActivationFp(wasm, callstack, csp)
  BY <1>1, <1>2, LabelAtDepth DEF Control, Framed, BlockAt
<1>4. wasm.block[b].br_addr \in DOMAIN wasm.code /\ wasm.owner[wasm.block[b].br_addr] = b
  <2>1. NestedBlock(wasm, b)
    BY <1>1, <1>3, BlockFacts
  <2> QED
    BY <2>1 DEF NestedBlock
<1>5. csp' = n /\ pc' = wasm.block[b].br_addr
  BY DEF Goto, LabelFrame, Block
<1>6. wasm.block[b].br_addr \in Nat
  <2>1. NestedInstr(wasm, wasm.block[b].br_addr)
    BY <1>1, <1>4, InstrFacts
  <2> QED
    BY <2>1 DEF NestedInstr
<1>7. Framed(wasm, callstack, n)
  BY <1>1, <1>3, FramedBelow DEF Control
<1>8. n \in Nat /\ n \in 0 .. CALLSTACK_SIZE /\ n \in -1 .. CALLSTACK_SIZE
  BY <1>1, <1>3, SizesAssumption DEF Control
<1>9. ControlTypes'
  BY <1>1, <1>5, <1>6, <1>8 DEF ControlInv, ControlTypes, Frame
<1>10. Control'
  BY <1>1, <1>3, <1>4, <1>5, <1>7, <1>8 DEF Control, BlockAt
<1> QED
  BY <1>9, <1>10 DEF ControlInv

(* Into a block opened here: to its first instruction, or past its else.   *)
LEMMA AfterPushBlock ==
  ASSUME ControlInv, Running, Instr.op \in BlockOps, ~CallStackExhausted,
         NEW s \in Int, PushBlock(wasm.block_lookup[pc], s, csp, fp, Instr.next),
         \/ pc' = Instr.next
         \/ /\ pc' = Block(wasm.block_lookup[pc]).else_addr
            /\ Block(wasm.block_lookup[pc]).else_addr # 0,
         wasm' = wasm, sp' \in Int, fp' = fp, status' = status
  PROVE  ControlInv'
<1> DEFINE b == wasm.block_lookup[pc]
<1>1. ControlTypes /\ Control /\ wasm \in Modules
  BY DEF ControlInv, ControlTypes
<1>2. /\ b \in DOMAIN wasm.labels
      /\ wasm.block[b].block_type \in BlockOps
      /\ wasm.block[b].start_addr = pc
      /\ Instr.next \in DOMAIN wasm.code /\ Instr.next \in Nat
      /\ wasm.owner[Instr.next] = b
  <2>1. NestedInstr(wasm, pc)
    BY <1>1, InstrFacts DEF Control
  <2> QED
    BY <2>1 DEF NestedInstr, Instr
<1>3. b \in DOMAIN wasm.block /\ NestedBlock(wasm, b)
  BY <1>1, <1>2, BlockFacts
<1>4. ~IsFunction(wasm, b) /\ Parent(wasm, b) = callstack[csp].block
  BY <1>1, <1>2 DEF IsFunction, BlockOps, Parent, Control, BlockAt
<1>5. /\ pc' \in Nat
      /\ pc' \in DOMAIN wasm.code
      /\ wasm.owner[pc'] = b
  <2>1. CASE pc' = Instr.next
    BY <1>2, <2>1
  <2>2. CASE pc' = wasm.block[b].else_addr /\ wasm.block[b].else_addr # 0
    <3>1. pc' \in DOMAIN wasm.code /\ wasm.owner[pc'] = b
      BY <1>3, <2>2 DEF NestedBlock
    <3>2. NestedInstr(wasm, pc')
      BY <1>1, <3>1, InstrFacts
    <3> QED
      BY <3>1, <3>2 DEF NestedInstr
  <2> QED
    BY <2>1, <2>2 DEF Block
<1>6. csp \in Nat /\ csp + 1 \in 0 .. CALLSTACK_SIZE
  BY <1>1, SizesAssumption DEF Control, CallStackExhausted
<1> DEFINE frame == [block |-> b, sp |-> s, fp |-> fp, ra |-> Instr.next]
<1>7. csp' = csp + 1 /\ callstack' = [callstack EXCEPT ![csp + 1] = frame]
  BY DEF PushBlock
<1>8. /\ callstack'[csp + 1] = frame
      /\ \A i \in 0 .. csp : callstack'[i] = callstack[i]
  BY <1>1, <1>6, <1>7 DEF ControlTypes
<1>9. frame \in Frame
  BY <1>1, <1>2, <1>3 DEF ControlTypes, Frame
<1>10. ControlTypes'
  BY <1>1, <1>5, <1>6, <1>7, <1>9 DEF ControlTypes, Frame
<1>11. /\ Framed(wasm, callstack', csp + 1)
       /\ ActivationFp(wasm, callstack', csp + 1) = fp
  <2>1. callstack'[csp + 1].block = b /\ callstack'[csp + 1].fp = fp
    BY <1>8
  <2>2. Framed(wasm, callstack, csp) /\ fp = ActivationFp(wasm, callstack, csp)
    BY <1>1 DEF Control
  <2> HIDE DEF b
  <2> QED
    <3>1. /\ callstack'[csp + 1].block \in DOMAIN wasm.labels
          /\ ~IsFunction(wasm, callstack'[csp + 1].block)
          /\ Parent(wasm, callstack'[csp + 1].block) = callstack[csp].block
          /\ callstack'[csp + 1].fp = ActivationFp(wasm, callstack, csp)
      BY <1>2, <1>4, <2>1, <2>2
    <3>2. /\ wasm \in Modules /\ csp \in Nat
          /\ \A i \in 0 .. csp : callstack'[i] = callstack[i]
      BY <1>1, <1>6, <1>8
    <3>3. /\ Framed(wasm, callstack', csp + 1)
          /\ ActivationFp(wasm, callstack', csp + 1) = ActivationFp(wasm, callstack, csp)
      BY <2>2, <3>1, <3>2, FramedPushBlock
    <3> QED
      BY <2>2, <3>3
<1>12. Control'
  BY <1>5, <1>6, <1>7, <1>8, <1>11 DEF Control, BlockAt
<1> QED
  BY <1>10, <1>12 DEF ControlInv

(* Into a function, from the c-th frame or from invoke().                  *)
LEMMA AfterSetupCall ==
  ASSUME ControlTypes,
         NEW fidx \in DOMAIN wasm.functions, ~IsImport(fidx),
         NEW s, NEW top \in Int, NEW c \in -1 .. CALLSTACK_SIZE - 1, NEW f \in Int,
         NEW savedPc \in Nat,
         SetupCall(fidx, s, top, c, f, savedPc),
         Framed(wasm, callstack, c),
         c >= 0 => /\ f = ActivationFp(wasm, callstack, c)
                   /\ BehindCall(wasm, callstack[c].block, savedPc),
         wasm' = wasm, status' \in Statuses
  PROVE  ControlInv'
<1> DEFINE b == wasm.functions[fidx]
           savedSp == top - ParamCount(wasm, b)
           frame == [block |-> b, sp |-> savedSp, fp |-> f, ra |-> savedPc]
<1>1. /\ wasm \in Modules
      /\ b \in DOMAIN wasm.labels
      /\ IsFunction(wasm, b)
  <2>1. wasm \in Modules
    BY DEF ControlTypes
  <2>2. WellNested(wasm)
    BY <2>1, NestingAssumption
  <2>3. fidx \in Nat /\ wasm.import_func_count \in Nat
    BY <2>2 DEF WellNested
  <2>4. fidx >= wasm.import_func_count
    BY <2>3 DEF IsImport
  <2> QED
    BY <2>1, <2>2, <2>4 DEF WellNested
<1>2. ParamCount(wasm, b) \in Nat /\ LocalCount(wasm, b) \in Nat
  BY <1>1, BlockFacts, CountFacts
<1>3. b \in DOMAIN wasm.block /\ NestedBlock(wasm, b)
  BY <1>1, BlockFacts
<1>4. /\ csp' = c + 1
      /\ callstack' = [callstack EXCEPT ![c + 1] = frame]
      /\ fp' = savedSp + 1
      /\ sp' = top + LocalCount(wasm, b)
      /\ pc' = wasm.block[b].start_addr
  BY DEF SetupCall, PushBlock, CalleeTop, Block
<1>5. /\ pc' \in DOMAIN wasm.code
      /\ wasm.owner[pc'] = b
      /\ pc' \in Nat
  <2>1. pc' \in DOMAIN wasm.code /\ wasm.owner[pc'] = b
    BY <1>1, <1>3, <1>4 DEF NestedBlock
  <2>2. NestedInstr(wasm, pc')
    BY <1>1, <2>1, InstrFacts
  <2> QED
    BY <2>1, <2>2 DEF NestedInstr
<1>6. c \in Nat \cup {-1} /\ c + 1 \in 0 .. CALLSTACK_SIZE
  BY SizesAssumption
<1>7. /\ callstack'[c + 1] = frame
      /\ \A i \in 0 .. c : callstack'[i] = callstack[i]
  BY <1>4, <1>6 DEF ControlTypes
<1>8. frame \in Frame /\ savedSp \in Int
  BY <1>2, <1>3 DEF Frame
<1>9. ControlTypes'
  BY <1>2, <1>4, <1>5, <1>6, <1>8 DEF ControlTypes, Frame
<1>10. /\ Framed(wasm, callstack', c + 1)
       /\ ActivationFp(wasm, callstack', c + 1) = savedSp + 1
  <2>1. callstack'[c + 1].block = b /\ callstack'[c + 1].sp = savedSp
    BY <1>7
  <2>2. c >= 0 => /\ callstack'[c + 1].fp = ActivationFp(wasm, callstack, c)
                  /\ BehindCall(wasm, callstack[c].block, callstack'[c + 1].ra)
    BY <1>7
  <2>3. /\ callstack'[c + 1].block \in DOMAIN wasm.labels
        /\ IsFunction(wasm, callstack'[c + 1].block)
    BY <1>1, <2>1
  <2>4. \A i \in 0 .. c : callstack'[i] = callstack[i]
    BY <1>7
  <2>a. wasm \in Modules /\ c \in Nat \cup {-1} /\ Framed(wasm, callstack, c)
    BY <1>1, <1>6
  <2> HIDE DEF b, savedSp, frame
  <2>5. /\ Framed(wasm, callstack', c + 1)
        /\ ActivationFp(wasm, callstack', c + 1) = callstack'[c + 1].sp + 1
    <3> DEFINE new == callstack'
    <3>1. /\ \A i \in 0 .. c : new[i] = callstack[i]
          /\ new[c + 1].block \in DOMAIN wasm.labels
          /\ IsFunction(wasm, new[c + 1].block)
          /\ c >= 0 => /\ new[c + 1].fp = ActivationFp(wasm, callstack, c)
                       /\ BehindCall(wasm, callstack[c].block, new[c + 1].ra)
      BY <2>2, <2>3, <2>4
    <3> HIDE DEF new
    <3>2. Framed(wasm, new, c + 1)
      BY <2>a, <3>1, FramedPushFunction
    <3>3. ActivationFp(wasm, new, c + 1) = new[c + 1].sp + 1
      <4>1. NestedBlock(wasm, new[c + 1].block)
        BY <2>a, <3>1, BlockFacts
      <4>2. wasm.nest[new[c + 1].block] = 0
        BY <3>1, <4>1 DEF NestedBlock
      <4>3. (c + 1) - 0 = c + 1
        BY <2>a
      <4> QED
        BY <4>2, <4>3 DEF ActivationFp
    <3> QED
      BY <3>2, <3>3 DEF new
  <2> QED
    BY <2>1, <2>5
<1>11. Control'
  BY <1>4, <1>5, <1>6, <1>7, <1>10 DEF Control, BlockAt
<1> QED
  BY <1>9, <1>11 DEF ControlInv

-----------------------------------------------------------------------------
(***************************************************************************)
(* The instruction at pc, and the labels it may name.                      *)
(***************************************************************************)
LEMMA InstrAtPc ==
  ASSUME ControlInv, Running
  PROVE  /\ ControlTypes /\ Control /\ wasm \in Modules /\ csp \in Nat
         /\ NestedInstr(wasm, pc)
         /\ Instr.next \in Nat
         /\ \A d \in Depths(Instr) : d \in 0 .. wasm.nest[BlockAt(csp)]
<1>1. ControlTypes /\ Control /\ wasm \in Modules /\ csp \in Nat
  BY DEF ControlInv, ControlTypes, Control
<1>2. NestedInstr(wasm, pc)
  BY <1>1, InstrFacts DEF Control
<1>3. /\ Instr.next \in Nat
      /\ \A d \in Depths(Instr) : d \in 0 .. wasm.nest[BlockAt(csp)]
  BY <1>1, <1>2 DEF NestedInstr, Instr, Control
<1> QED
  BY <1>1, <1>2, <1>3

(* A write past the operand stack.                                         *)
LEMMA AfterOverrun ==
  ASSUME ControlInv, NEW top, Overrun(top)
  PROVE  ControlInv'
BY AfterStop DEF Overrun, ControlInv, ControlTypes, Statuses

(* Instructions that compute on the operand stack.                         *)
LEMMA AfterPush ==
  ASSUME ControlInv, Running, Instr.op \in PlainOps, NEW v, Push(v)
  PROVE  ControlInv'
<1>1. CASE Overrun(sp + 1)
  BY <1>1, AfterOverrun
<1>2. CASE ~Overrun(sp + 1)
  BY <1>2, AfterAdvance DEF Push, ControlInv, ControlTypes, Running
<1> QED
  BY <1>1, <1>2

LEMMA AfterReplace ==
  ASSUME ControlInv, Running, Instr.op \in PlainOps, NEW n \in Nat, NEW v, Replace(n, v)
  PROVE  ControlInv'
BY AfterAdvance DEF Replace, ControlInv, ControlTypes, Running

LEMMA OperandSteps ==
  ASSUME ControlInv,
         \/ Nop \/ Drop \/ Select \/ LocalGet \/ LocalSet \/ LocalTee
         \/ GlobalGet \/ GlobalSet \/ Const \/ Eqz \/ Compare \/ Arith
         \/ Count \/ Convert
  PROVE  ControlInv'
<1> USE DEF Fetch, Running
<1>1. CASE Nop \/ Drop \/ LocalSet \/ LocalTee \/ GlobalSet
  BY <1>1, AfterAdvance
     DEF Nop, Drop, LocalSet, LocalTee, GlobalSet, PlainOps, ControlInv, ControlTypes
<1>2. CASE LocalGet \/ GlobalGet \/ Const
  BY <1>2, AfterPush DEF LocalGet, GlobalGet, Const, PlainOps
<1>3. CASE Eqz \/ Compare \/ Count \/ Convert
  BY <1>3, AfterReplace DEF Eqz, Compare, Count, Convert, PlainOps
<1>4. CASE Select
  <2>1. CASE Top.value_type # "i32"
    BY <1>4, <2>1, AfterStop DEF Select, machine, ControlInv, ControlTypes, Statuses
  <2>2. CASE Top.value_type = "i32"
    BY <1>4, <2>2, AfterReplace DEF Select, PlainOps
  <2> QED
    BY <2>1, <2>2
<1>5. CASE Arith
  <2> DEFINE trap == IntegerTrap(Imm.op, Imm.type, First, Second)
  <2>1. CASE trap # "none" /\ Advance /\ Trap(trap) /\ sp' = sp - 1
             /\ UNCHANGED <<wasm, fp, stack, csp, callstack, globals>>
    <3>1. Running /\ Instr.op \in PlainOps /\ sp' \in Int /\ status' \in Statuses
      BY <1>5, <2>1 DEF Arith, Trap, PlainOps, ControlInv, ControlTypes, Statuses
    <3> QED
      BY <2>1, <3>1, AfterAdvance
  <2>2. CASE Replace(2, Val(stack[sp - 1].value_type,
                            Computed(Imm.op, Imm.type, First, Second)))
    BY <1>5, <2>2, AfterReplace DEF Arith, PlainOps
  <2>3. CASE status' = "killed" /\ UNCHANGED <<machine, wasm, globals, exception>>
    BY <2>3, AfterStop DEF machine, ControlInv, ControlTypes, Statuses
  <2> QED
    BY <1>5, <2>1, <2>2, <2>3 DEF Arith
<1> QED
  BY <1>1, <1>2, <1>3, <1>4, <1>5

(* Failures that are instructions of their own.                            *)
LEMMA FailingSteps ==
  ASSUME ControlInv, Unreachable \/ Unsupported
  PROVE  ControlInv'
BY AfterAdvance
   DEF Unreachable, Unsupported, Fetch, Running, Trap, JumpOps, ControlInv, ControlTypes, Statuses

-----------------------------------------------------------------------------
(***************************************************************************)
(* Structured control.                                                     *)
(***************************************************************************)
LEMMA BlockOrLoopStep ==
  ASSUME ControlInv, BlockOrLoop
  PROVE  ControlInv'
<1>1. Running /\ Instr.op \in BlockOps
  BY DEF BlockOrLoop, Fetch, Running, BlockOps
<1>2. Instr.next \in Nat /\ sp \in Int
  BY <1>1, InstrAtPc DEF ControlTypes
<1>3. CASE CallStackExhausted
  <2>1. pc' \in Nat /\ status' \in Statuses \ {"running"}
    BY <1>2, <1>3 DEF BlockOrLoop, Advance, Exhausted, Trap, Statuses
  <2> QED
    BY <1>3, <2>1, AfterStop DEF BlockOrLoop, ControlInv, ControlTypes
<1>4. CASE ~CallStackExhausted
  <2>1. /\ pc' = Instr.next
        /\ PushBlock(wasm.block_lookup[pc], sp, csp, fp, Instr.next)
        /\ wasm' = wasm /\ sp' = sp /\ fp' = fp /\ status' = status
    BY <1>4 DEF BlockOrLoop, Advance, Exhausted
  <2> QED
    BY <1>1, <1>2, <1>4, <2>1, AfterPushBlock
<1> QED
  BY <1>3, <1>4

(* Without an else branch, a false condition leads past the end of the if. *)
LEMMA SkippedIf ==
  ASSUME ControlInv, Running, Instr.op = "if",
         Block(wasm.block_lookup[pc]).else_addr = 0
  PROVE  LET next == Block(wasm.block_lookup[pc]).br_addr + 1 IN
         next \in Nat /\ next \in DOMAIN wasm.code /\ wasm.owner[next] = BlockAt(csp)
<1> DEFINE b == wasm.block_lookup[pc]
           end == wasm.block[b].br_addr
<1>1. wasm \in Modules /\ NestedInstr(wasm, pc) /\ wasm.owner[pc] = BlockAt(csp)
  BY InstrAtPc DEF Control
<1>2. b \in DOMAIN wasm.labels /\ wasm.block[b].block_type = "if" /\ wasm.block[b].start_addr = pc
  BY <1>1 DEF NestedInstr, Instr, BlockOps
<1>3. /\ end \in DOMAIN wasm.code
      /\ wasm.owner[end] = b
      /\ wasm.code[end].op = "end"
  <2>1. NestedBlock(wasm, b)
    BY <1>1, <1>2, BlockFacts
  <2> QED
    BY <1>2, <2>1 DEF NestedBlock
<1>4. NestedInstr(wasm, end)
  BY <1>1, <1>3, InstrFacts
<1>5. ~IsFunction(wasm, b) /\ Parent(wasm, b) = BlockAt(csp)
  BY <1>1, <1>2 DEF IsFunction, Parent
<1> QED
  BY <1>3, <1>4, <1>5 DEF NestedInstr, Block

LEMMA IfStep ==
  ASSUME ControlInv, If
  PROVE  ControlInv'
<1>1. Running /\ Instr.op \in BlockOps /\ Instr.op = "if"
  BY DEF If, Fetch, Running, BlockOps
<1>2. Instr.next \in Nat /\ sp \in Int /\ ControlTypes /\ Control
  BY <1>1, InstrAtPc DEF ControlTypes
<1> DEFINE b == wasm.block_lookup[pc]
<1>3. wasm' = wasm /\ fp' = fp
  BY DEF If
<1>4. CASE CallStackExhausted
  <2>1. pc' \in Nat /\ status' \in Statuses \ {"running"}
    BY <1>2, <1>4 DEF If, Advance, Exhausted, Trap, Statuses
  <2> QED
    BY <1>4, <2>1, AfterStop DEF If, ControlInv, ControlTypes
<1>5. CASE ~CallStackExhausted /\ (Cond \/ Block(b).else_addr # 0)
  <2>1. /\ PushBlock(b, sp, csp, fp, Instr.next)
        /\ pc' = Instr.next \/ (pc' = Block(b).else_addr /\ Block(b).else_addr # 0)
        /\ sp' \in Int /\ status' = status
    BY <1>2, <1>5 DEF If, Exhausted, SavedSpOfIf
  <2> QED
    BY <1>1, <1>2, <1>3, <1>5, <2>1, AfterPushBlock
<1>6. CASE ~CallStackExhausted /\ ~Cond /\ Block(b).else_addr = 0
  <2> DEFINE frame == [block |-> b, sp |-> sp, fp |-> fp, ra |-> Instr.next]
  <2>1. /\ callstack' = [callstack EXCEPT ![csp + 1] = frame]
        /\ csp' = csp /\ sp' \in Int /\ status' = status
        /\ pc' = Block(b).br_addr + 1
    BY <1>2, <1>6 DEF If, Exhausted, SavedSpOfIf
  <2>2. pc' \in Nat /\ pc' \in DOMAIN wasm.code /\ wasm.owner[pc'] = BlockAt(csp)
    BY <1>1, <1>6, <2>1, SkippedIf
  <2>3. b \in DOMAIN wasm.block
    <3>1. wasm \in Modules /\ b \in DOMAIN wasm.labels
      BY <1>1, InstrAtPc DEF NestedInstr, Instr
    <3> QED
      BY <3>1, BlockFacts
  <2>4. csp \in Nat /\ csp + 1 \in 0 .. CALLSTACK_SIZE
    BY <1>2, <1>6, SizesAssumption DEF Control, CallStackExhausted
  <2>5. frame \in Frame
    BY <1>2, <2>3 DEF ControlTypes, Frame
  <2>6. ControlTypes'
    BY <1>2, <1>3, <2>1, <2>2, <2>5 DEF ControlTypes, Frame
  <2>7. \A i \in 0 .. csp : callstack'[i] = callstack[i]
    BY <1>2, <2>1, <2>4 DEF ControlTypes
  <2>8. Framed(wasm, callstack', csp)
    BY <1>2, <2>4, <2>7, FramedAbove DEF Control
  <2>9. /\ BlockAt(csp)' = BlockAt(csp)
        /\ ActivationFp(wasm, callstack', csp) = ActivationFp(wasm, callstack, csp)
    <3>1. csp - wasm.nest[callstack[csp].block] \in 0 .. csp
      BY <1>2, <2>4, LabelAtDepth DEF Control, Framed, Mirrors
    <3> QED
      BY <2>1, <2>4, <2>7, <3>1 DEF BlockAt, ActivationFp
  <2>10. Control'
    BY <1>2, <1>3, <2>1, <2>2, <2>8, <2>9 DEF Control
  <2> QED
    BY <2>6, <2>10 DEF ControlInv
<1> QED
  BY <1>4, <1>5, <1>6

(* else leads to the end of the if it stands in.                           *)
LEMMA ElseStep ==
  ASSUME ControlInv, Else
  PROVE  ControlInv'
<1>1. Running /\ csp \in Nat /\ Control /\ sp \in Int /\ wasm.nest[BlockAt(csp)] \in Nat
  BY InstrAtPc DEF Else, Fetch, Running, Control, ControlTypes, Framed, Mirrors, BlockAt
<1>2. Goto(0)
  BY <1>1 DEF Else, Goto, LabelFrame
<1>3. wasm' = wasm /\ sp' = sp /\ fp' = fp /\ callstack' = callstack /\ status' = status
  BY DEF Else
<1>4. 0 \in 0 .. wasm.nest[BlockAt(csp)]
  BY <1>1
<1> QED
  BY <1>1, <1>2, <1>3, <1>4, AfterGoto

(* The end of a block resumes the block around it; the end of a function   *)
(* resumes the caller, or ends the invocation.                             *)
LEMMA EndStep ==
  ASSUME ControlInv, End
  PROVE  ControlInv'
<1> DEFINE frame == callstack[csp]
           b == frame.block
<1>1. /\ Running /\ Instr.op = "end"
      /\ ControlTypes /\ Control /\ wasm \in Modules /\ csp \in Nat
      /\ NestedInstr(wasm, pc) /\ Instr.next \in Nat
  BY InstrAtPc DEF End, Fetch, Running
<1>2. /\ b \in DOMAIN wasm.labels
      /\ NestedBlock(wasm, b)
      /\ wasm.owner[pc] = b
      /\ frame \in Frame
  BY <1>1, BlockFacts, SizesAssumption DEF Control, ControlTypes, Framed, Mirrors, BlockAt
<1>3. wasm' = wasm /\ callstack' = callstack /\ csp' = csp - 1
  BY DEF End
<1>4. csp - 1 \in -1 .. CALLSTACK_SIZE /\ csp - 1 <= csp /\ csp \in 0 .. CALLSTACK_SIZE
  BY <1>1, SizesAssumption DEF Control
<1>5. CASE ResultMismatch(b)
  <2>1. pc' \in Nat /\ sp' \in Int /\ fp' \in Int /\ status' \in Statuses \ {"running"}
    BY <1>1, <1>5 DEF End, Advance, Trap, Statuses, ControlTypes
  <2> QED
    BY <1>1, <1>3, <1>4, <2>1, AfterStop
<1>6. CASE ~ResultMismatch(b)
  <2>1. /\ sp' = PoppedSp(frame)
        /\ fp' = frame.fp
        /\ pc' = IF IsFunction(wasm, b) THEN frame.ra ELSE Instr.next
        /\ status' = IF IsFunction(wasm, b) /\ csp = 0 THEN "true" ELSE "running"
    BY <1>6 DEF End
  <2>2. /\ sp' \in Int /\ fp' \in Int /\ pc' \in Nat /\ status' \in Statuses
        /\ csp' \in -1 .. CALLSTACK_SIZE
    BY <1>1, <1>2, <1>3, <1>4, <2>1 DEF PoppedSp, Frame, ControlTypes, Statuses
  <2>3. ControlTypes'
    BY <1>1, <1>3, <2>2 DEF ControlTypes, Frame
  <2>4. Framed(wasm, callstack, csp - 1)
    BY <1>1, <1>4, FramedBelow DEF Control
  <2>5. CASE IsFunction(wasm, b) /\ csp = 0
    BY <2>1, <2>3, <2>5 DEF ControlInv, Running
  <2>6. CASE IsFunction(wasm, b) /\ csp # 0
    <3>1. csp \in 1 .. csp /\ csp \in 0 .. csp /\ csp - 1 \in 0 .. CALLSTACK_SIZE
      BY <1>1, <1>4, <2>6
    <3>2. /\ frame.ra \in DOMAIN wasm.code
          /\ wasm.owner[frame.ra] = callstack[csp - 1].block
          /\ frame.fp = ActivationFp(wasm, callstack, csp - 1)
      BY <1>1, <2>6, <3>1 DEF Control, Framed, Returns, BehindCall, SavedFps
    <3>3. Control'
      BY <1>3, <2>1, <2>4, <2>6, <3>1, <3>2 DEF Control, BlockAt
    <3> QED
      BY <2>3, <3>3 DEF ControlInv
  <2>7. CASE ~IsFunction(wasm, b)
    <3>1. /\ Instr.next \in DOMAIN wasm.code
          /\ wasm.owner[Instr.next] = Parent(wasm, b)
      BY <1>1, <1>2, <2>7 DEF NestedInstr, Instr
    <3>2. /\ Parent(wasm, b) = wasm.labels[b][1]
          /\ wasm.nest[b] \in Nat /\ wasm.nest[b] >= 1
      <4> DEFINE p == Parent(wasm, b)
      <4>1. /\ p \in DOMAIN wasm.labels
            /\ wasm.nest[b] = wasm.nest[p] + 1
            /\ \A k \in 0 .. wasm.nest[p] : wasm.labels[b][k + 1] = wasm.labels[p][k]
        BY <1>2, <2>7 DEF NestedBlock
      <4>2. NestedBlock(wasm, p)
        BY <1>1, <4>1, BlockFacts
      <4>3. wasm.nest[p] \in Nat /\ wasm.labels[p][0] = p
        BY <4>2 DEF NestedBlock
      <4>4. wasm.labels[b][0 + 1] = wasm.labels[p][0]
        BY <4>1, <4>3
      <4> QED
        BY <4>1, <4>3, <4>4
    <3>3. 1 \in 0 .. wasm.nest[b] /\ csp - 1 \in 0 .. csp
          /\ callstack[csp - 1].block = wasm.labels[b][1]
          /\ ActivationFp(wasm, callstack, csp - 1) = ActivationFp(wasm, callstack, csp)
      <4>1. 1 \in 0 .. wasm.nest[b] /\ Mirrors(wasm, callstack, csp) /\ csp \in 0 .. csp
        BY <1>1, <3>2 DEF Control, Framed
      <4> QED
        BY <1>1, <4>1, LabelAtDepth DEF Mirrors
    <3>4. csp - 1 \in 0 .. CALLSTACK_SIZE
      BY <1>1, <1>4, <3>3
    <3>5. frame.fp = ActivationFp(wasm, callstack, csp)
      BY <1>1, <2>7 DEF Control, Framed, SavedFps
    <3>6. Control'
      BY <1>3, <2>1, <2>4, <2>7, <3>1, <3>2, <3>3, <3>4, <3>5 DEF Control, BlockAt
    <3> QED
      BY <2>3, <3>6 DEF ControlInv
  <2> QED
    BY <2>5, <2>6, <2>7
<1> QED
  BY <1>5, <1>6

-----------------------------------------------------------------------------
(***************************************************************************)
(* Branches.                                                               *)
(***************************************************************************)
LEMMA BrStep ==
  ASSUME ControlInv, Br
  PROVE  ControlInv'
<1>1. Running /\ Goto(Imm) /\ Imm \in Depths(Instr)
  BY DEF Br, Fetch, Running, Imm, Depths
<1>2. sp' \in Int /\ wasm' = wasm /\ fp' = fp /\ callstack' = callstack /\ status' = status
  BY DEF Br, ControlInv, ControlTypes
<1> QED
  BY <1>1, <1>2, InstrAtPc, AfterGoto

LEMMA BrIfStep ==
  ASSUME ControlInv, BrIf
  PROVE  ControlInv'
<1>1. Running /\ Instr.op = "br_if"
  BY DEF BrIf, Fetch, Running
<1>2. /\ sp' \in Int /\ wasm' = wasm /\ fp' = fp /\ callstack' = callstack
      /\ status' = status /\ status' \in Statuses
  BY DEF BrIf, ControlInv, ControlTypes
<1>3. CASE Cond
  <2>1. Goto(Imm) /\ Imm \in Depths(Instr)
    BY <1>1, <1>3 DEF BrIf, Imm, Depths
  <2> QED
    BY <1>1, <1>2, <2>1, InstrAtPc, AfterGoto
<1>4. CASE ~Cond
  <2>1. Advance /\ csp' = csp /\ Instr.op \in PlainOps
    BY <1>1, <1>4 DEF BrIf, PlainOps
  <2> QED
    BY <1>1, <1>2, <2>1, AfterAdvance
<1> QED
  BY <1>3, <1>4

LEMMA BrTableStep ==
  ASSUME ControlInv, BrTable
  PROVE  ControlInv'
<1>1. Running /\ Instr.op = "br_table" /\ Instr.op \in JumpOps
  BY DEF BrTable, Fetch, Running, JumpOps
<1>2. wasm' = wasm /\ fp' = fp /\ callstack' = callstack /\ ControlTypes
  BY DEF BrTable, ControlInv
<1>3. CASE Advance /\ Trap("br_table_size_exceeds_max") /\ UNCHANGED <<sp, csp>>
  BY <1>1, <1>2, <1>3, AfterAdvance DEF Trap, Statuses, ControlTypes
<1>4. CASE sp' = sp - 1 /\ Goto(TableDepth(TopI32)) /\ UNCHANGED <<status, exception>>
  <2>1. TableDepth(TopI32) \in Depths(Instr)
    BY <1>1 DEF TableDepth, Depths, Imm
  <2>2. sp' \in Int
    BY <1>2, <1>4 DEF ControlTypes
  <2> QED
    BY <1>1, <1>2, <1>4, <2>1, <2>2, InstrAtPc, AfterGoto
<1>5. CASE status' = "overrun" /\ UNCHANGED <<pc, sp, csp, exception>>
  BY <1>2, <1>5, AfterStop DEF Statuses, ControlTypes
<1> QED
  BY <1>3, <1>4, <1>5 DEF BrTable

(* The frame Return stops at is the one of the running activation.         *)
LEMMA FunctionFrameFound ==
  ASSUME ControlInv, Running
  PROVE  /\ FunctionFrame = csp - wasm.nest[BlockAt(csp)]
         /\ FunctionFrame \in 0 .. csp
         /\ IsFunction(wasm, BlockAt(FunctionFrame))
<1> DEFINE depth == wasm.nest[BlockAt(csp)]
           n == csp - depth
           P(i) == /\ IsFunction(wasm, callstack[i].block)
                   /\ \A j \in i + 1 .. csp : ~IsFunction(wasm, callstack[j].block)
<1>1. wasm \in Modules /\ csp \in Nat /\ Mirrors(wasm, callstack, csp)
  BY InstrAtPc DEF Control, Framed
<1>2. depth \in 0 .. csp /\ n \in 0 .. csp
  BY <1>1 DEF Mirrors, BlockAt
<1>3. \A d \in 0 .. depth : IsFunction(wasm, callstack[csp - d].block) <=> d = depth
  <2> SUFFICES ASSUME NEW d \in 0 .. depth
               PROVE  IsFunction(wasm, callstack[csp - d].block) <=> d = depth
    OBVIOUS
  <2>1. /\ callstack[csp - d].block \in DOMAIN wasm.labels
        /\ wasm.nest[callstack[csp - d].block] = depth - d
    BY <1>1, LabelAtDepth DEF BlockAt
  <2>2. NestedBlock(wasm, callstack[csp - d].block)
    BY <1>1, <2>1, BlockFacts
  <2>3. depth - d = 0 <=> d = depth
    BY <1>2
  <2> QED
    BY <2>1, <2>2, <2>3 DEF NestedBlock
<1>4. P(n)
  <2>1. \A j \in n + 1 .. csp : csp - j \in 0 .. depth /\ csp - j # depth /\ csp - (csp - j) = j
    BY <1>1, <1>2
  <2>2. depth \in 0 .. depth
    BY <1>2
  <2> QED
    BY <1>3, <2>1, <2>2
<1>5. ASSUME NEW i \in 0 .. csp, P(i)
      PROVE  i = n
  <2>1. CASE i < n
    <3>1. n \in i + 1 .. csp
      BY <1>1, <1>2, <2>1
    <3> QED
      BY <1>4, <1>5, <3>1
  <2>2. CASE i > n
    <3>1. csp - i \in 0 .. depth /\ csp - i # depth /\ csp - (csp - i) = i
      BY <1>1, <1>2, <2>2
    <3> QED
      BY <1>3, <1>5, <3>1
  <2> QED
    BY <1>1, <1>2, <2>1, <2>2
<1> HIDE DEF n, P
<1>6. (CHOOSE i \in 0 .. csp : P(i)) = n
  BY <1>2, <1>4, <1>5
<1> QED
  BY <1>2, <1>4, <1>6 DEF P, n, FunctionFrame, BlockAt

LEMMA ReturnStep ==
  ASSUME ControlInv, Return
  PROVE  ControlInv'
<1> DEFINE depth == wasm.nest[BlockAt(csp)]
           b == callstack[FunctionFrame].block
<1>1. Running /\ wasm \in Modules /\ csp \in Nat /\ sp \in Int /\ Control
  BY InstrAtPc DEF Return, Fetch, Running, ControlTypes
<1>2. /\ FunctionFrame = csp - depth
      /\ FunctionFrame \in 0 .. csp
      /\ IsFunction(wasm, b)
  BY <1>1, FunctionFrameFound DEF BlockAt
<1>3. depth \in Nat /\ b \in DOMAIN wasm.labels
  BY <1>1, <1>2 DEF Control, Framed, Mirrors, BlockAt
<1>4. wasm.block[b].br_addr = wasm.block[b].end_addr
  <2>1. NestedBlock(wasm, b)
    BY <1>1, <1>3, BlockFacts
  <2> QED
    BY <1>2, <2>1 DEF NestedBlock, IsFunction
<1>5. Goto(depth)
  BY <1>2, <1>4 DEF Return, Goto, LabelFrame, Block
<1>6. /\ wasm' = wasm /\ sp' = sp /\ fp' = fp /\ callstack' = callstack /\ status' = status
      /\ depth \in 0 .. depth
  BY <1>3 DEF Return
<1> QED
  BY <1>1, <1>5, <1>6, AfterGoto

-----------------------------------------------------------------------------
(***************************************************************************)
(* Calls.                                                                  *)
(***************************************************************************)
(* The callee's frame returns behind the call instruction.                 *)
LEMMA AfterEnterFunction ==
  ASSUME ControlInv, Running, Instr.op \in {"call", "call_indirect"}, ~CallStackExhausted,
         NEW fidx \in DOMAIN wasm.functions, ~IsImport(fidx),
         NEW top \in Int, EnterFunction(fidx, top),
         wasm' = wasm, status' \in Statuses
  PROVE  ControlInv'
<1>1. /\ ControlTypes /\ Control /\ NestedInstr(wasm, pc)
      /\ csp \in Nat /\ Instr.next \in Nat /\ fp \in Int
  BY InstrAtPc DEF ControlTypes
<1>2. BehindCall(wasm, callstack[csp].block, Instr.next)
  BY <1>1 DEF NestedInstr, Instr, Control, BlockAt, PlainOps, BehindCall
<1>3. csp \in -1 .. CALLSTACK_SIZE - 1
  BY <1>1, SizesAssumption DEF CallStackExhausted
<1>4. SetupCall(fidx, stack, top, csp, fp, Instr.next)
  BY DEF EnterFunction
<1>5. Framed(wasm, callstack, csp) /\ fp = ActivationFp(wasm, callstack, csp)
  BY <1>1 DEF Control
<1> QED
  BY <1>1, <1>2, <1>3, <1>4, <1>5, AfterSetupCall

LEMMA CallStep ==
  ASSUME ControlInv, Call
  PROVE  ControlInv'
<1>1. /\ Running /\ Instr.op = "call" /\ Instr.op \in PlainOps
      /\ Instr.op \in {"call", "call_indirect"}
  BY DEF Call, Fetch, Running, PlainOps
<1>2. /\ ControlTypes /\ Instr.next \in Nat /\ sp \in Int
      /\ Imm \in DOMAIN wasm.functions
  BY <1>1, InstrAtPc DEF NestedInstr, Instr, Imm, ControlTypes
<1>3. CASE IsImport(Imm)
  BY <1>1, <1>2, <1>3, AfterAdvance DEF Call, Overrun, ControlTypes
<1>4. CASE ~IsImport(Imm) /\ Exhausted /\ UNCHANGED <<wasm, sp, fp, stack, csp, callstack, globals>>
           /\ Advance
  BY <1>1, <1>2, <1>4, AfterAdvance DEF Exhausted, Trap, Statuses, ControlTypes
<1>5. CASE ~IsImport(Imm) /\ ~CallStackExhausted /\ EnterFunction(Imm, sp)
           /\ UNCHANGED <<wasm, globals, status, exception>>
  BY <1>1, <1>2, <1>5, AfterEnterFunction DEF ControlTypes
<1>6. CASE Overrun(CalleeTop(Imm, sp))
  BY <1>6, AfterOverrun
<1> QED
  BY <1>3, <1>4, <1>5, <1>6 DEF Call

LEMMA CallIndirectStep ==
  ASSUME ControlInv, CallIndirect
  PROVE  ControlInv'
<1>1. /\ Running /\ Instr.op \in PlainOps /\ Instr.op \in {"call", "call_indirect"}
  BY DEF CallIndirect, Fetch, Running, PlainOps
<1>2. ControlTypes /\ Instr.next \in Nat /\ sp \in Int /\ sp - 1 \in Int /\ wasm \in Modules
  BY <1>1, InstrAtPc DEF ControlTypes
(* Past the end of the table.                                              *)
<1>3. CASE status' = "overread" /\ UNCHANGED <<machine, wasm, globals, exception>>
  <2>1. pc' = pc /\ sp' = sp /\ fp' = fp /\ csp' = csp /\ callstack' = callstack /\ wasm' = wasm
    BY <1>3 DEF machine
  <2>2. status' \in Statuses \ {"running"}
    BY <1>3 DEF Statuses
  <2> QED
    BY <1>2, <2>1, <2>2, AfterStop DEF ControlTypes
(* An import, or one of the failures before the call.                      *)
<1>4. CASE /\ Advance /\ sp' = sp - 1
           /\ UNCHANGED <<wasm, fp, stack, csp, callstack, globals>>
           /\ status' \in Statuses
  BY <1>1, <1>2, <1>4, AfterAdvance
<1>5. CASE /\ Allocated(TopI32) /\ ~IsImport(Callee) /\ ~CallStackExhausted
           /\ EnterFunction(Callee, sp - 1)
           /\ wasm' = wasm
           /\ status' \in Statuses
  <2>1. Callee \in DOMAIN wasm.functions
    BY <1>2, <1>5, NestingAssumption DEF WellNested, Callee, Allocated
  <2> QED
    BY <1>1, <1>2, <1>5, <2>1, AfterEnterFunction
<1>6. CASE Overrun(CalleeTop(Callee, sp - 1))
  BY <1>6, AfterOverrun
<1>7. CASE Advance /\ Trap("undefined_element") /\ sp' = sp - 1
           /\ UNCHANGED <<wasm, fp, stack, csp, callstack, globals>>
  BY <1>4, <1>7 DEF Trap, Statuses
<1>8. CASE Allocated(TopI32) /\ CallEntry
  <2>1. CASE /\ Advance /\ sp' = sp - 1
             /\ UNCHANGED <<wasm, fp, stack, csp, callstack, globals, status, exception>>
    BY <1>2, <1>4, <2>1 DEF ControlTypes
  <2>2. CASE /\ Exhausted \/ Trap("indirect_call_type_mismatch")
             /\ Advance /\ sp' = sp - 1
             /\ UNCHANGED <<wasm, fp, stack, csp, callstack, globals>>
    BY <1>4, <2>2 DEF Exhausted, Trap, Statuses
  <2>3. CASE /\ ~IsImport(Callee) /\ ~CallStackExhausted
             /\ EnterFunction(Callee, sp - 1)
             /\ IF ParamMismatch THEN Trap("indirect_call_type_mismatch")
                                 ELSE UNCHANGED <<status, exception>>
             /\ UNCHANGED <<wasm, globals>>
    <3>1. status' \in Statuses
      BY <1>2, <2>3 DEF Trap, Statuses, ControlTypes
    <3> QED
      BY <1>5, <1>8, <2>3, <3>1
  <2> QED
    BY <1>6, <1>8, <2>1, <2>2, <2>3 DEF CallEntry
<1> QED
  BY <1>3, <1>7, <1>8 DEF CallIndirect

(* invoke(): the call stack is empty again.                                *)
LEMMA InvokeStep ==
  ASSUME ControlInv, InvokeExport
  PROVE  ControlInv'
<1>1. PICK fidx \in wasm.exports :
        \E args \in Arguments(Block(wasm.functions[fidx]).type) : Invoke(fidx, args)
  BY DEF InvokeExport
<1>2. PICK args \in Arguments(Block(wasm.functions[fidx]).type) : Invoke(fidx, args)
  BY <1>1
<1> DEFINE b == wasm.functions[fidx]
           top == Len(Block(b).type.params) - 1
<1>3. ControlTypes /\ wasm \in Modules /\ pc \in Nat
  BY DEF ControlInv, ControlTypes
<1>4. WellNested(wasm)
  BY <1>3, NestingAssumption
<1>5. fidx \in DOMAIN wasm.functions /\ ~IsImport(fidx) /\ b \in DOMAIN wasm.block
  BY <1>1, <1>4 DEF WellNested, IsImport
<1>6. top \in Int
  BY <1>3, <1>5, CountFacts DEF ParamCount, Block
<1>7. CASE Overrun(CalleeTop(fidx, top))
  BY <1>7, AfterOverrun
<1>8. CASE ~Overrun(CalleeTop(fidx, top))
  <2>1. /\ SetupCall(fidx, PushArgs(Block(b).type, args), top, -1, -1, pc)
        /\ wasm' = wasm /\ status' \in Statuses
    BY <1>2, <1>8 DEF Invoke, Statuses
  <2>2. Framed(wasm, callstack, -1)
    BY DEF Framed, Mirrors, Returns, SavedFps
  <2>3. -1 \in -1 .. CALLSTACK_SIZE - 1 /\ -1 \in Int /\ ~(-1 >= 0)
    BY SizesAssumption
  <2> HIDE DEF top
  <2> QED
    BY <1>3, <1>5, <1>6, <2>1, <2>2, <2>3, AfterSetupCall
<1> QED
  BY <1>7, <1>8

-----------------------------------------------------------------------------
(***************************************************************************)
(* The theorems on control.                                                *)
(***************************************************************************)
LEMMA ControlInit == Init => ControlInv
<1> SUFFICES ASSUME Init
             PROVE  ControlInv
  OBVIOUS
<1>1. csp \in -1 .. CALLSTACK_SIZE
  BY SizesAssumption DEF Init
<1>2. callstack \in [0 .. CALLSTACK_SIZE -> Frame]
  BY DEF Init, Frame
<1> QED
  BY <1>1, <1>2 DEF Init, ControlInv, ControlTypes, Running, Statuses

LEMMA ControlNext == ControlInv /\ [Next]_vars => ControlInv'
<1> SUFFICES ASSUME ControlInv, [Next]_vars
             PROVE  ControlInv'
  OBVIOUS
<1>1. CASE Step
  BY <1>1, OperandSteps, FailingSteps, BlockOrLoopStep, IfStep, ElseStep, EndStep,
     BrStep, BrIfStep, BrTableStep, ReturnStep, CallStep, CallIndirectStep DEF Step
<1>2. CASE InvokeExport
  BY <1>2, InvokeStep
<1>3. CASE UNCHANGED vars
  BY <1>3 DEF vars, ControlInv, ControlTypes, Control, Running, Frame, BlockAt,
              Framed, Mirrors, Returns, SavedFps, ActivationFp
<1> QED
  BY <1>1, <1>2, <1>3 DEF Next, Gone

THEOREM ControlInvariant == Spec => []ControlInv
<1> QED
  BY ControlInit, ControlNext, PTL DEF Spec

(* At every instruction the frames on the call stack are the blocks around *)
(* it, and below them those around each call that waits: br, else, end and *)
(* return find in callstack what they take for granted.                    *)
THEOREM FramesAlwaysMirrorNesting == Spec => []FramesMirrorNesting
<1>1. ControlInv => FramesMirrorNesting
  BY DEF ControlInv, Control, FramesMirrorNesting, Framed
<1> QED
  BY <1>1, ControlInvariant, PTL

(* Every waiting call resumes in the block it was made from.               *)
THEOREM CallsReturnToTheirCaller == Spec => []ReturnAddresses
<1>1. ControlInv => ReturnAddresses
  BY DEF ControlInv, Control, ReturnAddresses, Framed
<1> QED
  BY <1>1, ControlInvariant, PTL

(* fp is the base of the running activation and every frame saved the base *)
(* that pop_block has to restore, although branches and returns skip the   *)
(* pop_block of the frames they discard.                                   *)
THEOREM FpIsAlwaysTheActivationBase == Spec => []FpDiscipline
<1>1. ControlInv => FpDiscipline
  BY DEF ControlInv, Control, FpDiscipline, Framed
<1> QED
  BY <1>1, ControlInvariant, PTL

-----------------------------------------------------------------------------
(***************************************************************************)
(* The invariant of operands.  The slack of a frame is what lies below the *)
(* operands of its block, without what validation says is there: operands  *)
(* that branches left behind, and what the callers have on the stack.  It  *)
(* never shrinks from a frame to one above it in the same activation.      *)
(***************************************************************************)
Covers(w, x, y) == x >= y /\ (Exact(w) => x = y)

Slack(w, frames, i) == Floor(w, frames, i) - EntryHeight(w, frames[i].block)

Entered(w, frames, top) ==
  \A i \in 0 .. top :
    /\ frames[i].sp \in Int
    /\ IsFunction(w, frames[i].block) => frames[i].sp >= -1
    /\ EntryHeight(w, frames[i].block) \in Nat

Layered(w, frames, top) ==
  \A i \in 0 .. top : \A k \in 0 .. w.nest[frames[i].block] :
    Covers(w, Slack(w, frames, i), Slack(w, frames, i - k))

(* With the callee's result a waiting caller has its operands again.       *)
Resumes(w, frames, i) ==
  LET results == ResultCount(w, frames[i].block)
      height == w.height[frames[i].ra] IN
  /\ frames[i].ra \in DOMAIN w.height
  /\ height >= results
  /\ Covers(w, frames[i].sp + results - height, Slack(w, frames, i - 1))

Resumable(w, frames, top) ==
  \A i \in 1 .. top : IsFunction(w, frames[i].block) => Resumes(w, frames, i)

Stacked(w, frames, top) ==
  Entered(w, frames, top) /\ Layered(w, frames, top) /\ Resumable(w, frames, top)

Operands ==
  /\ pc \in DOMAIN wasm.height
  /\ callstack[0].sp = -1
  /\ Stacked(wasm, callstack, csp)
  /\ Covers(wasm, sp - wasm.height[pc], Slack(wasm, callstack, csp))

OperandInv == Running => Operands

-----------------------------------------------------------------------------
(***************************************************************************)
(* What the typing derivation says of one instruction and of one block.    *)
(***************************************************************************)
LEMMA CoversOrder ==
  ASSUME NEW w, NEW x \in Int, NEW y \in Int, NEW z \in Int
  PROVE  /\ Covers(w, x, x)
         /\ Covers(w, x, y) /\ Covers(w, y, z) => Covers(w, x, z)
BY DEF Covers

LEMMA TypedFacts ==
  ASSUME NEW w \in Modules, NEW a \in DOMAIN w.height
  PROVE  a \in DOMAIN w.code /\ w.height[a] \in Nat /\ TypedInstr(w, a)
<1>1. a \in DOMAIN w.code /\ TypedInstr(w, a)
  BY TypingAssumption DEF WellTyped
<1> QED
  BY <1>1 DEF TypedInstr

LEMMA BlockCounts ==
  ASSUME NEW w \in Modules, NEW b \in DOMAIN w.labels
  PROVE  /\ ResultCount(w, b) \in 0 .. 1
         /\ SlotCount(w, b) \in Nat
         /\ w.block[b].block_type \in BlockType
<1>1. b \in DOMAIN w.block
  BY BlockFacts
<1>2. ParamCount(w, b) \in Nat /\ LocalCount(w, b) \in Nat /\ ResultCount(w, b) \in Nat
  BY <1>1, CountFacts
<1>3. ResultCount(w, b) <= 1
  BY TypingAssumption DEF WellTyped
<1>4. w.block[b].block_type \in BlockType
  BY <1>1, NestingAssumption DEF WellNested
<1> QED
  BY <1>2, <1>3, <1>4 DEF SlotCount

LEMMA SlackIsNumber ==
  ASSUME NEW w \in Modules, NEW cs, NEW n, Mirrors(w, cs, n), Entered(w, cs, n),
         NEW i \in 0 .. n
  PROVE  Slack(w, cs, i) \in Int
<1>1. SlotCount(w, cs[i].block) \in Nat
  BY BlockCounts DEF Mirrors
<1>2. cs[i].sp \in Int /\ EntryHeight(w, cs[i].block) \in Nat
  BY DEF Entered
<1>3. Floor(w, cs, i) \in Int
  BY <1>1, <1>2 DEF Floor
<1> QED
  BY <1>2, <1>3 DEF Slack

-----------------------------------------------------------------------------
(***************************************************************************)
(* Pushing and popping frames.                                             *)
(***************************************************************************)
LEMMA StackedBelow ==
  ASSUME NEW w, NEW cs, NEW n \in Int, NEW m \in Int, m <= n, Stacked(w, cs, n)
  PROVE  Stacked(w, cs, m)
BY DEF Stacked, Entered, Layered, Resumable

LEMMA SameSlack ==
  ASSUME NEW w, NEW cs, NEW new, NEW i, new[i] = cs[i]
  PROVE  Slack(w, new, i) = Slack(w, cs, i)
BY DEF Slack, Floor

LEMMA StackedAbove ==
  ASSUME NEW w, NEW cs, NEW new, NEW n \in Int, Mirrors(w, cs, n), Stacked(w, cs, n),
         \A i \in 0 .. n : new[i] = cs[i]
  PROVE  Stacked(w, new, n)
<1>1. \A i \in 0 .. n : \A k \in 0 .. w.nest[cs[i].block] : i - k \in 0 .. n
  BY DEF Mirrors
<1>2. \A i \in 0 .. n : Slack(w, new, i) = Slack(w, cs, i)
  BY SameSlack
<1>3. Entered(w, new, n)
  BY DEF Stacked, Entered
<1>4. Layered(w, new, n)
  <2> SUFFICES ASSUME NEW i \in 0 .. n, NEW k \in 0 .. w.nest[new[i].block]
               PROVE  Covers(w, Slack(w, new, i), Slack(w, new, i - k))
    BY DEF Layered
  <2>1. k \in 0 .. w.nest[cs[i].block] /\ i - k \in 0 .. n
    BY <1>1
  <2> QED
    BY <2>1, <1>2 DEF Stacked, Layered
<1>5. Resumable(w, new, n)
  <2> SUFFICES ASSUME NEW i \in 1 .. n, IsFunction(w, new[i].block)
               PROVE  Resumes(w, new, i)
    BY DEF Resumable
  <2>1. i \in 0 .. n /\ i - 1 \in 0 .. n
    OBVIOUS
  <2>2. new[i] = cs[i] /\ Slack(w, new, i - 1) = Slack(w, cs, i - 1)
    BY <2>1, <1>2
  <2>3. Resumes(w, cs, i)
    BY <2>2 DEF Stacked, Resumable
  <2> QED
    BY <2>2, <2>3 DEF Resumes
<1> QED
  BY <1>3, <1>4, <1>5 DEF Stacked

(* push_block for a block opened in the block on top: its slack is that of *)
(* the operands around it.                                                 *)
LEMMA StackedPushBlock ==
  ASSUME NEW w \in Modules, NEW cs, NEW new, NEW n \in Nat,
         Mirrors(w, cs, n), Mirrors(w, new, n + 1), Stacked(w, cs, n),
         \A i \in 0 .. n : new[i] = cs[i],
         ~IsFunction(w, new[n + 1].block), Parent(w, new[n + 1].block) = cs[n].block,
         new[n + 1].sp \in Int, EntryHeight(w, new[n + 1].block) \in Nat,
         Covers(w, Slack(w, new, n + 1), Slack(w, cs, n))
  PROVE  Stacked(w, new, n + 1)
<1> DEFINE b == new[n + 1].block
           p == cs[n].block
<1>1. Stacked(w, new, n)
  BY StackedAbove
<1>2. \A i \in 0 .. n + 1 : i \in 0 .. n \/ i = n + 1
  OBVIOUS
<1>3. Entered(w, new, n + 1)
  BY <1>1, <1>2 DEF Stacked, Entered
<1>4. /\ b \in DOMAIN w.labels /\ p \in DOMAIN w.labels
      /\ w.nest[p] \in 0 .. n
      /\ n + 1 \in 0 .. n + 1 /\ n \in 0 .. n
  BY DEF Mirrors
<1>5. w.nest[b] = w.nest[p] + 1
  <2>1. NestedBlock(w, b)
    BY <1>4, BlockFacts
  <2> QED
    BY <2>1 DEF NestedBlock
<1>6. Slack(w, new, n + 1) \in Int
  BY <1>3, <1>4, SlackIsNumber
<1>7. \A k \in 0 .. w.nest[b] : Covers(w, Slack(w, new, n + 1), Slack(w, new, (n + 1) - k))
  <2> SUFFICES ASSUME NEW k \in 0 .. w.nest[b]
               PROVE  Covers(w, Slack(w, new, n + 1), Slack(w, new, (n + 1) - k))
    OBVIOUS
  <2>1. CASE k = 0
    <3>1. (n + 1) - k = n + 1
      BY <2>1
    <3> QED
      BY <3>1, <1>6, CoversOrder
  <2>2. CASE k # 0
    <3>1. k - 1 \in 0 .. w.nest[p] /\ (n + 1) - k = n - (k - 1) /\ n - (k - 1) \in 0 .. n
      BY <2>2, <1>4, <1>5
    <3>2. Slack(w, new, (n + 1) - k) = Slack(w, cs, n - (k - 1))
      BY <3>1, SameSlack
    <3>3. Covers(w, Slack(w, cs, n), Slack(w, cs, n - (k - 1)))
      BY <3>1, <1>4 DEF Stacked, Layered
    <3>4. Slack(w, cs, n) \in Int /\ Slack(w, cs, n - (k - 1)) \in Int
      BY <3>1, <1>4, SlackIsNumber DEF Stacked
    <3> QED
      BY <3>2, <3>3, <3>4, <1>6, CoversOrder
  <2> QED
    BY <2>1, <2>2
<1>8. Layered(w, new, n + 1)
  BY <1>1, <1>2, <1>7 DEF Stacked, Layered
<1>9. Resumable(w, new, n + 1)
  <2>1. \A i \in 1 .. n + 1 : i \in 1 .. n \/ i = n + 1
    OBVIOUS
  <2> QED
    BY <1>1, <2>1 DEF Stacked, Resumable
<1> QED
  BY <1>3, <1>8, <1>9 DEF Stacked

(* push_block for a function: its own part of the stack begins here.       *)
LEMMA StackedPushFunction ==
  ASSUME NEW w \in Modules, NEW cs, NEW new, NEW n \in Nat \cup {-1},
         Mirrors(w, cs, n), Mirrors(w, new, n + 1), Stacked(w, cs, n),
         \A i \in 0 .. n : new[i] = cs[i],
         IsFunction(w, new[n + 1].block), new[n + 1].sp \in Int, new[n + 1].sp >= -1,
         n >= 0 => Resumes(w, new, n + 1)
  PROVE  Stacked(w, new, n + 1)
<1> DEFINE b == new[n + 1].block
<1>1. Stacked(w, new, n)
  BY StackedAbove
<1>2. \A i \in 0 .. n + 1 : i \in 0 .. n \/ i = n + 1
  OBVIOUS
<1>3. w.nest[b] = 0
  <2>1. n + 1 \in 0 .. n + 1
    OBVIOUS
  <2>2. NestedBlock(w, b)
    BY <2>1, BlockFacts DEF Mirrors
  <2> QED
    BY <2>2 DEF NestedBlock
<1>4. EntryHeight(w, b) = 0
  BY DEF EntryHeight
<1>5. Entered(w, new, n + 1)
  BY <1>1, <1>2, <1>4 DEF Stacked, Entered
<1>6. Covers(w, Slack(w, new, n + 1), Slack(w, new, (n + 1) - 0))
  <2>1. n + 1 \in 0 .. n + 1 /\ (n + 1) - 0 = n + 1
    OBVIOUS
  <2>2. Slack(w, new, n + 1) \in Int
    BY <1>5, <2>1, SlackIsNumber
  <2> QED
    BY <2>1, <2>2, CoversOrder
<1>7. Layered(w, new, n + 1)
  <2>1. \A k \in 0 .. w.nest[b] : k = 0
    BY <1>3
  <2> QED
    BY <1>1, <1>2, <1>6, <2>1 DEF Stacked, Layered
<1>8. Resumable(w, new, n + 1)
  <2>1. \A i \in 1 .. n + 1 : i \in 1 .. n \/ (i = n + 1 /\ n >= 0)
    OBVIOUS
  <2> QED
    BY <1>1, <2>1 DEF Stacked, Resumable
<1> QED
  BY <1>5, <1>7, <1>8 DEF Stacked

-----------------------------------------------------------------------------
(***************************************************************************)
(* The instruction at pc.                                                  *)
(***************************************************************************)
LEMMA TypedAtPc ==
  ASSUME ControlInv, Running, Operands
  PROVE  /\ wasm \in Modules /\ csp \in Nat /\ sp \in Int
         /\ NestedInstr(wasm, pc) /\ TypedInstr(wasm, pc)
         /\ Instr = wasm.code[pc]
         /\ wasm.height[pc] \in Nat
         /\ wasm.owner[pc] = BlockAt(csp)
         /\ BlockAt(csp) \in DOMAIN wasm.labels
         /\ wasm.nest[BlockAt(csp)] \in 0 .. csp
<1>1. wasm \in Modules /\ csp \in Nat /\ sp \in Int /\ NestedInstr(wasm, pc) /\ Control
  BY InstrAtPc DEF ControlTypes
<1>2. TypedInstr(wasm, pc) /\ wasm.height[pc] \in Nat
  BY <1>1, TypedFacts DEF Operands
<1>3. csp \in 0 .. csp
  BY <1>1
<1> QED
  BY <1>1, <1>2, <1>3 DEF Control, Framed, Mirrors, BlockAt, Instr

(* What it takes and gives are numbers, and there is enough to take.       *)
LEMMA Effect ==
  ASSUME ControlInv, Running, Operands
  PROVE  /\ Pops(wasm, Instr) \in Nat /\ Pushes(wasm, Instr) \in Nat
         /\ wasm.height[pc] - Pops(wasm, Instr) \in Nat
<1>1. /\ wasm \in Modules /\ NestedInstr(wasm, pc) /\ TypedInstr(wasm, pc)
      /\ Instr = wasm.code[pc] /\ Instr.op \in Ops
  BY TypedAtPc DEF NestedInstr
<1>2. wasm.height[pc] - Pops(wasm, Instr) \in Nat
  BY <1>1 DEF TypedInstr
<1>3. CASE Instr.op = "call"
  <2>1. wasm.functions[Instr.imm] \in DOMAIN wasm.block
    BY <1>1, <1>3, NestingAssumption DEF NestedInstr, WellNested
  <2>2. /\ ParamCount(wasm, wasm.functions[Instr.imm]) \in Nat
        /\ ResultCount(wasm, wasm.functions[Instr.imm]) \in Nat
    BY <1>1, <2>1, CountFacts
  <2> QED
    BY <1>2, <1>3, <2>2 DEF Pops, Pushes
<1>4. CASE Instr.op = "call_indirect"
  <2>1. wasm.types[Instr.imm] \in FuncType
    BY <1>1, <1>4 DEF TypedInstr
  <2>2. Len(wasm.types[Instr.imm].params) \in Nat /\ Len(wasm.types[Instr.imm].results) \in Nat
    BY <2>1, LenProperties DEF FuncType
  <2> QED
    BY <1>2, <1>4, <2>2 DEF Pops, Pushes
<1>5. CASE Instr.op \notin {"call", "call_indirect"}
  <2>1. Pops(wasm, Instr) \in 0 .. 3 /\ Pushes(wasm, Instr) \in 0 .. 1
    BY <1>5 DEF Pops, Pushes
  <2> QED
    BY <1>2, <2>1
<1> QED
  BY <1>3, <1>4, <1>5

-----------------------------------------------------------------------------
(***************************************************************************)
(* What preserves the slack, by what happens to the call stack.            *)
(***************************************************************************)
(* The same activation goes on, d labels further out.                      *)
LEMMA InActivation ==
  ASSUME ControlInv, Running, Operands, NEW d \in 0 .. wasm.nest[BlockAt(csp)],
         wasm' = wasm, csp' = csp - d, sp' \in Int,
         \A i \in 0 .. csp : callstack'[i] = callstack[i],
         pc' \in DOMAIN wasm.height,
         Covers(wasm, sp' - wasm.height[pc'], sp - wasm.height[pc])
  PROVE  Operands'
<1>1. /\ wasm \in Modules /\ csp \in Nat /\ sp \in Int /\ wasm.height[pc] \in Nat
      /\ wasm.nest[BlockAt(csp)] \in 0 .. csp
  BY TypedAtPc
<1>2. Mirrors(wasm, callstack, csp) /\ Stacked(wasm, callstack, csp)
  BY DEF ControlInv, Control, Framed, Operands
<1>3. csp' \in 0 .. csp /\ csp \in 0 .. csp /\ d \in 0 .. wasm.nest[callstack[csp].block]
  BY <1>1 DEF BlockAt
<1>4. Stacked(wasm, callstack', csp')
  <2>1. Stacked(wasm, callstack', csp)
    BY <1>1, <1>2, StackedAbove
  <2> QED
    BY <1>1, <1>3, <2>1, StackedBelow
<1>5. Slack(wasm, callstack', csp') = Slack(wasm, callstack, csp - d)
  BY <1>3, SameSlack
<1>6. Covers(wasm, Slack(wasm, callstack, csp), Slack(wasm, callstack, csp - d))
  BY <1>2, <1>3 DEF Stacked, Layered
<1>7. /\ Slack(wasm, callstack, csp) \in Int /\ Slack(wasm, callstack, csp - d) \in Int
      /\ wasm.height[pc'] \in Nat
  BY <1>1, <1>2, <1>3, SlackIsNumber, TypedFacts DEF Stacked
<1>8. Covers(wasm, sp' - wasm.height[pc'], Slack(wasm, callstack', csp'))
  <2>1. sp' - wasm.height[pc'] \in Int /\ sp - wasm.height[pc] \in Int
    BY <1>1, <1>7
  <2>2. Covers(wasm, sp - wasm.height[pc], Slack(wasm, callstack, csp))
    BY DEF Operands
  <2>3. Covers(wasm, sp' - wasm.height[pc'], Slack(wasm, callstack, csp))
    BY <1>7, <2>1, <2>2, CoversOrder
  <2> QED
    BY <1>5, <1>6, <1>7, <2>1, <2>3, CoversOrder
<1>9. callstack'[0].sp = -1
  BY <1>1, <1>3 DEF Operands
<1> QED
  BY <1>4, <1>8, <1>9 DEF Operands

(* The next instruction, with what this one takes and gives.               *)
LEMMA Onward ==
  ASSUME ControlInv, Running, Operands, Instr.op \in PlainOps, Advance,
         wasm' = wasm, csp' = csp, callstack' = callstack, sp' \in Int,
         Covers(wasm, sp', sp - Pops(wasm, Instr) + Pushes(wasm, Instr))
  PROVE  Operands'
<1> DEFINE pops == Pops(wasm, Instr)
           pushes == Pushes(wasm, Instr)
<1>1. /\ TypedInstr(wasm, pc) /\ Instr = wasm.code[pc]
      /\ sp \in Int /\ csp \in Nat /\ wasm.height[pc] \in Nat
      /\ wasm.nest[BlockAt(csp)] \in 0 .. csp
  BY TypedAtPc
<1>2. pops \in Nat /\ pushes \in Nat
  BY Effect
<1>3. pc' \in DOMAIN wasm.height /\ wasm.height[pc'] = wasm.height[pc] - pops + pushes
  BY <1>1 DEF TypedInstr, Reached, Advance
<1>4. Covers(wasm, sp' - wasm.height[pc'], sp - wasm.height[pc])
  <2> HIDE DEF pops, pushes
  <2>1. Covers(wasm, sp', sp - pops + pushes)
    BY DEF pops, pushes
  <2> QED
    BY <1>1, <1>2, <1>3, <2>1 DEF Covers
<1>5. 0 \in 0 .. wasm.nest[BlockAt(csp)] /\ csp' = csp - 0
  BY <1>1
<1> QED
  BY <1>1, <1>3, <1>4, <1>5, InActivation

(* The label at depth d, with or without an operand taken before.          *)
LEMMA ToLabel ==
  ASSUME ControlInv, Running, Operands, NEW d \in Depths(Instr), Goto(d),
         wasm' = wasm, callstack' = callstack, sp' = sp - Pops(wasm, Instr)
  PROVE  Operands'
<1> DEFINE b == wasm.owner[pc]
           target == wasm.block[wasm.labels[b][d]].br_addr
           h == wasm.height[pc] - Pops(wasm, Instr)
<1>1. /\ wasm \in Modules /\ TypedInstr(wasm, pc) /\ Instr = wasm.code[pc]
      /\ sp \in Int /\ csp \in Nat /\ wasm.height[pc] \in Nat
      /\ b = BlockAt(csp)
  BY TypedAtPc
<1>2. d \in 0 .. wasm.nest[BlockAt(csp)]
  BY InstrAtPc
<1>3. callstack[csp - d].block = wasm.labels[b][d]
  <2>1. Mirrors(wasm, callstack, csp) /\ csp \in 0 .. csp
    BY <1>1 DEF ControlInv, Control, Framed
  <2> QED
    BY <1>1, <1>2, <2>1 DEF Mirrors, BlockAt
<1>4. csp' = csp - d /\ pc' = target
  BY <1>3 DEF Goto, LabelFrame, Block
<1>5. pc' \in DOMAIN wasm.height /\ wasm.height[pc'] <= h
  BY <1>1, <1>4 DEF TypedInstr, Reached
<1>6. Tidy(wasm) => wasm.height[pc'] = h
  BY <1>1, <1>4 DEF Tidy, Operands
<1>7. Pops(wasm, Instr) \in Nat /\ wasm.height[pc'] \in Nat
  BY <1>1, <1>5, Effect, TypedFacts
<1>8. Covers(wasm, sp' - wasm.height[pc'], sp - wasm.height[pc])
  BY <1>1, <1>5, <1>6, <1>7 DEF Covers, Exact
<1>9. sp' \in Int /\ \A i \in 0 .. csp : callstack'[i] = callstack[i]
  BY <1>1, <1>7
<1> QED
  BY <1>2, <1>4, <1>5, <1>8, <1>9, InActivation

(* Into a block opened here.                                               *)
LEMMA IntoBlock ==
  ASSUME ControlInv, ControlInv', Running, Running', Operands,
         Instr.op \in BlockOps, ~CallStackExhausted,
         PushBlock(wasm.block_lookup[pc], sp, csp, fp, Instr.next),
         wasm' = wasm, sp' = sp - Pops(wasm, Instr),
         Reached(wasm, pc', wasm.height[pc] - Pops(wasm, Instr))
  PROVE  Operands'
<1> DEFINE b == wasm.block_lookup[pc]
           h == wasm.height[pc] - Pops(wasm, Instr)
           frame == [block |-> b, sp |-> sp, fp |-> fp, ra |-> Instr.next]
<1>1. /\ wasm \in Modules /\ TypedInstr(wasm, pc) /\ NestedInstr(wasm, pc)
      /\ Instr = wasm.code[pc] /\ sp \in Int /\ csp \in Nat /\ wasm.height[pc] \in Nat
      /\ wasm.owner[pc] = BlockAt(csp)
  BY TypedAtPc
<1>2. /\ b \in DOMAIN wasm.labels
      /\ wasm.block[b].block_type = Instr.op
      /\ wasm.block[b].start_addr = pc
  BY <1>1 DEF NestedInstr
<1>3. ~IsFunction(wasm, b) /\ Parent(wasm, b) = callstack[csp].block
  BY <1>1, <1>2 DEF IsFunction, BlockOps, Parent, BlockAt
<1>4. csp + 1 \in 0 .. CALLSTACK_SIZE
  BY <1>1, SizesAssumption DEF CallStackExhausted
<1>5. csp' = csp + 1 /\ callstack'[csp + 1] = frame /\ \A i \in 0 .. csp : callstack'[i] = callstack[i]
  <2>1. csp' = csp + 1 /\ callstack' = [callstack EXCEPT ![csp + 1] = frame]
    BY DEF PushBlock
  <2> QED
    BY <1>1, <1>4, <2>1 DEF ControlInv, ControlTypes
<1>6. h \in Nat /\ EntryHeight(wasm, b) = h /\ Pops(wasm, Instr) \in Nat
      /\ Pops(wasm, Instr) = (IF Instr.op = "if" THEN 1 ELSE 0)
  <2>1. h \in Nat /\ Reached(wasm, Instr.next, h) /\ Pops(wasm, Instr) \in Nat
    BY <1>1, Effect DEF TypedInstr
  <2> QED
    BY <1>1, <1>2, <1>3, <2>1 DEF EntryHeight, Reached, Pops, BlockOps
<1>7. Slack(wasm, callstack', csp + 1) = sp - wasm.height[pc]
  <2>1. Floor(wasm, callstack', csp + 1) = sp - Pops(wasm, Instr)
    BY <1>1, <1>2, <1>5, <1>6 DEF Floor, BlockOps
  <2> QED
    BY <1>1, <1>5, <1>6, <2>1 DEF Slack
<1>8. Stacked(wasm, callstack', csp + 1)
  <2>1. Mirrors(wasm, callstack, csp) /\ Mirrors(wasm, callstack', csp + 1)
    BY <1>5 DEF ControlInv, Control, Framed
  <2>2. /\ Stacked(wasm, callstack, csp)
        /\ Covers(wasm, Slack(wasm, callstack', csp + 1), Slack(wasm, callstack, csp))
    BY <1>7 DEF Operands
  <2>3. /\ ~IsFunction(wasm, callstack'[csp + 1].block)
        /\ Parent(wasm, callstack'[csp + 1].block) = callstack[csp].block
        /\ callstack'[csp + 1].sp \in Int
        /\ EntryHeight(wasm, callstack'[csp + 1].block) \in Nat
    BY <1>1, <1>3, <1>5, <1>6
  <2>4. \A i \in 0 .. csp : callstack'[i] = callstack[i]
    BY <1>5
  <2> HIDE DEF b, h, frame
  <2> QED
    BY <1>1, <2>1, <2>2, <2>3, <2>4, StackedPushBlock
<1>9. Covers(wasm, sp' - wasm.height[pc'], Slack(wasm, callstack', csp'))
  BY <1>1, <1>5, <1>6, <1>7 DEF Reached, Covers
<1>10. callstack'[0].sp = -1
  BY <1>1, <1>5 DEF Operands
<1> QED
  BY <1>5, <1>8, <1>9, <1>10 DEF Operands, Reached

(* Into a function, from the c-th frame or from invoke().                  *)
LEMMA IntoFunction ==
  ASSUME ControlInv, ControlInv', Running',
         NEW fidx \in DOMAIN wasm.functions, ~IsImport(fidx),
         NEW s, NEW top \in Int, NEW c \in -1 .. CALLSTACK_SIZE - 1, NEW f, NEW savedPc,
         SetupCall(fidx, s, top, c, f, savedPc), wasm' = wasm,
         Mirrors(wasm, callstack, c), Stacked(wasm, callstack, c),
         top - ParamCount(wasm, wasm.functions[fidx]) >= -1,
         c = -1 => top - ParamCount(wasm, wasm.functions[fidx]) = -1,
         c >= 0 =>
           /\ callstack[0].sp = -1
           /\ savedPc \in DOMAIN wasm.height
           /\ wasm.height[savedPc] >= ResultCount(wasm, wasm.functions[fidx])
           /\ Covers(wasm, top - ParamCount(wasm, wasm.functions[fidx])
                             + ResultCount(wasm, wasm.functions[fidx]) - wasm.height[savedPc],
                     Slack(wasm, callstack, c))
  PROVE  Operands'
<1> DEFINE b == wasm.functions[fidx]
           savedSp == top - ParamCount(wasm, b)
           frame == [block |-> b, sp |-> savedSp, fp |-> f, ra |-> savedPc]
<1>1. wasm \in Modules /\ WellNested(wasm) /\ WellTyped(wasm)
  BY NestingAssumption, TypingAssumption DEF ControlInv, ControlTypes
<1>2. b \in DOMAIN wasm.labels /\ b \in DOMAIN wasm.block /\ IsFunction(wasm, b)
  <2>1. fidx \in Nat /\ wasm.import_func_count \in Nat
    BY <1>1 DEF WellNested
  <2>2. fidx >= wasm.import_func_count
    BY <2>1 DEF IsImport
  <2> QED
    BY <1>1, <2>2 DEF WellNested
<1>3. ParamCount(wasm, b) \in Nat /\ LocalCount(wasm, b) \in Nat
  BY <1>1, <1>2, CountFacts
<1>4. /\ csp' = c + 1
      /\ callstack' = [callstack EXCEPT ![c + 1] = frame]
      /\ sp' = top + LocalCount(wasm, b)
      /\ pc' = wasm.block[b].start_addr
  BY DEF SetupCall, PushBlock, CalleeTop, Block
<1>5. c \in Nat \cup {-1} /\ c + 1 \in 0 .. CALLSTACK_SIZE
  BY SizesAssumption
<1>6. callstack'[c + 1] = frame /\ \A i \in 0 .. c : callstack'[i] = callstack[i]
  BY <1>4, <1>5 DEF ControlInv, ControlTypes
<1>7. savedSp \in Int /\ savedSp >= -1
  BY <1>3
<1>8. pc' \in DOMAIN wasm.height /\ wasm.height[pc'] = 0
  BY <1>1, <1>2, <1>4 DEF WellTyped, Reached
<1>9. c >= 0 => Resumes(wasm, callstack', c + 1)
  <2> SUFFICES ASSUME c >= 0
               PROVE  Resumes(wasm, callstack', c + 1)
    OBVIOUS
  <2>1. Slack(wasm, callstack', (c + 1) - 1) = Slack(wasm, callstack, c)
    <3>1. (c + 1) - 1 = c /\ c \in 0 .. c
      BY <1>5
    <3> QED
      BY <1>6, <3>1, SameSlack
  <2> QED
    BY <1>6, <2>1 DEF Resumes
<1>10. Stacked(wasm, callstack', c + 1)
  <2>1. Mirrors(wasm, callstack', c + 1)
    BY <1>4 DEF ControlInv, Control, Framed
  <2>2. /\ IsFunction(wasm, callstack'[c + 1].block)
        /\ callstack'[c + 1].sp \in Int /\ callstack'[c + 1].sp >= -1
    BY <1>2, <1>6, <1>7
  <2>3. \A i \in 0 .. c : callstack'[i] = callstack[i]
    BY <1>6
  <2> HIDE DEF b, savedSp, frame
  <2> QED
    BY <1>1, <1>5, <1>9, <2>1, <2>2, <2>3, StackedPushFunction
<1>11. Covers(wasm, sp' - wasm.height[pc'], Slack(wasm, callstack', c + 1))
  <2>1. EntryHeight(wasm, b) = 0
    BY <1>2 DEF EntryHeight
  <2>2. Slack(wasm, callstack', c + 1) = savedSp + SlotCount(wasm, b)
    BY <1>2, <1>3, <1>6, <1>7, <2>1 DEF Slack, Floor, IsFunction, SlotCount
  <2>3. sp' - wasm.height[pc'] = savedSp + SlotCount(wasm, b) /\ savedSp + SlotCount(wasm, b) \in Int
    BY <1>3, <1>4, <1>8 DEF SlotCount
  <2> QED
    BY <2>2, <2>3, CoversOrder
<1>12. callstack'[0].sp = -1
  <2>1. CASE c = -1
    BY <1>6, <2>1
  <2>2. CASE c # -1
    <3>1. c >= 0 /\ 0 \in 0 .. c
      BY <1>5, <2>2
    <3> QED
      BY <1>6, <3>1
  <2> QED
    BY <2>1, <2>2
<1> QED
  BY <1>4, <1>8, <1>10, <1>11, <1>12 DEF Operands

-----------------------------------------------------------------------------
(***************************************************************************)
(* Where the operands of the running activation begin.                     *)
(***************************************************************************)
LEMMA ActivationSlack ==
  ASSUME ControlInv, Running, Operands
  PROVE  LET function == callstack[csp - wasm.nest[BlockAt(csp)]] IN
         /\ FunctionOf(wasm, BlockAt(csp)) = function.block
         /\ function.block \in DOMAIN wasm.labels
         /\ IsFunction(wasm, function.block)
         /\ OwnSlots = SlotCount(wasm, function.block) /\ OwnSlots \in Nat
         /\ fp = function.sp + 1 /\ fp \in Nat
         /\ OperandBase \in Int /\ OperandBase >= -1
         /\ Slack(wasm, callstack, csp) \in Int
         /\ Covers(wasm, Slack(wasm, callstack, csp), OperandBase)
         /\ Covers(wasm, sp - wasm.height[pc], OperandBase)
<1> DEFINE depth == wasm.nest[BlockAt(csp)]
           n == csp - depth
           b == callstack[n].block
<1>1. /\ wasm \in Modules /\ csp \in Nat /\ sp \in Int /\ wasm.height[pc] \in Nat
      /\ BlockAt(csp) \in DOMAIN wasm.labels /\ depth \in 0 .. csp
  BY TypedAtPc
<1>2. /\ Mirrors(wasm, callstack, csp) /\ Stacked(wasm, callstack, csp)
      /\ fp = ActivationFp(wasm, callstack, csp)
  BY DEF ControlInv, Control, Framed, Operands
<1>3. n \in 0 .. csp /\ csp \in 0 .. csp /\ depth \in 0 .. depth
  BY <1>1
<1>4. b \in DOMAIN wasm.labels /\ b = FunctionOf(wasm, BlockAt(csp))
  BY <1>2, <1>3 DEF Mirrors, FunctionOf, BlockAt
<1>5. IsFunction(wasm, b)
  BY FunctionFrameFound DEF BlockAt
<1>6. fp = callstack[n].sp + 1
  BY <1>2 DEF ActivationFp, BlockAt
<1>7. callstack[n].sp \in Int /\ callstack[n].sp >= -1
  BY <1>2, <1>3, <1>5 DEF Stacked, Entered
<1>8. OwnSlots = SlotCount(wasm, b) /\ OwnSlots \in Nat
  BY <1>1, <1>4, BlockCounts DEF OwnSlots
<1>9. Slack(wasm, callstack, n) = OperandBase /\ OperandBase \in Int /\ OperandBase >= -1
  BY <1>5, <1>6, <1>7, <1>8 DEF Slack, Floor, EntryHeight, IsFunction, OperandBase
<1>10. Slack(wasm, callstack, csp) \in Int
  BY <1>1, <1>2, <1>3, SlackIsNumber DEF Stacked
<1>11. Covers(wasm, Slack(wasm, callstack, csp), OperandBase)
  <2>1. Covers(wasm, Slack(wasm, callstack, csp), Slack(wasm, callstack, csp - depth))
    BY <1>2, <1>3 DEF Stacked, Layered, BlockAt
  <2> QED
    BY <1>9, <2>1
<1>12. Covers(wasm, sp - wasm.height[pc], OperandBase)
  <2>1. sp - wasm.height[pc] \in Int
    BY <1>1
  <2> QED
    BY <1>9, <1>10, <1>11, <2>1, CoversOrder DEF Operands
<1> QED
  BY <1>4, <1>5, <1>6, <1>7, <1>8, <1>9, <1>10, <1>11, <1>12

-----------------------------------------------------------------------------
(***************************************************************************)
(* One lemma for each kind of instruction.                                 *)
(***************************************************************************)
LEMMA Balanced ==
  ASSUME ControlInv, Running, Operands, Instr.op \in PlainOps, Advance,
         wasm' = wasm, csp' = csp, callstack' = callstack,
         sp' = sp - Pops(wasm, Instr) + Pushes(wasm, Instr)
  PROVE  Operands'
<1>1. sp - Pops(wasm, Instr) + Pushes(wasm, Instr) \in Int
  BY TypedAtPc, Effect
<1> QED
  BY <1>1, Onward, CoversOrder

LEMMA ComputationKeepsOperands ==
  ASSUME ControlInv, Operands, Running',
         \/ Nop \/ Drop \/ Select \/ LocalGet \/ LocalSet \/ LocalTee
         \/ GlobalGet \/ GlobalSet \/ Const \/ Eqz \/ Compare \/ Arith
         \/ Count \/ Convert
  PROVE  Operands'
<1> USE DEF Fetch, Running
<1>1. sp \in Int
  BY DEF ControlInv, ControlTypes
<1>2. CASE Nop \/ Drop \/ LocalSet \/ LocalTee \/ GlobalSet
  <2>1. /\ Running /\ Instr.op \in PlainOps /\ Advance
        /\ wasm' = wasm /\ csp' = csp /\ callstack' = callstack
    BY <1>2 DEF Nop, Drop, LocalSet, LocalTee, GlobalSet, PlainOps
  <2>2. sp' = sp - Pops(wasm, Instr) + Pushes(wasm, Instr)
    BY <1>1, <1>2 DEF Nop, Drop, LocalSet, LocalTee, GlobalSet, Pops, Pushes
  <2> QED
    BY <2>1, <2>2, Balanced
<1>3. CASE LocalGet \/ GlobalGet \/ Const
  <2>1. /\ Running /\ Instr.op \in PlainOps /\ Pops(wasm, Instr) = 0 /\ Pushes(wasm, Instr) = 1
    BY <1>3 DEF LocalGet, GlobalGet, Const, PlainOps, Pops, Pushes
  <2>2. Advance /\ wasm' = wasm /\ csp' = csp /\ callstack' = callstack /\ sp' = sp + 1
    BY <1>3 DEF LocalGet, GlobalGet, Const, Push, Overrun
  <2>3. sp' = sp - Pops(wasm, Instr) + Pushes(wasm, Instr)
    BY <1>1, <2>1, <2>2
  <2> QED
    BY <2>1, <2>2, <2>3, Balanced
<1>4. ASSUME NEW n \in Nat, NEW v, Replace(n, v), Running, Instr.op \in PlainOps,
             Pops(wasm, Instr) = n, Pushes(wasm, Instr) = 1
      PROVE  Operands'
  BY <1>4, Balanced DEF Replace
<1>5. CASE Eqz \/ Compare \/ Count \/ Convert
  <2>1. CASE Eqz \/ Count \/ Convert
    <3>1. /\ Running /\ Instr.op \in PlainOps
          /\ Pops(wasm, Instr) = 1 /\ Pushes(wasm, Instr) = 1
      BY <2>1 DEF Eqz, Count, Convert, PlainOps, Pops, Pushes
    <3> QED
      BY <1>4, <2>1, <3>1 DEF Eqz, Count, Convert
  <2>2. CASE Compare
    <3>1. /\ Running /\ Instr.op \in PlainOps
          /\ Pops(wasm, Instr) = 2 /\ Pushes(wasm, Instr) = 1
      BY <2>2 DEF Compare, PlainOps, Pops, Pushes
    <3> QED
      BY <1>4, <2>2, <3>1 DEF Compare
  <2> QED
    BY <1>5, <2>1, <2>2
<1>6. CASE Select
  <2>1. /\ Running /\ Instr.op \in PlainOps
        /\ Pops(wasm, Instr) = 3 /\ Pushes(wasm, Instr) = 1
    BY <1>6 DEF Select, PlainOps, Pops, Pushes
  <2>2. Replace(3, IF Cond THEN stack[sp - 2] ELSE stack[sp - 1])
    BY <1>6 DEF Select
  <2> QED
    BY <1>4, <2>1, <2>2
<1>7. CASE Arith
  <2>1. /\ Running /\ Instr.op \in PlainOps
        /\ Pops(wasm, Instr) = 2 /\ Pushes(wasm, Instr) = 1
    BY <1>7 DEF Arith, PlainOps, Pops, Pushes
  <2>2. Replace(2, Val(stack[sp - 1].value_type,
                       Computed(Imm.op, Imm.type, First, Second)))
    BY <1>7 DEF Arith, Trap
  <2> QED
    BY <1>4, <2>1, <2>2
<1> QED
  BY <1>2, <1>3, <1>5, <1>6, <1>7

LEMMA BlockKeepsOperands ==
  ASSUME ControlInv, ControlInv', Operands, Running', BlockOrLoop
  PROVE  Operands'
<1>1. /\ Running /\ Instr.op \in BlockOps /\ Pops(wasm, Instr) = 0
  BY DEF BlockOrLoop, Fetch, Running, BlockOps, Pops
<1>2. /\ TypedInstr(wasm, pc) /\ Instr = wasm.code[pc] /\ sp \in Int /\ wasm.height[pc] \in Nat
  BY <1>1, TypedAtPc
<1>3. /\ ~CallStackExhausted
      /\ PushBlock(wasm.block_lookup[pc], sp, csp, fp, Instr.next)
      /\ wasm' = wasm /\ sp' = sp - Pops(wasm, Instr) /\ pc' = Instr.next
  BY <1>1, <1>2 DEF BlockOrLoop, Exhausted, Trap, Running, Advance
<1>4. Reached(wasm, pc', wasm.height[pc] - Pops(wasm, Instr))
  BY <1>1, <1>2, <1>3 DEF TypedInstr
<1> QED
  BY <1>1, <1>3, <1>4, IntoBlock

LEMMA IfKeepsOperands ==
  ASSUME ControlInv, ControlInv', Operands, Running', If
  PROVE  Operands'
<1> DEFINE b == wasm.block_lookup[pc]
           h == wasm.height[pc] - Pops(wasm, Instr)
<1>1. Running /\ Instr.op \in BlockOps /\ Instr.op = "if" /\ Pops(wasm, Instr) = 1
  BY DEF If, Fetch, Running, BlockOps, Pops
<1>2. /\ TypedInstr(wasm, pc) /\ Instr = wasm.code[pc] /\ sp \in Int /\ wasm.height[pc] \in Nat
      /\ csp \in Nat /\ wasm.nest[BlockAt(csp)] \in 0 .. csp
  BY <1>1, TypedAtPc
<1>3. ~CallStackExhausted /\ wasm' = wasm /\ sp' = sp - 1
  BY DEF If, Exhausted, Trap, Running
<1>4. Reached(wasm, Instr.next, h) /\ TypedIf(wasm, b, h)
  BY <1>1, <1>2 DEF TypedInstr
<1>5. CASE Cond \/ Block(b).else_addr # 0
  <2>1. /\ PushBlock(b, sp, csp, fp, Instr.next)
        /\ pc' = IF Cond THEN Instr.next ELSE Block(b).else_addr
    BY <1>5 DEF If, Exhausted, Trap, Running, SavedSpOfIf
  <2>2. Reached(wasm, pc', h)
    BY <1>4, <1>5, <2>1 DEF TypedIf, Block
  <2> QED
    BY <1>1, <1>3, <2>1, <2>2, IntoBlock
<1>6. CASE ~Cond /\ Block(b).else_addr = 0
  <2> DEFINE frame == [block |-> b, sp |-> sp, fp |-> fp, ra |-> Instr.next]
  <2>1. /\ callstack' = [callstack EXCEPT ![csp + 1] = frame]
        /\ csp' = csp
        /\ pc' = Block(b).br_addr + 1
    BY <1>6 DEF If, Exhausted, Trap, Running, SavedSpOfIf
  <2>2. Reached(wasm, pc', h)
    BY <1>4, <1>6, <2>1 DEF TypedIf, Block
  <2>3. \A i \in 0 .. csp : callstack'[i] = callstack[i]
    <3>1. \A i \in 0 .. csp : i \in 0 .. CALLSTACK_SIZE /\ i # csp + 1
      BY <1>1, <1>2, SizesAssumption DEF ControlInv, Control
    <3> QED
      BY <2>1, <3>1 DEF ControlInv, ControlTypes
  <2>4. Covers(wasm, sp' - wasm.height[pc'], sp - wasm.height[pc])
    BY <1>1, <1>2, <1>3, <2>2 DEF Reached, Covers
  <2>5. 0 \in 0 .. wasm.nest[BlockAt(csp)] /\ csp' = csp - 0 /\ sp' \in Int
        /\ pc' \in DOMAIN wasm.height
    BY <1>2, <1>3, <2>1, <2>2 DEF Reached
  <2> QED
    BY <1>1, <1>3, <2>3, <2>4, <2>5, InActivation
<1> QED
  BY <1>5, <1>6

LEMMA ElseKeepsOperands ==
  ASSUME ControlInv, Operands, Else
  PROVE  Operands'
<1>1. Running /\ Instr.op = "else" /\ Pops(wasm, Instr) = 0
  BY DEF Else, Fetch, Running, Pops
<1>2. /\ TypedInstr(wasm, pc) /\ Instr = wasm.code[pc] /\ sp \in Int /\ wasm.height[pc] \in Nat
      /\ csp \in Nat /\ wasm.nest[BlockAt(csp)] \in 0 .. csp /\ wasm.owner[pc] = BlockAt(csp)
  BY <1>1, TypedAtPc
<1>3. /\ pc' = wasm.block[BlockAt(csp)].br_addr
      /\ wasm' = wasm /\ sp' = sp /\ csp' = csp /\ callstack' = callstack
  BY DEF Else, Block, BlockAt
<1>4. pc' \in DOMAIN wasm.height /\ wasm.height[pc'] = wasm.height[pc]
  BY <1>1, <1>2, <1>3 DEF TypedInstr, Reached
<1>5. Covers(wasm, sp' - wasm.height[pc'], sp - wasm.height[pc])
  BY <1>2, <1>3, <1>4 DEF Covers
<1>6. 0 \in 0 .. wasm.nest[BlockAt(csp)] /\ csp' = csp - 0 /\ sp' \in Int
  BY <1>2, <1>3
<1> QED
  BY <1>1, <1>3, <1>4, <1>5, <1>6, InActivation

LEMMA BranchKeepsOperands ==
  ASSUME ControlInv, Operands, Running', Br \/ BrIf \/ BrTable
  PROVE  Operands'
<1> USE DEF Fetch, Running
<1>1. Running /\ sp \in Int
  BY DEF Br, BrIf, BrTable, ControlInv, ControlTypes
<1>2. CASE Br
  <2>1. Imm \in Depths(Instr) /\ Pops(wasm, Instr) = 0
    BY <1>2 DEF Br, Depths, Imm, Pops
  <2>2. Goto(Imm) /\ wasm' = wasm /\ callstack' = callstack /\ sp' = sp - Pops(wasm, Instr)
    BY <1>1, <1>2, <2>1 DEF Br
  <2> QED
    BY <1>1, <2>1, <2>2, ToLabel
<1>3. CASE BrIf
  <2>1. Imm \in Depths(Instr) /\ Pops(wasm, Instr) = 1 /\ Pushes(wasm, Instr) = 0
        /\ Instr.op \in PlainOps
    BY <1>3 DEF BrIf, Depths, Imm, Pops, Pushes, PlainOps
  <2>2. wasm' = wasm /\ callstack' = callstack /\ sp' = sp - 1
    BY <1>3 DEF BrIf
  <2>3. CASE Goto(Imm)
    BY <1>1, <2>1, <2>2, <2>3, ToLabel
  <2>4. CASE Advance /\ csp' = csp
    <3>1. sp' = sp - Pops(wasm, Instr) + Pushes(wasm, Instr)
      BY <1>1, <2>1, <2>2
    <3> QED
      BY <1>1, <2>1, <2>2, <2>4, <3>1, Balanced
  <2> QED
    BY <1>3, <2>3, <2>4 DEF BrIf
<1>4. CASE BrTable
  <2>1. TableDepth(TopI32) \in Depths(Instr) /\ Pops(wasm, Instr) = 1
    BY <1>4 DEF BrTable, TableDepth, Depths, Imm, Pops
  <2>2. Goto(TableDepth(TopI32)) /\ wasm' = wasm /\ callstack' = callstack /\ sp' = sp - 1
    BY <1>4 DEF BrTable, Trap
  <2> QED
    BY <1>1, <2>1, <2>2, ToLabel
<1> QED
  BY <1>2, <1>3, <1>4

LEMMA ReturnKeepsOperands ==
  ASSUME ControlInv, Operands, Return
  PROVE  Operands'
<1> DEFINE depth == wasm.nest[BlockAt(csp)]
           b == callstack[csp - depth].block
           h == wasm.height[pc] - Pops(wasm, Instr)
<1>1. Running /\ Instr.op = "return" /\ Pops(wasm, Instr) = 0
  BY DEF Return, Fetch, Running, Pops
<1>2. /\ wasm \in Modules /\ TypedInstr(wasm, pc) /\ Instr = wasm.code[pc]
      /\ sp \in Int /\ wasm.height[pc] \in Nat
      /\ csp \in Nat /\ depth \in 0 .. csp /\ wasm.owner[pc] = BlockAt(csp)
  BY <1>1, TypedAtPc
<1>3. b = FunctionOf(wasm, BlockAt(csp)) /\ b \in DOMAIN wasm.labels
  BY <1>1, ActivationSlack
<1>4. csp' = csp - depth /\ pc' = wasm.block[b].end_addr
  BY <1>1, FunctionFrameFound DEF Return, Block
<1>5. /\ pc' \in DOMAIN wasm.height
      /\ wasm.height[pc'] = ResultCount(wasm, b) /\ ResultCount(wasm, b) <= h
  <2>1. EntryHeight(wasm, BlockAt(csp)) \in Nat /\ ResultCount(wasm, b) \in Nat
    BY <1>2, <1>3, BlockCounts DEF Operands, Stacked, Entered, BlockAt
  <2>2. /\ Reached(wasm, wasm.block[b].end_addr, ResultCount(wasm, b))
        /\ EntryHeight(wasm, BlockAt(csp)) + ResultCount(wasm, b) <= h
    BY <1>1, <1>2, <1>3 DEF TypedInstr
  <2> QED
    BY <1>1, <1>2, <1>4, <2>1, <2>2 DEF Reached
<1>6. Tidy(wasm) => wasm.height[pc'] = h
  BY <1>1, <1>2, <1>3, <1>5 DEF Tidy, Operands
<1>7. wasm' = wasm /\ sp' = sp /\ callstack' = callstack /\ wasm.height[pc'] \in Nat
  BY <1>2, <1>5, TypedFacts DEF Return
<1>8. Covers(wasm, sp' - wasm.height[pc'], sp - wasm.height[pc])
  BY <1>1, <1>2, <1>5, <1>6, <1>7 DEF Covers, Exact
<1>9. depth \in 0 .. wasm.nest[BlockAt(csp)] /\ sp' \in Int
  BY <1>2, <1>7
<1> QED
  BY <1>1, <1>4, <1>5, <1>7, <1>8, <1>9, InActivation

(* A call that is made, with its arguments on top of the stack.            *)
LEMMA CalleeKeepsOperands ==
  ASSUME ControlInv, ControlInv', Running, Running', Operands,
         Instr.op \in {"call", "call_indirect"}, ~CallStackExhausted,
         NEW fidx \in DOMAIN wasm.functions, ~IsImport(fidx),
         NEW top \in Int, EnterFunction(fidx, top), wasm' = wasm,
         ResultCount(wasm, wasm.functions[fidx]) = Pushes(wasm, Instr),
         top - ParamCount(wasm, wasm.functions[fidx]) = sp - Pops(wasm, Instr)
  PROVE  Operands'
<1> DEFINE params == ParamCount(wasm, wasm.functions[fidx])
           results == ResultCount(wasm, wasm.functions[fidx])
           pops == Pops(wasm, Instr)
<1>1. /\ wasm \in Modules /\ TypedInstr(wasm, pc) /\ Instr = wasm.code[pc]
      /\ sp \in Int /\ csp \in Nat /\ wasm.height[pc] \in Nat
  BY TypedAtPc
<1>2. pops \in Nat /\ results \in Nat /\ wasm.height[pc] - pops \in Nat
  BY Effect
<1>3. /\ Instr.next \in DOMAIN wasm.height
      /\ wasm.height[Instr.next] = wasm.height[pc] - pops + results
  BY <1>1 DEF TypedInstr, PlainOps, Reached
<1>4. Covers(wasm, sp - wasm.height[pc], Slack(wasm, callstack, csp))
  BY DEF Operands
<1>5. top - params >= -1
  <2>1. sp - wasm.height[pc] >= OperandBase /\ OperandBase \in Int /\ OperandBase >= -1
    BY ActivationSlack DEF Covers
  <2> QED
    BY <1>1, <1>2, <2>1
<1>6. /\ wasm.height[Instr.next] >= results
      /\ top - params + results - wasm.height[Instr.next] = sp - wasm.height[pc]
  BY <1>1, <1>2, <1>3
<1>7. csp \in -1 .. CALLSTACK_SIZE - 1 /\ csp # -1
  BY <1>1, SizesAssumption DEF CallStackExhausted
<1>8. /\ Mirrors(wasm, callstack, csp) /\ Stacked(wasm, callstack, csp)
      /\ callstack[0].sp = -1
  BY DEF ControlInv, Control, Framed, Operands
<1>9. SetupCall(fidx, stack, top, csp, fp, Instr.next)
  BY DEF EnterFunction
<1>10. Covers(wasm, top - params + results - wasm.height[Instr.next], Slack(wasm, callstack, csp))
  BY <1>4, <1>6
<1> QED
  BY <1>3, <1>5, <1>6, <1>7, <1>8, <1>9, <1>10, IntoFunction

(* A call of an import is skipped: the arguments stay where they are.      *)
LEMMA SkippedKeepsOperands ==
  ASSUME ControlInv, Running, Operands, Instr.op \in PlainOps, Advance,
         NEW fidx \in DOMAIN wasm.functions, IsImport(fidx),
         sp - Pops(wasm, Instr) + Pushes(wasm, Instr) <= sp',
         wasm' = wasm, csp' = csp, callstack' = callstack, sp' \in Int
  PROVE  Operands'
<1>1. ~Exact(wasm)
  <2>1. WellNested(wasm)
    BY TypedAtPc, NestingAssumption
  <2>2. fidx \in Nat /\ wasm.import_func_count \in Nat
    BY <2>1 DEF WellNested
  <2> QED
    BY <2>2 DEF IsImport, Exact, ImportFree
<1>2. Covers(wasm, sp', sp - Pops(wasm, Instr) + Pushes(wasm, Instr))
  <2>1. sp - Pops(wasm, Instr) + Pushes(wasm, Instr) \in Int
    BY TypedAtPc, Effect
  <2> QED
    BY <1>1, <2>1 DEF Covers
<1> QED
  BY <1>2, Onward

LEMMA CallKeepsOperands ==
  ASSUME ControlInv, ControlInv', Operands, Running', Call
  PROVE  Operands'
<1>1. /\ Running /\ Instr.op = "call" /\ Instr.op \in PlainOps
      /\ Instr.op \in {"call", "call_indirect"} /\ Imm = Instr.imm
  BY DEF Call, Fetch, Running, PlainOps, Imm
<1>2. /\ wasm \in Modules /\ TypedInstr(wasm, pc) /\ NestedInstr(wasm, pc)
      /\ Instr = wasm.code[pc] /\ sp \in Int
  BY <1>1, TypedAtPc
<1>3. /\ Imm \in DOMAIN wasm.functions
      /\ wasm.functions[Imm] \in DOMAIN wasm.block
      /\ Callable(wasm, Imm, wasm.block[wasm.functions[Imm]].type)
  BY <1>1, <1>2, NestingAssumption DEF NestedInstr, WellNested, TypedInstr
<1>4. /\ Pops(wasm, Instr) = ParamCount(wasm, wasm.functions[Imm])
      /\ Pushes(wasm, Instr) = ResultCount(wasm, wasm.functions[Imm])
      /\ Pops(wasm, Instr) \in Nat /\ Pushes(wasm, Instr) \in Nat
  BY <1>1, Effect DEF Pops, Pushes
<1>5. CASE IsImport(Imm)
  <2>1. /\ Advance /\ wasm' = wasm /\ csp' = csp /\ callstack' = callstack /\ sp' = sp
    BY <1>5 DEF Call, Overrun, Running
  <2>2. sp - Pops(wasm, Instr) + Pushes(wasm, Instr) <= sp'
    <3>1. Pushes(wasm, Instr) <= Pops(wasm, Instr)
      BY <1>3, <1>4, <1>5 DEF Callable, IsImport, ParamCount, ResultCount
    <3> QED
      BY <1>2, <1>4, <2>1, <3>1
  <2> QED
    BY <1>1, <1>2, <1>3, <1>5, <2>1, <2>2, SkippedKeepsOperands
<1>6. CASE ~IsImport(Imm)
  <2>1. ~CallStackExhausted /\ EnterFunction(Imm, sp) /\ wasm' = wasm
    BY <1>6 DEF Call, Exhausted, Trap, Overrun, Running
  <2>2. sp - ParamCount(wasm, wasm.functions[Imm]) = sp - Pops(wasm, Instr)
    BY <1>4
  <2> QED
    BY <1>1, <1>2, <1>3, <1>4, <1>6, <2>1, <2>2, CalleeKeepsOperands
<1> QED
  BY <1>5, <1>6

LEMMA CallIndirectKeepsOperands ==
  ASSUME ControlInv, ControlInv', Operands, Running', CallIndirect
  PROVE  Operands'
<1> DEFINE type == wasm.types[Imm]
<1>1. /\ Running /\ Instr.op = "call_indirect" /\ Instr.op \in PlainOps
      /\ Instr.op \in {"call", "call_indirect"} /\ Imm = Instr.imm
  BY DEF CallIndirect, Fetch, Running, PlainOps, Imm
<1>2. /\ wasm \in Modules /\ TypedInstr(wasm, pc) /\ Instr = wasm.code[pc] /\ sp \in Int
  BY <1>1, TypedAtPc
<1>3. /\ Pops(wasm, Instr) = 1 + Len(type.params) /\ Pushes(wasm, Instr) = Len(type.results)
      /\ Pops(wasm, Instr) \in Nat /\ Pushes(wasm, Instr) \in Nat
      /\ Len(type.params) \in Nat
  <2>1. type \in FuncType
    BY <1>1, <1>2 DEF TypedInstr
  <2>2. Len(type.params) \in Nat
    BY <2>1, LenProperties DEF FuncType
  <2> QED
    BY <1>1, <2>2, Effect DEF Pops, Pushes
<1>4. InTable(TopI32) /\ Allocated(TopI32) /\ CallEntry
  BY DEF CallIndirect, Trap, Running
<1>5. Callee \in DOMAIN wasm.functions /\ Callable(wasm, Callee, type)
  <2>1. Callee \in DOMAIN wasm.functions
    BY <1>2, <1>4, NestingAssumption DEF WellNested, Callee, Allocated
  <2> QED
    BY <1>1, <1>2, <2>1 DEF TypedInstr
<1>6. CASE IsImport(Callee)
  <2>1. /\ Advance /\ wasm' = wasm /\ csp' = csp /\ callstack' = callstack /\ sp' = sp - 1
    BY <1>4, <1>6 DEF CallEntry, Overrun, Running
  <2>2. sp - Pops(wasm, Instr) + Pushes(wasm, Instr) <= sp'
    <3>1. Pushes(wasm, Instr) <= Len(type.params)
      BY <1>3, <1>5, <1>6 DEF Callable, IsImport
    <3> QED
      BY <1>2, <1>3, <2>1, <3>1
  <2>3. sp' \in Int
    BY <1>2, <2>1
  <2> QED
    BY <1>1, <1>5, <1>6, <2>1, <2>2, <2>3, SkippedKeepsOperands
<1>7. CASE ~IsImport(Callee)
  <2>1. ~CallStackExhausted /\ ~MaskMismatch /\ EnterFunction(Callee, sp - 1) /\ wasm' = wasm
    BY <1>4, <1>7 DEF CallEntry, Exhausted, Trap, Overrun, Running
  <2>2. /\ ParamCount(wasm, wasm.functions[Callee]) = Len(type.params)
        /\ ResultCount(wasm, wasm.functions[Callee]) = Len(type.results)
    BY <1>5, <1>7, <2>1
       DEF Callable, IsImport, MaskMismatch, CalleeType, Block, ParamCount, ResultCount
  <2>3. /\ (sp - 1) - ParamCount(wasm, wasm.functions[Callee]) = sp - Pops(wasm, Instr)
        /\ sp - 1 \in Int
    BY <1>2, <1>3, <2>2
  <2>4. ResultCount(wasm, wasm.functions[Callee]) = Pushes(wasm, Instr)
    BY <1>3, <2>2
  <2> QED
    BY <1>1, <1>5, <1>7, <2>1, <2>3, <2>4, CalleeKeepsOperands
<1> QED
  BY <1>6, <1>7

-----------------------------------------------------------------------------
(***************************************************************************)
(* pop_block.  It tests whether the saved sp is below sp: it always is, or *)
(* the block has no result and nothing to remove.  An if is the exception, *)
(* as its frame counts the condition.                                      *)
(***************************************************************************)
LEMMA Popped ==
  ASSUME ControlInv, Running, Operands, Instr.op = "end"
  PROVE  LET frame == callstack[csp]
             b == BlockAt(csp)
             results == ResultCount(wasm, b) IN
         /\ frame.sp \in Int /\ results \in 0 .. 1
         /\ wasm.height[pc] = EntryHeight(wasm, b) + results
         /\ EntryHeight(wasm, b) \in Nat
         /\ wasm.block[b].block_type # "if" => sp >= frame.sp + results
         /\ wasm.block[b].block_type # "if" => PoppedSp(frame) = frame.sp + results
         /\ wasm.block[b].block_type = "if" =>
              Covers(wasm, PoppedSp(frame), frame.sp - 1 + results)
         /\ HasResult(b) => sp > OperandBase
         /\ PoppedSp(frame) <= sp
<1> DEFINE frame == callstack[csp]
           b == BlockAt(csp)
           results == ResultCount(wasm, b)
           entry == EntryHeight(wasm, b)
<1>1. /\ wasm \in Modules /\ TypedInstr(wasm, pc) /\ Instr = wasm.code[pc]
      /\ sp \in Int /\ csp \in Nat /\ wasm.height[pc] \in Nat
      /\ b \in DOMAIN wasm.labels /\ wasm.owner[pc] = b
  BY TypedAtPc
<1>2. results \in 0 .. 1 /\ SlotCount(wasm, b) \in Nat /\ wasm.block[b].block_type \in BlockType
  BY <1>1, BlockCounts
<1>3. frame.sp \in Int /\ entry \in Nat
  <2>1. csp \in 0 .. csp
    BY <1>1
  <2> QED
    BY <2>1 DEF Operands, Stacked, Entered, BlockAt
<1>4. wasm.height[pc] = entry + results
  <2>1. Pops(wasm, Instr) = 0
    BY DEF Pops
  <2> QED
    BY <1>1, <2>1 DEF TypedInstr
<1>5. /\ Slack(wasm, callstack, csp) = Floor(wasm, callstack, csp) - entry
      /\ Covers(wasm, sp - wasm.height[pc], Slack(wasm, callstack, csp))
  BY DEF Operands, Slack, BlockAt
<1>6. HasResult(b) <=> results = 1
  BY DEF HasResult
<1>7. CASE wasm.block[b].block_type = "if"
  <2>1. Floor(wasm, callstack, csp) = frame.sp - 1
    BY <1>7 DEF Floor, BlockAt
  <2>2. Covers(wasm, sp, frame.sp - 1 + results)
    <3>1. sp - wasm.height[pc] = sp - entry - results
      BY <1>1, <1>2, <1>3, <1>4
    <3> QED
      BY <1>1, <1>2, <1>3, <1>5, <2>1, <3>1 DEF Covers
  <2>3. Covers(wasm, PoppedSp(frame), frame.sp - 1 + results) /\ PoppedSp(frame) <= sp
    <3>1. CASE frame.sp >= sp
      <4>1. PoppedSp(frame) = sp
        BY <1>1, <1>3, <3>1 DEF PoppedSp
      <4> QED
        BY <1>1, <2>2, <4>1
    <3>2. CASE frame.sp < sp
      <4>1. PoppedSp(frame) = frame.sp + results
        BY <1>1, <1>2, <1>3, <1>6, <3>2 DEF PoppedSp, BlockAt
      <4>2. ~Exact(wasm)
        BY <1>1, <1>2, <1>3, <2>2, <3>2 DEF Covers
      <4> QED
        BY <1>1, <1>2, <1>3, <3>2, <4>1, <4>2 DEF Covers
    <3> QED
      BY <1>1, <1>3, <3>1, <3>2
  <2>4. HasResult(b) => sp > OperandBase
    BY <1>1, <1>2, <1>3, <1>4, <1>6, ActivationSlack DEF Covers
  <2> QED
    BY <1>2, <1>3, <1>4, <1>7, <2>3, <2>4
<1>8. CASE wasm.block[b].block_type # "if"
  <2>1. Floor(wasm, callstack, csp) >= frame.sp /\ Floor(wasm, callstack, csp) \in Int
    BY <1>2, <1>3, <1>8 DEF Floor, BlockAt
  <2>2. sp >= frame.sp + results
    BY <1>1, <1>2, <1>3, <1>4, <1>5, <2>1 DEF Covers
  <2>3. PoppedSp(frame) = frame.sp + results
    BY <1>1, <1>2, <1>3, <1>6, <2>2 DEF PoppedSp, BlockAt
  <2>4. HasResult(b) => sp > OperandBase
    BY <1>1, <1>2, <1>3, <1>4, <1>6, ActivationSlack DEF Covers
  <2> QED
    BY <1>1, <1>2, <1>3, <1>4, <1>8, <2>2, <2>3, <2>4
<1> QED
  BY <1>7, <1>8

LEMMA EndKeepsOperands ==
  ASSUME ControlInv, Operands, Running', End
  PROVE  Operands'
<1> DEFINE frame == callstack[csp]
           b == BlockAt(csp)
           results == ResultCount(wasm, b)
           entry == EntryHeight(wasm, b)
<1>1. Running /\ Instr.op = "end" /\ Pops(wasm, Instr) = 0
  BY DEF End, Fetch, Running, Pops
<1>2. /\ wasm \in Modules /\ TypedInstr(wasm, pc) /\ Instr = wasm.code[pc]
      /\ sp \in Int /\ csp \in Nat /\ wasm.height[pc] \in Nat
      /\ b \in DOMAIN wasm.labels /\ wasm.owner[pc] = b /\ csp \in 0 .. csp
  BY <1>1, TypedAtPc
<1>3. /\ frame.sp \in Int /\ results \in 0 .. 1 /\ entry \in Nat
      /\ wasm.height[pc] = entry + results
      /\ wasm.block[b].block_type # "if" => PoppedSp(frame) = frame.sp + results
      /\ wasm.block[b].block_type = "if" =>
           Covers(wasm, PoppedSp(frame), frame.sp - 1 + results)
  BY <1>1, Popped
<1>4. PoppedSp(frame) \in Int
  BY <1>2, <1>3 DEF PoppedSp
<1>5. /\ wasm' = wasm /\ callstack' = callstack /\ csp' = csp - 1
      /\ sp' = PoppedSp(frame)
      /\ pc' = IF IsFunction(wasm, b) THEN frame.ra ELSE Instr.next
      /\ ~(IsFunction(wasm, b) /\ csp = 0)
  <2>1. ~ResultMismatch(frame.block)
    BY DEF End, Trap, Running
  <2> QED
    BY <2>1 DEF End, Running, BlockAt
<1>6. Mirrors(wasm, callstack, csp) /\ Stacked(wasm, callstack, csp)
  BY <1>1 DEF ControlInv, Control, Framed, Operands
<1>7. CASE IsFunction(wasm, b)
  <2>1. csp \in 1 .. csp /\ csp - 1 \in 0 .. csp
    BY <1>2, <1>5, <1>7
  <2>2. Resumes(wasm, callstack, csp)
    BY <1>6, <1>7, <2>1 DEF Stacked, Resumable, BlockAt
  <2>3. sp' = frame.sp + results /\ pc' = frame.ra
    BY <1>3, <1>5, <1>7 DEF IsFunction
  <2>4. /\ pc' \in DOMAIN wasm.height
        /\ Covers(wasm, sp' - wasm.height[pc'], Slack(wasm, callstack, csp - 1))
    <3>1. /\ frame.ra \in DOMAIN wasm.height
          /\ Covers(wasm, frame.sp + results - wasm.height[frame.ra],
                    Slack(wasm, callstack, csp - 1))
      BY <2>2 DEF Resumes, BlockAt
    <3>2. wasm.height[frame.ra] \in Nat
      BY <1>2, <3>1, TypedFacts
    <3> QED
      BY <1>3, <2>3, <3>1, <3>2 DEF Covers
  <2>5. Stacked(wasm, callstack, csp - 1)
    BY <1>2, <1>6, StackedBelow
  <2> QED
    BY <1>5, <2>4, <2>5 DEF Operands
<1>8. CASE ~IsFunction(wasm, b)
  <2>1. pc' \in DOMAIN wasm.height /\ wasm.height[pc'] = wasm.height[pc]
    <3>1. Reached(wasm, Instr.next, wasm.height[pc] - Pops(wasm, Instr))
      BY <1>1, <1>2, <1>8 DEF TypedInstr
    <3>2. wasm.height[pc] - Pops(wasm, Instr) = wasm.height[pc]
      BY <1>1, <1>2
    <3> QED
      BY <1>5, <1>8, <3>1, <3>2 DEF Reached
  <2>2. wasm.nest[b] \in Nat /\ wasm.nest[b] >= 1
    <3>1. NestedBlock(wasm, b)
      BY <1>2, BlockFacts
    <3> QED
      BY <1>8, <3>1 DEF NestedBlock
  <2>3. /\ Covers(wasm, Slack(wasm, callstack, csp), Slack(wasm, callstack, csp - 1))
        /\ csp - 1 \in 0 .. csp
    <3>1. 1 \in 0 .. wasm.nest[callstack[csp].block] /\ wasm.nest[b] \in 0 .. csp
      BY <1>1, <2>2, TypedAtPc DEF BlockAt
    <3> QED
      BY <1>2, <1>6, <2>2, <3>1 DEF Stacked, Layered
  <2>4. Covers(wasm, sp' - wasm.height[pc'], Slack(wasm, callstack, csp))
    <3>1. wasm.block[b].block_type # "function" /\ Slack(wasm, callstack, csp) =
            (IF wasm.block[b].block_type = "if" THEN frame.sp - 1 ELSE frame.sp) - entry
      BY <1>8 DEF Slack, Floor, BlockAt, IsFunction
    <3>2. CASE wasm.block[b].block_type = "if"
      BY <1>2, <1>3, <1>4, <1>5, <2>1, <3>1, <3>2 DEF Covers
    <3>3. CASE wasm.block[b].block_type # "if"
      BY <1>2, <1>3, <1>4, <1>5, <2>1, <3>1, <3>3 DEF Covers
    <3> QED
      BY <3>2, <3>3
  <2>5. Covers(wasm, sp' - wasm.height[pc'], Slack(wasm, callstack, csp - 1))
    <3>1. sp' - wasm.height[pc'] \in Int
      BY <1>2, <1>4, <1>5, <2>1
    <3>2. Slack(wasm, callstack, csp) \in Int /\ Slack(wasm, callstack, csp - 1) \in Int
      BY <1>2, <1>6, <2>3, SlackIsNumber DEF Stacked
    <3> QED
      BY <2>3, <2>4, <3>1, <3>2, CoversOrder
  <2>6. Stacked(wasm, callstack, csp - 1)
    BY <1>2, <1>6, StackedBelow
  <2> QED
    BY <1>5, <2>1, <2>5, <2>6 DEF Operands
<1> QED
  BY <1>7, <1>8

(* The arguments of the invocation are all there is on the stack.          *)
LEMMA InvokeKeepsOperands ==
  ASSUME ControlInv, ControlInv', Running', InvokeExport
  PROVE  Operands'
<1>1. PICK fidx \in wasm.exports :
        \E args \in Arguments(Block(wasm.functions[fidx]).type) : Invoke(fidx, args)
  BY DEF InvokeExport
<1>2. PICK args \in Arguments(Block(wasm.functions[fidx]).type) : Invoke(fidx, args)
  BY <1>1
<1> DEFINE b == wasm.functions[fidx]
           top == Len(Block(b).type.params) - 1
<1>3. wasm \in Modules /\ WellNested(wasm)
  BY NestingAssumption DEF ControlInv, ControlTypes
<1>4. fidx \in DOMAIN wasm.functions /\ ~IsImport(fidx) /\ b \in DOMAIN wasm.block
  BY <1>1, <1>3 DEF WellNested, IsImport
<1>5. top \in Int /\ top - ParamCount(wasm, b) = -1
  BY <1>3, <1>4, CountFacts DEF ParamCount, Block
<1>6. /\ SetupCall(fidx, PushArgs(Block(b).type, args), top, -1, -1, pc)
      /\ wasm' = wasm
  BY <1>2 DEF Invoke, Overrun, Running
<1>7. Mirrors(wasm, callstack, -1) /\ Stacked(wasm, callstack, -1)
  BY DEF Mirrors, Stacked, Entered, Layered, Resumable
<1>8. -1 \in -1 .. CALLSTACK_SIZE - 1 /\ -1 >= -1 /\ ~(-1 >= 0)
  BY SizesAssumption
<1> HIDE DEF top
<1> QED
  BY <1>4, <1>5, <1>6, <1>7, <1>8, IntoFunction

LEMMA OperandNext ==
  ASSUME ControlInv, ControlInv', OperandInv, [Next]_vars
  PROVE  OperandInv'
<1> SUFFICES ASSUME Running'
             PROVE  Operands'
  BY DEF OperandInv
<1>1. CASE Step
  <2>1. Running
    BY <1>1 DEF Step, Running, Fetch, Unreachable, Unsupported, Nop, BlockOrLoop, If, Else, End,
       Br, BrIf, BrTable, Return, Call, CallIndirect, Drop, Select, LocalGet, LocalSet, LocalTee,
       GlobalGet, GlobalSet, Const, Eqz, Compare, Arith, Count, Convert
  <2>2. Operands
    BY <2>1 DEF OperandInv
  <2>3. ~Unreachable /\ ~Unsupported
    BY DEF Unreachable, Unsupported, Trap, Running
  <2> QED
    BY <1>1, <2>1, <2>2, <2>3, ComputationKeepsOperands, BlockKeepsOperands, IfKeepsOperands,
       ElseKeepsOperands, EndKeepsOperands, BranchKeepsOperands, ReturnKeepsOperands,
       CallKeepsOperands, CallIndirectKeepsOperands DEF Step
<1>2. CASE InvokeExport
  BY <1>2, InvokeKeepsOperands
<1>3. CASE UNCHANGED vars
  <2>1. Operands
    BY <1>3 DEF vars, OperandInv, Running
  <2> QED
    BY <1>3, <2>1 DEF vars, Operands, Stacked, Entered, Layered, Resumable, Resumes, Slack, Floor
<1> QED
  BY <1>1, <1>2, <1>3 DEF Next, Gone

-----------------------------------------------------------------------------
(***************************************************************************)
(* The theorems on operands.                                               *)
(***************************************************************************)
(* The frames that interpret() keeps saved heights with the slack of their *)
(* activation below them, however branches drop frames without pop_block.  *)
THEOREM OperandInvariant == Spec => [](ControlInv /\ OperandInv)
<1>1. Init => OperandInv
  BY DEF Init, OperandInv, Running
<1>2. ControlInv /\ ControlInv' /\ OperandInv /\ [Next]_vars => OperandInv'
  BY OperandNext
<1> QED
  BY <1>1, <1>2, ControlInvariant, PTL DEF Spec

(* The handlers decrement sp and read stack[sp] without a test: in every   *)
(* reachable state the running activation has pushed what they take.       *)
THEOREM OperandsNeverUnderflow == Spec => []NoUnderflow
<1>1. ControlInv /\ OperandInv => NoUnderflow
  BY TypedAtPc, ActivationSlack DEF OperandInv, NoUnderflow, Operands, Covers
<1> QED
  BY <1>1, OperandInvariant, PTL

(* Where branches leave nothing behind and no import is called, the stack  *)
(* is exactly as high as validation says.                                  *)
THEOREM HeightsAreExact == Spec => []ExactHeight
<1>1. ControlInv /\ OperandInv => ExactHeight
  BY TypedAtPc, ActivationSlack DEF OperandInv, ExactHeight, Operands, Covers, Exact
<1> QED
  BY <1>1, OperandInvariant, PTL

(* No other action can be the step of an end instruction.                  *)
LEMMA EndIsTheStep ==
  ASSUME Next, Fetch("end"), Running'
  PROVE  End /\ ~ResultMismatch(callstack[csp].block)
<1> USE DEF Fetch
<1>1. ~InvokeExport /\ ~Gone
  BY DEF InvokeExport, Invoke, Gone
<1>2. /\ ~Unreachable /\ ~Unsupported /\ ~Nop /\ ~BlockOrLoop /\ ~If /\ ~Else
      /\ ~Br /\ ~BrIf /\ ~BrTable /\ ~Return /\ ~Call /\ ~CallIndirect
  BY DEF Unreachable, Unsupported, Nop, BlockOrLoop, If, Else, Br, BrIf, BrTable, Return,
         Call, CallIndirect
<1>3. /\ ~Drop /\ ~Select /\ ~LocalGet /\ ~LocalSet /\ ~LocalTee /\ ~GlobalGet /\ ~GlobalSet
      /\ ~Const /\ ~Eqz /\ ~Compare /\ ~Arith /\ ~Count /\ ~Convert
  BY DEF Drop, Select, LocalGet, LocalSet, LocalTee, GlobalGet, GlobalSet, Const, Eqz,
         Compare, Arith, Count, Convert
<1>4. End
  BY <1>1, <1>2, <1>3 DEF Next, Step
<1> QED
  BY <1>4 DEF End, Trap, Running

(* Leaving a block or a loop restores the stack, plus the result, whatever *)
(* a branch left in it.                                                    *)
THEOREM BlocksRestoreTheStack == Spec => BlockExitHeight
<1> DEFINE Restored ==
      Fetch("end") /\ Running' /\ Block(BlockAt(csp)).block_type \in {"block", "loop"} =>
        sp' = callstack[csp].sp + ResultCount(wasm, BlockAt(csp))
<1>1. ControlInv /\ OperandInv /\ [Next]_vars => [Restored]_vars
  <2> SUFFICES ASSUME ControlInv, OperandInv, Next, Fetch("end"), Running',
                      Block(BlockAt(csp)).block_type \in {"block", "loop"}
               PROVE  sp' = callstack[csp].sp + ResultCount(wasm, BlockAt(csp))
    OBVIOUS
  <2>1. Running /\ Operands /\ Instr.op = "end"
    BY DEF Fetch, Running, OperandInv
  <2>2. sp' = PoppedSp(callstack[csp])
    BY EndIsTheStep DEF End
  <2> QED
    BY <2>1, <2>2, Popped DEF Block
<1> QED
  BY <1>1, OperandInvariant, PTL DEF Spec, BlockExitHeight

-----------------------------------------------------------------------------
(***************************************************************************)
(* The stack pointers.  A handler pops no more than is there and writes    *)
(* past the end of the array only where the model says "overrun", so sp    *)
(* and every sp that was saved stay within the operand stack.              *)
(***************************************************************************)
Tops == -1 .. STACK_SIZE - 1
Bases == -1 .. STACK_SIZE

Pointers ==
  /\ DOMAIN stack = Slots
  /\ sp \in Tops /\ fp \in Bases
  /\ \A i \in 0 .. CALLSTACK_SIZE : callstack[i].sp \in Tops /\ callstack[i].fp \in Bases

Inv == ControlInv /\ OperandInv /\ Pointers

LEMMA SizesAreNumbers == STACK_SIZE \in Nat /\ STACK_SIZE > 0 /\ CALLSTACK_SIZE \in Nat
BY SizesAssumption

(* What an instruction takes is there.                                     *)
LEMMA Takes ==
  ASSUME Inv, Running
  PROVE  /\ ControlInv /\ Operands
         /\ Pops(wasm, Instr) \in Nat
         /\ \A n \in 0 .. Pops(wasm, Instr) : sp - n \in Tops
         /\ \A n \in 0 .. Pops(wasm, Instr) : sp - n >= OperandBase
         /\ OperandBase \in Int /\ OperandBase >= -1
<1>1. ControlInv /\ Operands
  BY DEF Inv, OperandInv
<1>2. sp \in Int /\ wasm.height[pc] \in Nat
  BY <1>1, TypedAtPc
<1>3. Pops(wasm, Instr) \in Nat /\ wasm.height[pc] - Pops(wasm, Instr) \in Nat
  BY <1>1, Effect
<1>4. OperandBase \in Int /\ OperandBase >= -1 /\ sp - wasm.height[pc] >= OperandBase
  BY <1>1, ActivationSlack DEF Covers
<1>5. sp \in -1 .. STACK_SIZE - 1 /\ STACK_SIZE \in Nat
  BY SizesAreNumbers DEF Inv, Pointers, Tops
<1>6. \A n \in 0 .. Pops(wasm, Instr) : sp - n >= OperandBase
  <2> SUFFICES ASSUME NEW n \in 0 .. Pops(wasm, Instr)
               PROVE  sp - n >= OperandBase
    OBVIOUS
  <2> QED
    BY <1>2, <1>3, <1>4
<1>7. \A n \in 0 .. Pops(wasm, Instr) : sp - n \in Tops
  <2> SUFFICES ASSUME NEW n \in 0 .. Pops(wasm, Instr)
               PROVE  sp - n \in Tops
    OBVIOUS
  <2>1. sp - n >= OperandBase /\ n \in Nat
    BY <1>3, <1>6
  <2> QED
    BY <1>4, <1>5, <2>1 DEF Tops
<1> QED
  BY <1>1, <1>3, <1>4, <1>6, <1>7

(* Nothing but operands moves.                                             *)
LEMMA PointersAfterTaking ==
  ASSUME Inv, Running, NEW n \in 0 .. Pops(wasm, Instr), sp' = sp - n,
         fp' = fp, callstack' = callstack, DOMAIN stack' = DOMAIN stack
  PROVE  Pointers'
BY Takes DEF Inv, Pointers

LEMMA PointersAfterPush ==
  ASSUME Inv, NEW v, Push(v)
  PROVE  Pointers'
<1>1. CASE Overrun(sp + 1)
  BY <1>1 DEF Inv, Pointers, Overrun
<1>2. CASE sp + 1 < STACK_SIZE /\ sp' = sp + 1 /\ stack' = [stack EXCEPT ![sp + 1] = v]
           /\ fp' = fp /\ callstack' = callstack
  <2>1. sp' \in Tops
    BY <1>2, SizesAreNumbers DEF Inv, Pointers, Tops
  <2> QED
    BY <1>2, <2>1 DEF Inv, Pointers
<1> QED
  BY <1>1, <1>2 DEF Push

LEMMA PointersAfterReplace ==
  ASSUME Inv, Running, NEW n \in Nat, NEW v, Replace(n, v), n >= 1, n = Pops(wasm, Instr)
  PROVE  Pointers'
<1>1. n - 1 \in 0 .. Pops(wasm, Instr)
  OBVIOUS
<1>2. sp' = sp - (n - 1)
  BY DEF Replace, Inv, ControlInv, ControlTypes
<1>3. fp' = fp /\ callstack' = callstack /\ DOMAIN stack' = DOMAIN stack
  BY DEF Replace
<1> QED
  BY <1>1, <1>2, <1>3, PointersAfterTaking

LEMMA PointersAfterComputation ==
  ASSUME Inv,
         \/ Nop \/ Drop \/ Select \/ LocalGet \/ LocalSet \/ LocalTee
         \/ GlobalGet \/ GlobalSet \/ Const \/ Eqz \/ Compare \/ Arith
         \/ Count \/ Convert
  PROVE  Pointers'
<1> USE DEF Fetch, Running
<1>1. sp \in Int /\ sp = sp - 0
  BY DEF Inv, ControlInv, ControlTypes
<1>2. Running
  BY DEF Nop, Drop, Select, LocalGet, LocalSet, LocalTee, GlobalGet, GlobalSet, Const, Eqz,
         Compare, Arith, Count, Convert
<1>3. Pops(wasm, Instr) \in Nat
  BY <1>2, Takes
<1>4. CASE Nop \/ LocalTee
  <2>1. 0 \in 0 .. Pops(wasm, Instr)
    BY <1>3
  <2>2. sp' = sp - 0 /\ fp' = fp /\ callstack' = callstack /\ DOMAIN stack' = DOMAIN stack
    BY <1>1, <1>4 DEF Nop, LocalTee
  <2> QED
    BY <1>2, <2>1, <2>2, PointersAfterTaking
<1>5. ASSUME UNCHANGED <<fp, callstack>>, sp' = sp - 1, DOMAIN stack' = DOMAIN stack,
             Pops(wasm, Instr) >= 1
      PROVE  Pointers'
  <2>1. 1 \in 0 .. Pops(wasm, Instr)
    BY <1>3, <1>5
  <2> QED
    BY <1>2, <1>5, <2>1, PointersAfterTaking
<1>6. CASE Drop \/ LocalSet \/ GlobalSet
  <2>1. Pops(wasm, Instr) = 1
    BY <1>6 DEF Drop, LocalSet, GlobalSet, Pops
  <2> QED
    BY <1>5, <1>6, <2>1 DEF Drop, LocalSet, GlobalSet
<1>7. CASE LocalGet \/ GlobalGet \/ Const
  BY <1>7, PointersAfterPush DEF LocalGet, GlobalGet, Const
<1>8. CASE Eqz \/ Count \/ Convert
  <2>1. Pops(wasm, Instr) = 1
    BY <1>8 DEF Eqz, Count, Convert, Pops
  <2> QED
    BY <1>2, <1>8, <2>1, PointersAfterReplace DEF Eqz, Count, Convert
<1>9. CASE Compare
  <2>1. Pops(wasm, Instr) = 2
    BY <1>9 DEF Compare, Pops
  <2> QED
    BY <1>2, <1>9, <2>1, PointersAfterReplace DEF Compare
<1>10. CASE Select
  <2>1. Pops(wasm, Instr) = 3
    BY <1>10 DEF Select, Pops
  <2>2. CASE status' = "exited" /\ UNCHANGED <<machine, wasm, globals, exception>>
    BY <2>2 DEF machine, Inv, Pointers
  <2>3. CASE Replace(3, IF Cond THEN stack[sp - 2] ELSE stack[sp - 1])
    BY <1>2, <2>1, <2>3, PointersAfterReplace
  <2> QED
    BY <1>10, <2>2, <2>3 DEF Select
<1>11. CASE Arith
  <2>1. Pops(wasm, Instr) = 2
    BY <1>11 DEF Arith, Pops
  <2>2. CASE sp' = sp - 1 /\ UNCHANGED <<wasm, fp, stack, csp, callstack, globals>>
    BY <1>5, <2>1, <2>2
  <2>3. CASE Replace(2, Val(stack[sp - 1].value_type,
                            Computed(Imm.op, Imm.type, First, Second)))
    BY <1>2, <2>1, <2>3, PointersAfterReplace
  <2>4. CASE UNCHANGED <<machine, wasm, globals, exception>>
    BY <2>4 DEF machine, Inv, Pointers
  <2> QED
    BY <1>11, <2>2, <2>3, <2>4 DEF Arith
<1> QED
  BY <1>4, <1>6, <1>7, <1>8, <1>9, <1>10, <1>11

(* A frame written on top of the others, or above them.                    *)
LEMMA PointersAfterFrame ==
  ASSUME Inv, NEW c, NEW frame,
         callstack' = [callstack EXCEPT ![c] = frame],
         frame.sp \in Tops, frame.fp \in Bases,
         sp' \in Tops, fp' \in Bases, DOMAIN stack' = Slots
  PROVE  Pointers'
<1>1. \A i \in 0 .. CALLSTACK_SIZE : callstack'[i] = callstack[i] \/ callstack'[i] = frame
  BY DEF Inv, ControlInv, ControlTypes
<1> QED
  BY <1>1 DEF Inv, Pointers

LEMMA PointersAfterOverrun ==
  ASSUME Inv, NEW top, Overrun(top)
  PROVE  Pointers'
BY DEF Inv, Pointers, Overrun

LEMMA PointersAfterSetupCall ==
  ASSUME Inv, NEW fidx \in DOMAIN wasm.functions, NEW s, NEW top \in Int, NEW c, NEW f,
         NEW savedPc, SetupCall(fidx, s, top, c, f, savedPc),
         CalleeTop(fidx, top) < STACK_SIZE, f \in Bases,
         top - ParamCount(wasm, wasm.functions[fidx]) >= -1
  PROVE  Pointers'
<1> DEFINE b == wasm.functions[fidx]
           savedSp == top - ParamCount(wasm, b)
           frame == [block |-> b, sp |-> savedSp, fp |-> f, ra |-> savedPc]
<1>1. wasm \in Modules /\ WellNested(wasm)
  BY NestingAssumption DEF Inv, ControlInv, ControlTypes
<1>2. b \in DOMAIN wasm.block
  BY <1>1 DEF WellNested
<1>3. ParamCount(wasm, b) \in Nat /\ LocalCount(wasm, b) \in Nat
  BY <1>1, <1>2, CountFacts
<1>4. top + LocalCount(wasm, b) < STACK_SIZE
  BY DEF CalleeTop
<1>5. top + LocalCount(wasm, b) \in Tops /\ savedSp \in Tops /\ savedSp + 1 \in Bases
  BY <1>3, <1>4, SizesAreNumbers DEF Tops, Bases
<1>6. /\ callstack' = [callstack EXCEPT ![c + 1] = frame]
      /\ sp' = top + LocalCount(wasm, b) /\ fp' = savedSp + 1
      /\ DOMAIN stack' = Slots
  BY DEF SetupCall, PushBlock, CalleeTop, ZeroLocals
<1>7. frame.sp \in Tops /\ frame.fp \in Bases
  BY <1>5
<1> HIDE DEF frame
<1> QED
  BY <1>5, <1>6, <1>7, PointersAfterFrame

LEMMA PointersAfterControl ==
  ASSUME Inv, BlockOrLoop \/ If \/ Else \/ Br \/ BrIf \/ BrTable \/ Return
  PROVE  Pointers'
<1> USE DEF Fetch, Running
<1>1. sp \in Int /\ sp = sp - 0 /\ sp \in Tops /\ fp \in Bases /\ DOMAIN stack = Slots
  BY DEF Inv, ControlInv, ControlTypes, Pointers
<1>2. Running
  BY DEF BlockOrLoop, If, Else, Br, BrIf, BrTable, Return
<1>3. Pops(wasm, Instr) \in Nat
  BY <1>2, Takes
<1>4. Instr.op \in {"if", "br_if", "br_table"} => sp - 1 \in Tops
  <2> SUFFICES ASSUME Instr.op \in {"if", "br_if", "br_table"}
               PROVE  sp - 1 \in Tops
    OBVIOUS
  <2>1. Pops(wasm, Instr) = 1 /\ 1 \in 0 .. 1
    BY DEF Pops
  <2> QED
    BY <1>2, <2>1, Takes
<1>5. CASE Else \/ Br \/ BrIf \/ BrTable \/ Return
  <2>1. fp' = fp /\ callstack' = callstack /\ stack' = stack
    BY <1>5 DEF Else, Br, BrIf, BrTable, Return
  <2>2. sp' = sp \/ (sp' = sp - 1 /\ Instr.op \in {"if", "br_if", "br_table"})
    BY <1>5 DEF Else, Br, BrIf, BrTable, Return
  <2> QED
    BY <1>1, <1>4, <2>1, <2>2 DEF Inv, Pointers
<1>6. CASE BlockOrLoop \/ If
  <2>1. fp' = fp /\ stack' = stack
    BY <1>6 DEF BlockOrLoop, If
  <2>2. sp' \in Tops
    BY <1>1, <1>4, <1>6 DEF BlockOrLoop, If
  <2>3. CASE callstack' = callstack
    BY <1>1, <2>1, <2>2, <2>3 DEF Inv, Pointers
  <2> DEFINE frame == [block |-> wasm.block_lookup[pc], sp |-> sp, fp |-> fp, ra |-> Instr.next]
  <2>4. CASE callstack' = [callstack EXCEPT ![csp + 1] = frame]
    <3>1. frame.sp \in Tops /\ frame.fp \in Bases
      BY <1>1
    <3> HIDE DEF frame
    <3> QED
      BY <1>1, <2>1, <2>2, <2>4, <3>1, PointersAfterFrame
  <2> QED
    BY <1>6, <2>3, <2>4 DEF BlockOrLoop, If, PushBlock, SavedSpOfIf
<1> QED
  BY <1>5, <1>6

LEMMA PointersAfterEnd ==
  ASSUME Inv, End
  PROVE  Pointers'
<1> DEFINE frame == callstack[csp]
<1>1. Running /\ Instr.op = "end"
  BY DEF End, Fetch, Running
<1>2. ControlInv /\ Operands /\ sp \in Tops /\ fp \in Bases /\ DOMAIN stack = Slots
  BY <1>1, Takes DEF Inv, Pointers
<1>3. csp \in 0 .. CALLSTACK_SIZE
  BY <1>1, <1>2 DEF ControlInv, Control
<1>4. frame.sp \in Tops /\ frame.fp \in Bases
  BY <1>3 DEF Inv, Pointers
<1>5. PoppedSp(frame) \in Int /\ PoppedSp(frame) >= -1 /\ PoppedSp(frame) <= sp
  BY <1>1, <1>2, <1>4, Popped, SizesAreNumbers DEF PoppedSp, Tops
<1>6. PoppedSp(frame) \in Tops
  BY <1>2, <1>5, SizesAreNumbers DEF Tops
<1>7. DOMAIN PoppedStack(frame) = Slots
  BY <1>2 DEF PoppedStack
<1> QED
  BY <1>2, <1>4, <1>6, <1>7 DEF End, Inv, Pointers

LEMMA PointersAfterCall ==
  ASSUME Inv, Call \/ CallIndirect
  PROVE  Pointers'
<1> USE DEF Fetch, Running
<1>1. sp \in Int /\ sp \in Tops /\ fp \in Bases /\ wasm \in Modules
  BY DEF Inv, ControlInv, ControlTypes, Pointers
<1>2. Running /\ ControlInv /\ Operands
  BY Takes DEF Call, CallIndirect
<1>3. TypedInstr(wasm, pc) /\ NestedInstr(wasm, pc) /\ Instr = wasm.code[pc]
      /\ WellNested(wasm)
  BY <1>2, TypedAtPc, NestingAssumption
<1>4. ASSUME NEW fidx \in DOMAIN wasm.functions, NEW top \in Int, EnterFunction(fidx, top),
             NEW n \in 0 .. Pops(wasm, Instr),
             top - ParamCount(wasm, wasm.functions[fidx]) = sp - n
      PROVE  Pointers'
  <2>1. sp - n \in Tops /\ sp - n >= -1
    BY <1>2, Takes, SizesAreNumbers DEF Tops
  <2> QED
    BY <1>1, <1>4, <2>1, PointersAfterSetupCall DEF EnterFunction
<1>5. CASE Call
  <2>1. Instr.op = "call" /\ Imm = Instr.imm
    BY <1>5 DEF Call, Imm
  <2>2. Imm \in DOMAIN wasm.functions /\ Pops(wasm, Instr) = ParamCount(wasm, wasm.functions[Imm])
    BY <1>3, <2>1 DEF NestedInstr, Pops
  <2>3. CASE EnterFunction(Imm, sp)
    <3>1. Pops(wasm, Instr) \in 0 .. Pops(wasm, Instr)
      BY <1>2, Takes
    <3>2. sp - ParamCount(wasm, wasm.functions[Imm]) = sp - Pops(wasm, Instr)
      BY <2>2
    <3> QED
      BY <1>1, <1>4, <2>2, <2>3, <3>1, <3>2
  <2>4. CASE UNCHANGED <<sp, fp, stack, callstack>>
    BY <2>4 DEF Inv, Pointers
  <2> QED
    BY <1>5, <2>3, <2>4, PointersAfterOverrun DEF Call
<1>6. CASE CallIndirect
  <2>1. Instr.op = "call_indirect" /\ Imm = Instr.imm
    BY <1>6 DEF CallIndirect, Imm
  <2>2. wasm.types[Imm] \in FuncType
        /\ \A g \in DOMAIN wasm.functions : Callable(wasm, g, wasm.types[Imm])
    BY <1>3, <2>1 DEF TypedInstr
  <2>3. Len(wasm.types[Imm].params) \in Nat
        /\ Pops(wasm, Instr) = 1 + Len(wasm.types[Imm].params)
    BY <2>1, <2>2, LenProperties DEF FuncType, Pops
  <2>4. CASE UNCHANGED machine
    BY <2>4 DEF machine, Inv, Pointers
  <2>5. CASE sp' = sp - 1 /\ UNCHANGED <<fp, stack, callstack>>
    <3>1. 1 \in 0 .. Pops(wasm, Instr)
      BY <2>3
    <3> QED
      BY <1>2, <2>5, <3>1, PointersAfterTaking
  <2>6. CASE /\ Allocated(TopI32) /\ ~IsImport(Callee) /\ ~MaskMismatch
             /\ EnterFunction(Callee, sp - 1)
    <3>1. Callee \in DOMAIN wasm.functions
      BY <1>3, <2>6 DEF WellNested, Callee, Allocated
    <3>2. ParamCount(wasm, wasm.functions[Callee]) = Len(wasm.types[Imm].params)
      BY <2>2, <2>6, <3>1
         DEF Callable, IsImport, MaskMismatch, CalleeType, Block, ParamCount
    <3>3. Pops(wasm, Instr) \in 0 .. Pops(wasm, Instr) /\ sp - 1 \in Int
          /\ (sp - 1) - ParamCount(wasm, wasm.functions[Callee]) = sp - Pops(wasm, Instr)
      BY <1>1, <2>3, <3>2
    <3> QED
      BY <1>4, <2>6, <3>1, <3>3
  <2> QED
    BY <1>6, <2>4, <2>5, <2>6, PointersAfterOverrun DEF CallIndirect, CallEntry
<1> QED
  BY <1>5, <1>6

LEMMA PointersAfterInvoke ==
  ASSUME Inv, InvokeExport
  PROVE  Pointers'
<1>1. PICK fidx \in wasm.exports :
        \E args \in Arguments(Block(wasm.functions[fidx]).type) : Invoke(fidx, args)
  BY DEF InvokeExport
<1>2. PICK args \in Arguments(Block(wasm.functions[fidx]).type) : Invoke(fidx, args)
  BY <1>1
<1> DEFINE b == wasm.functions[fidx]
           top == Len(Block(b).type.params) - 1
<1>3. wasm \in Modules /\ WellNested(wasm)
  BY NestingAssumption DEF Inv, ControlInv, ControlTypes
<1>4. fidx \in DOMAIN wasm.functions /\ b \in DOMAIN wasm.block
  BY <1>1, <1>3 DEF WellNested
<1>5. top \in Int /\ top - ParamCount(wasm, b) >= -1
  BY <1>3, <1>4, CountFacts DEF ParamCount, Block
<1>6. \/ Overrun(CalleeTop(fidx, top))
      \/ /\ CalleeTop(fidx, top) < STACK_SIZE
         /\ SetupCall(fidx, PushArgs(Block(b).type, args), top, -1, -1, pc)
  BY <1>2 DEF Invoke
<1>7. -1 \in Bases
  BY SizesAreNumbers DEF Bases
<1> HIDE DEF top
<1> QED
  BY <1>4, <1>5, <1>6, <1>7, PointersAfterSetupCall, PointersAfterOverrun

LEMMA PointersNext ==
  ASSUME Inv, [Next]_vars
  PROVE  Pointers'
<1>1. CASE Unreachable \/ Unsupported \/ UNCHANGED vars
  BY <1>1 DEF Unreachable, Unsupported, vars, Inv, Pointers
<1>2. CASE Step
  BY <1>1, <1>2, PointersAfterComputation, PointersAfterControl, PointersAfterEnd,
     PointersAfterCall DEF Step
<1> QED
  BY <1>1, <1>2, PointersAfterInvoke DEF Next, Gone

LEMMA PointersInit == Init => Pointers
<1> SUFFICES ASSUME Init
             PROVE  Pointers
  OBVIOUS
<1>1. -1 \in Tops /\ -1 \in Bases /\ 0 \in Tops /\ 0 \in Bases
  BY SizesAreNumbers DEF Tops, Bases
<1>2. \A i \in 0 .. CALLSTACK_SIZE : callstack[i].sp = 0 /\ callstack[i].fp = 0
  BY DEF Init
<1> QED
  BY <1>1, <1>2 DEF Init, Pointers

(* The stack pointers always lie in m->stack, those that frames saved too, *)
(* and no instruction pops what its activation did not push.               *)
THEOREM StackInvariant == Spec => []Inv
<1>1. Init => Pointers
  BY PointersInit
<1>2. Inv /\ [Next]_vars => Pointers'
  BY PointersNext
<1>3. Inv <=> ControlInv /\ OperandInv /\ Pointers
  BY DEF Inv
<1> QED
  BY <1>1, <1>2, <1>3, OperandInvariant, PTL DEF Spec

-----------------------------------------------------------------------------
(***************************************************************************)
(* Which slots a step writes.                                              *)
(***************************************************************************)
Contained == \A i \in Slots : stack'[i] # stack[i] => MayWrite(i)

(* Only the slot j changes.                                                *)
LEMMA WritesOneSlot ==
  ASSUME Inv, NEW j, NEW v, stack' = [stack EXCEPT ![j] = v], MayWrite(j)
  PROVE  Contained
BY DEF Contained, Inv, Pointers

LEMMA PushIsContained ==
  ASSUME Inv, Running, NEW v, Push(v)
  PROVE  Contained
<1>1. sp - 0 >= OperandBase /\ OperandBase \in Int /\ sp \in Int
  <2>1. 0 \in 0 .. Pops(wasm, Instr)
    BY Takes
  <2> QED
    BY <2>1, Takes DEF Inv, ControlInv, ControlTypes
<1>2. MayWrite(sp + 1)
  BY <1>1 DEF MayWrite
<1>3. CASE stack' = [stack EXCEPT ![sp + 1] = v]
  BY <1>2, <1>3, WritesOneSlot
<1>4. CASE stack' = stack
  BY <1>4 DEF Contained
<1> QED
  BY <1>3, <1>4 DEF Push, Overrun

LEMMA ReplaceIsContained ==
  ASSUME Inv, Running, NEW n \in Nat, NEW v, Replace(n, v), n = Pops(wasm, Instr)
  PROVE  Contained
<1>1. sp - n >= OperandBase /\ OperandBase \in Int /\ sp \in Int
  <2>1. n \in 0 .. Pops(wasm, Instr)
    OBVIOUS
  <2> QED
    BY <2>1, Takes DEF Inv, ControlInv, ControlTypes
<1>2. MayWrite(sp - n + 1)
  BY <1>1 DEF MayWrite
<1> QED
  BY <1>2, WritesOneSlot DEF Replace

(* setup_call sets the callee's locals to zero, above the arguments.       *)
LEMMA EnterFunctionIsContained ==
  ASSUME Inv, NEW fidx \in DOMAIN wasm.functions, NEW top \in Int,
         EnterFunction(fidx, top), top >= OperandBase, OperandBase \in Int
  PROVE  Contained
<1> DEFINE b == wasm.functions[fidx]
<1>1. LocalCount(wasm, b) \in Nat
  <2>1. wasm \in Modules /\ b \in DOMAIN wasm.block
    BY NestingAssumption DEF Inv, ControlInv, ControlTypes, WellNested
  <2> QED
    BY <2>1, CountFacts
<1>2. stack' = ZeroLocals(stack, b, top)
  BY DEF EnterFunction, SetupCall
<1> SUFFICES ASSUME NEW i \in Slots, stack'[i] # stack[i]
             PROVE  MayWrite(i)
  BY DEF Contained
<1>3. i \in top + 1 .. top + LocalCount(wasm, b)
  BY <1>2 DEF ZeroLocals
<1> QED
  BY <1>1, <1>3 DEF MayWrite

LEMMA ComputationIsContained ==
  ASSUME Inv,
         \/ Nop \/ Drop \/ Select \/ LocalGet \/ LocalSet \/ LocalTee
         \/ GlobalGet \/ GlobalSet \/ Const \/ Eqz \/ Compare \/ Arith
         \/ Count \/ Convert
  PROVE  Contained
<1> USE DEF Fetch, Running
<1>1. CASE stack' = stack
  BY <1>1 DEF Contained
<1>2. CASE LocalSet \/ LocalTee
  <2>1. MayWrite(fp + Imm) /\ stack' = [stack EXCEPT ![fp + Imm] = Top]
    BY <1>2 DEF LocalSet, LocalTee, LocalAddr, MayWrite
  <2> QED
    BY <2>1, WritesOneSlot
<1>3. CASE LocalGet \/ GlobalGet \/ Const
  <2>1. Running
    BY <1>3 DEF LocalGet, GlobalGet, Const
  <2> QED
    BY <1>3, <2>1, PushIsContained DEF LocalGet, GlobalGet, Const
<1>4. CASE Eqz \/ Count \/ Convert
  <2>1. Running /\ Pops(wasm, Instr) = 1
    BY <1>4 DEF Eqz, Count, Convert, Pops
  <2> QED
    BY <1>4, <2>1, ReplaceIsContained DEF Eqz, Count, Convert
<1>5. CASE Compare
  <2>1. Running /\ Pops(wasm, Instr) = 2
    BY <1>5 DEF Compare, Pops
  <2> QED
    BY <1>5, <2>1, ReplaceIsContained DEF Compare
<1>6. CASE Select
  <2>1. Running /\ Pops(wasm, Instr) = 3
    BY <1>6 DEF Select, Pops
  <2>2. CASE Replace(3, IF Cond THEN stack[sp - 2] ELSE stack[sp - 1])
    BY <2>1, <2>2, ReplaceIsContained
  <2> QED
    BY <1>1, <1>6, <2>2 DEF Select, machine
<1>7. CASE Arith
  <2>1. Running /\ Pops(wasm, Instr) = 2
    BY <1>7 DEF Arith, Pops
  <2>2. CASE Replace(2, Val(stack[sp - 1].value_type,
                            Computed(Imm.op, Imm.type, First, Second)))
    BY <2>1, <2>2, ReplaceIsContained
  <2> QED
    BY <1>1, <1>7, <2>2 DEF Arith, machine
<1> QED
  BY <1>1, <1>2, <1>3, <1>4, <1>5, <1>6, <1>7 DEF Nop, Drop, GlobalSet

(* The result of a block goes where the block began, above what its        *)
(* activation started with; that of a function to the activation's slot 0. *)
LEMMA EndIsContained ==
  ASSUME Inv, End
  PROVE  Contained
<1> DEFINE frame == callstack[csp]
           b == BlockAt(csp)
<1>1. Running /\ Instr.op = "end"
  BY DEF End, Fetch, Running
<1>2. ControlInv /\ Operands
  BY <1>1, Takes
<1>3. CASE stack' = stack
  BY <1>3 DEF Contained
<1>4. CASE stack' = [stack EXCEPT ![frame.sp + 1] = Top]
  <2>1. frame.sp \in Int /\ EntryHeight(wasm, b) \in Nat
    BY <1>1, <1>2, Popped
  <2>2. CASE IsFunction(wasm, b)
    <3>1. wasm.nest[b] = 0 /\ csp - 0 = csp
      <4>1. wasm \in Modules /\ csp \in Nat /\ b \in DOMAIN wasm.labels
        BY <1>1, <1>2, TypedAtPc
      <4>2. NestedBlock(wasm, b)
        BY <4>1, BlockFacts
      <4> QED
        BY <2>2, <4>1, <4>2 DEF NestedBlock
    <3>2. fp = frame.sp + 1
      BY <1>1, <1>2, <3>1, ActivationSlack
    <3>3. MayWrite(frame.sp + 1)
      BY <1>1, <2>2, <3>2 DEF MayWrite
    <3> QED
      BY <1>4, <3>3, WritesOneSlot
  <2>3. CASE ~IsFunction(wasm, b)
    <3>1. OperandBase \in Int /\ Slack(wasm, callstack, csp) >= OperandBase
      BY <1>1, <1>2, ActivationSlack DEF Covers
    <3>2. Slack(wasm, callstack, csp) <= frame.sp
      BY <2>1, <2>3 DEF Slack, Floor, BlockAt, IsFunction
    <3>3. Slack(wasm, callstack, csp) \in Int
      BY <1>1, <1>2, ActivationSlack
    <3>4. MayWrite(frame.sp + 1)
      BY <2>1, <3>1, <3>2, <3>3 DEF MayWrite
    <3> QED
      BY <1>4, <3>4, WritesOneSlot
  <2> QED
    BY <2>2, <2>3
<1> QED
  BY <1>3, <1>4 DEF End, PoppedStack

LEMMA CallIsContained ==
  ASSUME Inv, Call \/ CallIndirect
  PROVE  Contained
<1> USE DEF Fetch, Running
<1>1. Running /\ ControlInv /\ Operands
  BY Takes DEF Call, CallIndirect
<1>2. TypedInstr(wasm, pc) /\ NestedInstr(wasm, pc) /\ Instr = wasm.code[pc]
      /\ WellNested(wasm) /\ sp \in Int
  BY <1>1, TypedAtPc, NestingAssumption
<1>3. CASE stack' = stack
  BY <1>3 DEF Contained
<1>4. CASE Call /\ EnterFunction(Imm, sp)
  <2>1. Imm \in DOMAIN wasm.functions
    BY <1>2, <1>4 DEF Call, Imm, NestedInstr
  <2>2. 0 \in 0 .. Pops(wasm, Instr) /\ sp - 0 = sp
    BY <1>1, <1>2, Takes
  <2>3. sp >= OperandBase /\ OperandBase \in Int
    BY <1>1, <2>2, Takes
  <2> QED
    BY <1>2, <1>4, <2>1, <2>3, EnterFunctionIsContained
<1>5. CASE CallIndirect /\ Allocated(TopI32) /\ EnterFunction(Callee, sp - 1)
  <2>1. Callee \in DOMAIN wasm.functions
    BY <1>2, <1>5 DEF WellNested, Callee, Allocated
  <2>2. 1 \in 0 .. Pops(wasm, Instr)
    <3>1. Instr.op = "call_indirect"
      BY <1>5 DEF CallIndirect
    <3>2. Len(wasm.types[Instr.imm].params) \in Nat
      BY <1>2, <3>1, LenProperties DEF TypedInstr, FuncType
    <3> QED
      BY <3>1, <3>2 DEF Pops
  <2>3. sp - 1 >= OperandBase /\ OperandBase \in Int /\ sp - 1 \in Int
    BY <1>1, <1>2, <2>2, Takes
  <2> QED
    BY <1>5, <2>1, <2>3, EnterFunctionIsContained
<1> QED
  BY <1>3, <1>4, <1>5 DEF Call, CallIndirect, CallEntry, Overrun, machine

(* A caller's operands, parameters and locals lie in the same array as     *)
(* those of the function it calls: no step of the callee writes to them.   *)
THEOREM StepsWriteTheirOwnOperands == Spec => WritesStayInActivation
<1> DEFINE Kept == Running => \A i \in Slots : stack'[i] # stack[i] => MayWrite(i)
<1>1. Inv /\ [Next]_vars => [Kept]_vars
  <2> SUFFICES ASSUME Inv, Next, Running
               PROVE  Contained
    BY DEF Contained
  <2>1. CASE stack' = stack
    BY <2>1 DEF Contained
  <2>2. ~InvokeExport
    BY DEF InvokeExport, Invoke, Running
  <2>3. CASE \/ Unreachable \/ Unsupported \/ BlockOrLoop \/ If \/ Else
             \/ Br \/ BrIf \/ BrTable \/ Return \/ Gone
    BY <2>1, <2>3
       DEF Unreachable, Unsupported, BlockOrLoop, If, Else, Br, BrIf, BrTable, Return, Gone, vars
  <2> QED
    BY <2>2, <2>3, ComputationIsContained, EndIsContained, CallIsContained DEF Next, Step
<1> QED
  BY <1>1, StackInvariant, PTL DEF Spec, WritesStayInActivation

-----------------------------------------------------------------------------
(***************************************************************************)
(* The result of an invocation.                                            *)
(***************************************************************************)
LEMMA OnlyEndSucceeds ==
  ASSUME Next, status # "true", status' = "true"
  PROVE  End
<1> USE DEF Fetch, Trap, Overrun
<1>1. ~InvokeExport /\ ~Gone
  BY DEF InvokeExport, Invoke, Gone, vars
<1>2. /\ ~Unreachable /\ ~Unsupported /\ ~Nop /\ ~BlockOrLoop /\ ~If /\ ~Else
      /\ ~Br /\ ~BrIf /\ ~BrTable /\ ~Return
  BY DEF Unreachable, Unsupported, Nop, BlockOrLoop, If, Else, Br, BrIf, BrTable, Return,
         Exhausted
<1>3. ~Call /\ ~CallIndirect
  BY DEF Call, CallIndirect, CallEntry, Exhausted
<1>4. /\ ~Drop /\ ~Select /\ ~LocalGet /\ ~LocalSet /\ ~LocalTee /\ ~GlobalGet /\ ~GlobalSet
      /\ ~Const /\ ~Eqz /\ ~Compare /\ ~Count /\ ~Convert
  BY DEF Drop, Select, LocalGet, LocalSet, LocalTee, GlobalGet, GlobalSet, Const, Eqz,
         Compare, Count, Convert, Push, Replace
<1>5. ~Arith
  BY DEF Arith, Replace
<1> QED
  BY <1>1, <1>2, <1>3, <1>4, <1>5 DEF Next, Step

LEMMA EndLeavesTheResult ==
  ASSUME Inv, End, status' = "true"
  PROVE  ResultOnly'
<1> DEFINE frame == callstack[csp]
           b == BlockAt(csp)
           results == Block(b).type.results
<1>1. Running /\ Instr.op = "end"
  BY DEF End, Fetch, Running
<1>2. ControlInv /\ Operands
  BY <1>1, Takes
<1>3. /\ IsFunction(wasm, b) /\ csp = 0
      /\ ~ResultMismatch(b)
      /\ sp' = PoppedSp(frame) /\ stack' = PoppedStack(frame)
      /\ wasm' = wasm /\ callstack' = callstack
  BY DEF End, Trap, BlockAt
<1>4. /\ sp \in Int /\ frame.sp = -1
      /\ Len(results) = ResultCount(wasm, b) /\ Len(results) \in 0 .. 1
      /\ PoppedSp(frame) = frame.sp + Len(results)
      /\ sp >= frame.sp + Len(results)
  <2>1. wasm.block[b].block_type # "if"
    BY <1>3 DEF IsFunction
  <2>2. Len(results) = ResultCount(wasm, b)
    BY DEF ResultCount, Block
  <2> QED
    BY <1>1, <1>2, <1>3, <2>1, <2>2, Popped, TypedAtPc DEF Operands
<1>5. sp' = Len(results) - 1
  BY <1>3, <1>4
<1>6. sp' = 0 => stack'[0].value_type = results[1]
  <2> SUFFICES ASSUME Len(results) = 1
               PROVE  stack'[0].value_type = results[1]
    BY <1>4, <1>5
  <2>1. HasResult(b) /\ HasResult(frame.block) /\ frame.sp < sp
    <3>1. ResultCount(wasm, b) = 1 /\ b = frame.block
      BY <1>4 DEF BlockAt
    <3>2. frame.sp < sp
      <4> HIDE DEF results
      <4> QED
        BY <1>4
    <3> QED
      BY <3>1, <3>2 DEF HasResult
  <2>2. stack' = [stack EXCEPT ![0] = Top]
    BY <1>3, <1>4, <2>1 DEF PoppedStack
  <2>3. stack'[0] = Top
    <3>1. 0 \in DOMAIN stack
      BY SizesAreNumbers DEF Inv, Pointers, Slots
    <3> QED
      BY <2>2, <3>1
  <2> QED
    BY <1>3, <2>1, <2>3 DEF ResultMismatch
<1>7. Block(BlockAt(0))' = Block(b)
  BY <1>3 DEF Block, BlockAt
<1> QED
  BY <1>5, <1>6, <1>7 DEF ResultOnly, Top

(* When the exported function returns, its result is on the stack and      *)
(* nothing else, whatever its blocks and branches and calls left there.    *)
THEOREM InvocationsLeaveTheirResult == Spec => []ResultOnly
<1>1. Init => ResultOnly
  BY DEF Init, ResultOnly
<1>2. Inv /\ ResultOnly /\ [Next]_vars => ResultOnly'
  <2> SUFFICES ASSUME Inv, ResultOnly, [Next]_vars
               PROVE  ResultOnly'
    OBVIOUS
  <2>1. CASE UNCHANGED vars
    BY <2>1 DEF vars, ResultOnly, Block, BlockAt, Top
  <2>2. CASE Next /\ status' = "true"
    <3>1. CASE status = "true"
      <4>1. ~Step
        BY <3>1 DEF Step, Fetch, Unreachable, Unsupported, Nop, BlockOrLoop, If, Else, End,
           Br, BrIf, BrTable, Return, Call, CallIndirect, Drop, Select, LocalGet, LocalSet,
           LocalTee, GlobalGet, GlobalSet, Const, Eqz, Compare, Arith, Count, Convert
      <4>2. ~InvokeExport /\ ~Gone
        BY <2>2, <3>1 DEF InvokeExport, Invoke, Overrun, Gone
      <4> QED
        BY <2>2, <4>1, <4>2 DEF Next
    <3> QED
      BY <2>2, <3>1, OnlyEndSucceeds, EndLeavesTheResult
  <2> QED
    BY <2>1, <2>2 DEF ResultOnly
<1> QED
  BY <1>1, <1>2, StackInvariant, PTL DEF Spec

-----------------------------------------------------------------------------
(***************************************************************************)
(* The invariant of types.  An activation of function b whose slots begin  *)
(* at base has n operands of the types t above its parameters and locals.  *)
(***************************************************************************)
HasSlots(w, s, b, base) ==
  \A j \in 0 .. SlotCount(w, b) - 1 : s[base + j].value_type = SlotType(w, b, j)

HasOperands(w, s, b, base, t, n) ==
  \A j \in 1 .. n : s[base + SlotCount(w, b) - 1 + j].value_type = t[j]

Activation(w, s, b, base, t, n) ==
  HasSlots(w, s, b, base) /\ HasOperands(w, s, b, base, t, n)

(* What the caller of the function of frame i has waiting on the stack:    *)
(* all that is below the frame, and the result is what it goes on with.    *)
Suspended(w, s, frames, i) ==
  LET caller == FunctionOf(w, frames[i - 1].block)
      callee == frames[i].block
      n == w.height[frames[i].ra] - ResultCount(w, callee) IN
  /\ caller \in DOMAIN w.labels
  /\ frames[i].fp \in Nat /\ n \in Nat
  /\ frames[i].fp + SlotCount(w, caller) - 1 + n = frames[i].sp
  /\ Activation(w, s, caller, frames[i].fp, w.operands[frames[i].ra], n)
  /\ ResultCount(w, callee) = 1 =>
       w.operands[frames[i].ra][n + 1] = w.block[callee].type.results[1]

Callers(w, s, frames, top) ==
  \A i \in 1 .. top : IsFunction(w, frames[i].block) => Suspended(w, s, frames, i)

(* A callee's part of the stack is above that of its callers.              *)
Rising(w, frames, top) ==
  \A i, k \in 0 .. top :
    i <= k /\ IsFunction(w, frames[i].block) /\ IsFunction(w, frames[k].block) =>
      frames[i].sp <= frames[k].sp

TypedStack ==
  /\ Activation(wasm, stack, FunctionOf(wasm, BlockAt(csp)), fp,
                wasm.operands[pc], wasm.height[pc])
  /\ Callers(wasm, stack, callstack, csp)
  /\ Rising(wasm, callstack, csp)

TypedGlobals ==
  /\ DOMAIN globals = DOMAIN wasm.globals
  /\ \A g \in DOMAIN wasm.globals : globals[g].value_type = wasm.globals[g].value_type

NoMismatch == status # "exited" /\ exception # "call_type_mismatch"

TypesInv == Exact(wasm) => /\ Running => TypedStack
                           /\ TypedGlobals
                           /\ NoMismatch

-----------------------------------------------------------------------------
(***************************************************************************)
(* The blocks around an instruction belong to one function.                *)
(***************************************************************************)
LEMMA SameFunction ==
  ASSUME NEW w \in Modules, NEW cs, NEW n \in Nat, Mirrors(w, cs, n),
         NEW d \in 0 .. w.nest[cs[n].block]
  PROVE  /\ FunctionOf(w, cs[n - d].block) = FunctionOf(w, cs[n].block)
         /\ FunctionOf(w, cs[n].block) = cs[n - w.nest[cs[n].block]].block
         /\ FunctionOf(w, cs[n].block) \in DOMAIN w.labels
<1> DEFINE depth == w.nest[cs[n].block]
<1>1. \A i \in 0 .. n : /\ cs[i].block \in DOMAIN w.labels
                        /\ w.nest[cs[i].block] \in 0 .. i
                        /\ FunctionOf(w, cs[i].block) = cs[i - w.nest[cs[i].block]].block
  <2> SUFFICES ASSUME NEW i \in 0 .. n
               PROVE  /\ cs[i].block \in DOMAIN w.labels
                      /\ w.nest[cs[i].block] \in 0 .. i
                      /\ FunctionOf(w, cs[i].block) = cs[i - w.nest[cs[i].block]].block
    OBVIOUS
  <2>1. w.nest[cs[i].block] \in 0 .. i /\ cs[i].block \in DOMAIN w.labels
    BY DEF Mirrors
  <2>2. w.nest[cs[i].block] \in 0 .. w.nest[cs[i].block]
    BY <2>1
  <2> QED
    BY <2>1, <2>2 DEF Mirrors, FunctionOf
<1>2. n \in 0 .. n /\ n - d \in 0 .. n /\ w.nest[cs[n - d].block] = depth - d
  BY LabelAtDepth
<1>3. depth \in 0 .. n
  BY <1>1, <1>2
<1>4. (n - d) - (depth - d) = n - depth /\ n - depth \in 0 .. n
  BY <1>3
<1> QED
  BY <1>1, <1>2, <1>3, <1>4

(* No frame of a function lies above that of the running one.              *)
LEMMA NoFunctionAbove ==
  ASSUME NEW w \in Modules, NEW cs, NEW n \in Nat, Mirrors(w, cs, n),
         NEW i \in 0 .. n, IsFunction(w, cs[i].block)
  PROVE  i <= n - w.nest[cs[n].block]
<1> DEFINE depth == w.nest[cs[n].block]
<1>1. depth \in 0 .. n
  <2>1. n \in 0 .. n
    OBVIOUS
  <2> QED
    BY <2>1 DEF Mirrors
<1> SUFFICES ASSUME i > n - depth
             PROVE  FALSE
  BY <1>1
<1>2. PICK d \in 0 .. depth : i = n - d /\ d < depth
  <2>1. n - i \in 0 .. depth /\ n - (n - i) = i /\ n - i < depth
    BY <1>1
  <2> QED
    BY <2>1
<1>3. w.nest[cs[i].block] = depth - d /\ cs[i].block \in DOMAIN w.labels
  BY <1>2, LabelAtDepth
<1>4. w.nest[cs[i].block] # 0
  BY <1>1, <1>2, <1>3
<1> QED
  BY <1>3, <1>4, BlockFacts DEF NestedBlock

-----------------------------------------------------------------------------
(***************************************************************************)
(* The instruction at pc and the operands it finds.                        *)
(***************************************************************************)
Own == FunctionOf(wasm, BlockAt(csp))
Height == wasm.height[pc]
Types == wasm.operands[pc]

LEMMA TypedPc ==
  ASSUME Inv, Running, Exact(wasm), TypedStack
  PROVE  /\ ControlInv /\ Operands /\ wasm \in Modules
         /\ NestedInstr(wasm, pc) /\ TypedInstr(wasm, pc) /\ OperandTypes(wasm, pc)
         /\ Instr = wasm.code[pc] /\ wasm.owner[pc] = BlockAt(csp)
         /\ csp \in Nat /\ fp \in Nat /\ Height \in Nat /\ sp \in Tops
         /\ Own \in DOMAIN wasm.labels /\ SlotCount(wasm, Own) \in Nat
         /\ OperandBase = fp - 1 + SlotCount(wasm, Own) /\ OperandBase \in Int
         /\ sp = OperandBase + Height
<1>1. ControlInv /\ Operands
  BY Takes
<1>2. /\ wasm \in Modules /\ NestedInstr(wasm, pc) /\ TypedInstr(wasm, pc)
      /\ Instr = wasm.code[pc] /\ wasm.owner[pc] = BlockAt(csp)
      /\ csp \in Nat /\ Height \in Nat /\ sp \in Int
  BY <1>1, TypedAtPc DEF Height
<1>3. OperandTypes(wasm, pc)
  BY <1>1, <1>2, TypingAssumption DEF WellTyped, Operands
<1>4. /\ fp \in Nat /\ Own \in DOMAIN wasm.labels /\ OwnSlots = SlotCount(wasm, Own)
      /\ OwnSlots \in Nat
      /\ OperandBase \in Int /\ sp - Height = OperandBase
  BY <1>1, ActivationSlack DEF Own, Height, Covers
<1>5. OperandBase = fp - 1 + SlotCount(wasm, Own)
  BY <1>4 DEF OperandBase
<1>6. sp = OperandBase + Height /\ SlotCount(wasm, Own) \in Nat
  BY <1>2, <1>4
<1>7. sp \in Tops
  BY DEF Inv, Pointers
<1> QED
  BY <1>1, <1>2, <1>3, <1>4, <1>5, <1>6, <1>7

LEMMA OwnOperands ==
  ASSUME Inv, Running, Exact(wasm), TypedStack
  PROVE  /\ HasSlots(wasm, stack, Own, fp)
         /\ \A j \in 1 .. Height : stack[OperandBase + j].value_type = Types[j]
         /\ Height > 0 => Top.value_type = Types[Height]
         /\ \A x \in fp .. sp : x \in Slots
<1>1. /\ Height \in Nat /\ OperandBase = fp - 1 + SlotCount(wasm, Own)
      /\ sp = OperandBase + Height /\ fp \in Nat /\ sp \in Tops /\ OperandBase \in Int
  BY TypedPc
<1>2. \A j \in 1 .. Height : stack[OperandBase + j].value_type = Types[j]
  <2>1. HasOperands(wasm, stack, Own, fp, Types, Height)
    BY DEF TypedStack, Activation, Own, Height, Types
  <2>2. fp + SlotCount(wasm, Own) - 1 = OperandBase
    BY <1>1, TypedPc
  <2> QED
    BY <2>1, <2>2 DEF HasOperands
<1>3. Height > 0 => Top.value_type = Types[Height]
  <2> SUFFICES ASSUME Height > 0
               PROVE  Top.value_type = Types[Height]
    OBVIOUS
  <2>1. Height \in 1 .. Height
    BY <1>1
  <2> QED
    BY <1>1, <1>2, <2>1 DEF Top
<1>4. \A x \in fp .. sp : x \in Slots
  BY <1>1, SizesAreNumbers DEF Tops, Slots
<1> QED
  BY <1>2, <1>3, <1>4 DEF TypedStack, Activation, Own

(* The frame of a function lies below the slots of the running activation. *)
LEMMA BelowOwnSlots ==
  ASSUME Inv, Running, Exact(wasm), TypedStack, NEW i \in 0 .. csp,
         IsFunction(wasm, callstack[i].block)
  PROVE  callstack[i].sp < fp /\ callstack[i].sp \in Tops
<1> DEFINE n == csp - wasm.nest[BlockAt(csp)]
<1>1. ControlInv /\ Operands /\ wasm \in Modules /\ csp \in Nat
  BY TypedPc
<1>2. Mirrors(wasm, callstack, csp)
  BY <1>1 DEF ControlInv, Control, Framed
<1>3. i <= n
  BY <1>1, <1>2, NoFunctionAbove DEF BlockAt
<1>4. IsFunction(wasm, callstack[n].block) /\ fp = callstack[n].sp + 1
  BY <1>1, ActivationSlack
<1>5. n \in 0 .. csp
  BY <1>1, TypedAtPc
<1>6. callstack[i].sp <= callstack[n].sp
  BY <1>3, <1>4, <1>5 DEF TypedStack, Rising
<1>7. csp \in 0 .. CALLSTACK_SIZE
  BY <1>1 DEF ControlInv, Control
<1>8. callstack[i].sp \in Tops /\ callstack[n].sp \in Tops
  <2>1. i \in 0 .. CALLSTACK_SIZE /\ n \in 0 .. CALLSTACK_SIZE
    BY <1>1, <1>5, <1>7, SizesAreNumbers
  <2> QED
    BY <2>1 DEF Inv, Pointers
<1> QED
  BY <1>4, <1>6, <1>8, SizesAreNumbers DEF Tops

-----------------------------------------------------------------------------
(***************************************************************************)
(* What a step leaves as it is.                                            *)
(***************************************************************************)
(* Nothing on the stack up to the frame changes.                           *)
LEMMA SuspendedKept ==
  ASSUME NEW w \in Modules, NEW s, NEW new, NEW frames, NEW later, NEW i \in Int,
         later[i] = frames[i], later[i - 1] = frames[i - 1],
         Suspended(w, s, frames, i), frames[i].sp \in Tops,
         \A x \in Slots : x <= frames[i].sp => new[x] = s[x]
  PROVE  Suspended(w, new, later, i)
<1> DEFINE caller == FunctionOf(w, frames[i - 1].block)
           base == frames[i].fp
           slots == SlotCount(w, caller)
           n == w.height[frames[i].ra] - ResultCount(w, frames[i].block)
<1>1. /\ caller \in DOMAIN w.labels /\ base \in Nat /\ n \in Nat
      /\ base + slots - 1 + n = frames[i].sp
      /\ Activation(w, s, caller, base, w.operands[frames[i].ra], n)
  BY DEF Suspended
<1>2. slots \in Nat
  BY <1>1, BlockCounts
<1>3. frames[i].sp < STACK_SIZE /\ STACK_SIZE \in Nat /\ frames[i].sp \in Int
  BY SizesAreNumbers DEF Tops
<1>4. \A x \in base .. frames[i].sp : new[x] = s[x]
  <2> SUFFICES ASSUME NEW x \in base .. frames[i].sp
               PROVE  new[x] = s[x]
    OBVIOUS
  <2>1. x \in Slots /\ x <= frames[i].sp
    BY <1>1, <1>3 DEF Slots
  <2> QED
    BY <2>1
<1>5. HasSlots(w, new, caller, base)
  <2> SUFFICES ASSUME NEW j \in 0 .. slots - 1
               PROVE  new[base + j].value_type = SlotType(w, caller, j)
    BY DEF HasSlots
  <2>1. base + j \in base .. frames[i].sp
    BY <1>1, <1>2
  <2> QED
    BY <1>1, <1>4, <2>1 DEF Activation, HasSlots
<1>6. HasOperands(w, new, caller, base, w.operands[frames[i].ra], n)
  <2> SUFFICES ASSUME NEW j \in 1 .. n
               PROVE  new[base + slots - 1 + j].value_type = w.operands[frames[i].ra][j]
    BY DEF HasOperands
  <2>1. base + slots - 1 + j \in base .. frames[i].sp
    BY <1>1, <1>2
  <2> QED
    BY <1>1, <1>4, <2>1 DEF Activation, HasOperands
<1> HIDE DEF caller, base, slots, n
<1>7. Activation(w, new, caller, base, w.operands[frames[i].ra], n)
  BY <1>5, <1>6 DEF Activation
<1> QED
  BY <1>7 DEF Suspended, caller, base, slots, n

(* The frames of functions up to the n-th were there before.               *)
FramesRemain(n) ==
  \A i \in 0 .. n : IsFunction(wasm, callstack'[i].block) =>
    /\ i \in 0 .. csp
    /\ callstack'[i] = callstack[i]
    /\ i > 0 => callstack'[i - 1] = callstack[i - 1]

LEMMA FramesBelowRemain ==
  ASSUME csp \in Int, NEW n \in Int, n <= csp,
         \A i \in 0 .. csp : callstack'[i] = callstack[i]
  PROVE  FramesRemain(n)
<1> SUFFICES ASSUME NEW i \in 0 .. n
             PROVE  /\ i \in 0 .. csp /\ callstack'[i] = callstack[i]
                    /\ i > 0 => callstack'[i - 1] = callstack[i - 1]
  BY DEF FramesRemain
<1>1. i \in 0 .. csp /\ (i > 0 => i - 1 \in 0 .. csp)
  OBVIOUS
<1> QED
  BY <1>1

LEMMA CallersRemain ==
  ASSUME Inv, Running, Exact(wasm), TypedStack, NEW n \in Int, FramesRemain(n),
         \A x \in Slots : x < fp => stack'[x] = stack[x]
  PROVE  Callers(wasm, stack', callstack', n) /\ Rising(wasm, callstack', n)
<1>1. wasm \in Modules /\ csp \in Nat /\ fp \in Nat
  BY TypedPc
<1>2. Callers(wasm, stack', callstack', n)
  <2> SUFFICES ASSUME NEW i \in 1 .. n, IsFunction(wasm, callstack'[i].block)
               PROVE  Suspended(wasm, stack', callstack', i)
    BY DEF Callers
  <2>1. /\ i \in 1 .. csp /\ i \in 0 .. csp /\ i \in Int
        /\ callstack'[i] = callstack[i] /\ callstack'[i - 1] = callstack[i - 1]
    <3>1. i \in 0 .. n /\ i > 0
      OBVIOUS
    <3> QED
      BY <3>1 DEF FramesRemain
  <2>2. IsFunction(wasm, callstack[i].block)
    BY <2>1
  <2>3. Suspended(wasm, stack, callstack, i)
    BY <2>1, <2>2 DEF TypedStack, Callers
  <2>4. callstack[i].sp < fp /\ callstack[i].sp \in Tops
    BY <2>1, <2>2, BelowOwnSlots
  <2>5. \A x \in Slots : x <= callstack[i].sp => stack'[x] = stack[x]
    BY <1>1, <2>4, SizesAreNumbers DEF Tops, Slots
  <2> QED
    BY <1>1, <2>1, <2>3, <2>4, <2>5, SuspendedKept
<1>3. Rising(wasm, callstack', n)
  BY DEF TypedStack, Rising, FramesRemain
<1> QED
  BY <1>2, <1>3

-----------------------------------------------------------------------------
(***************************************************************************)
(* Steps within an activation.                                             *)
(***************************************************************************)
LEMMA SameActivation ==
  ASSUME Inv, Running, Exact(wasm), TypedStack, csp' \in Int, FramesRemain(csp'),
         wasm' = wasm, fp' = fp,
         FunctionOf(wasm, callstack'[csp'].block) = Own,
         \A x \in Slots : x < fp => stack'[x] = stack[x],
         HasSlots(wasm, stack', Own, fp),
         HasOperands(wasm, stack', Own, fp, wasm.operands[pc'], wasm.height[pc'])
  PROVE  TypedStack'
<1>1. Callers(wasm, stack', callstack', csp') /\ Rising(wasm, callstack', csp')
  BY CallersRemain
<1>2. FunctionOf(wasm', BlockAt(csp)') = Own
  BY DEF BlockAt
<1>3. Activation(wasm, stack', Own, fp, wasm.operands[pc'], wasm.height[pc'])
  BY DEF Activation
<1> QED
  BY <1>1, <1>2, <1>3 DEF TypedStack

LEMMA SlotsKept ==
  ASSUME Inv, Running, Exact(wasm), TypedStack,
         \A x \in Slots : x \in fp .. OperandBase => stack'[x] = stack[x]
  PROVE  HasSlots(wasm, stack', Own, fp)
<1>1. /\ fp \in Nat /\ SlotCount(wasm, Own) \in Nat /\ Height \in Nat
      /\ OperandBase = fp - 1 + SlotCount(wasm, Own)
      /\ OperandBase \in Int /\ sp = OperandBase + Height
  BY TypedPc
<1> SUFFICES ASSUME NEW j \in 0 .. SlotCount(wasm, Own) - 1
             PROVE  stack'[fp + j].value_type = SlotType(wasm, Own, j)
  BY DEF HasSlots
<1>2. fp + j \in fp .. OperandBase /\ fp + j \in fp .. sp
  BY <1>1
<1> QED
  BY <1>2, OwnOperands DEF HasSlots

(* Control goes where the lowest h operands of this instruction are those  *)
(* that are expected.                                                      *)
LEMMA OperandsKept ==
  ASSUME Inv, Running, Exact(wasm), TypedStack, csp' \in Int, FramesRemain(csp'),
         wasm' = wasm, fp' = fp, \A x \in Slots : stack'[x] = stack[x],
         FunctionOf(wasm, callstack'[csp'].block) = Own,
         wasm.height[pc'] \in Nat, wasm.height[pc'] <= Height,
         Keeps(wasm, pc', Types, wasm.height[pc'])
  PROVE  TypedStack'
<1> DEFINE h == wasm.height[pc']
<1>1. /\ fp \in Nat /\ SlotCount(wasm, Own) \in Nat /\ Height \in Nat
      /\ OperandBase = fp - 1 + SlotCount(wasm, Own)
      /\ OperandBase \in Int /\ sp = OperandBase + Height
  BY TypedPc
<1>2. HasSlots(wasm, stack', Own, fp)
  BY SlotsKept
<1>3. HasOperands(wasm, stack', Own, fp, wasm.operands[pc'], h)
  <2> SUFFICES ASSUME NEW j \in 1 .. h
               PROVE  stack'[OperandBase + j].value_type = wasm.operands[pc'][j]
    BY <1>1 DEF HasOperands
  <2>1. j \in 1 .. Height /\ OperandBase + j \in fp .. sp
    BY <1>1
  <2>2. OperandBase + j \in Slots /\ stack[OperandBase + j].value_type = Types[j]
    BY <2>1, OwnOperands
  <2> QED
    BY <2>2 DEF Keeps
<1> QED
  BY <1>2, <1>3, SameActivation

LEMMA FramesBelow ==
  ASSUME Inv, Running, Exact(wasm), TypedStack, NEW d \in 0 .. wasm.nest[BlockAt(csp)],
         csp' = csp - d, \A i \in 0 .. csp : callstack'[i] = callstack[i]
  PROVE  /\ csp' \in Int /\ FramesRemain(csp')
         /\ FunctionOf(wasm, callstack'[csp'].block) = Own
<1>1. wasm \in Modules /\ csp \in Nat /\ ControlInv /\ Operands
  BY TypedPc
<1>2. wasm.nest[BlockAt(csp)] \in 0 .. csp /\ Mirrors(wasm, callstack, csp)
  BY <1>1, TypedAtPc DEF ControlInv, Control, Framed
<1>3. csp' \in 0 .. csp
  BY <1>1, <1>2
<1>4. FunctionOf(wasm, callstack[csp - d].block) = Own
  BY <1>1, <1>2, SameFunction DEF Own, BlockAt
<1>5. callstack'[csp'] = callstack[csp - d]
  BY <1>3
<1>6. csp' \in Int /\ csp' <= csp
  BY <1>1, <1>3
<1>7. FramesRemain(csp')
  BY <1>1, <1>6, FramesBelowRemain
<1> QED
  BY <1>4, <1>5, <1>6, <1>7

(* A computation: a value takes the place of the operands.                 *)
LEMMA ComputationTyped ==
  ASSUME Inv, Running, Exact(wasm), TypedStack, Instr.op \in PlainOps, Advance,
         wasm' = wasm, fp' = fp, csp' = csp, callstack' = callstack,
         \A x \in Slots : x < fp \/ (OperandBase < x /\ x <= sp - Pops(wasm, Instr)) =>
           stack'[x] = stack[x],
         HasSlots(wasm, stack', Own, fp),
         Pushes(wasm, Instr) \in 0 .. 1,
         Pushes(wasm, Instr) = 1 =>
           stack'[sp - Pops(wasm, Instr) + 1].value_type =
             Given(wasm, Own, Instr, Types, Height)
  PROVE  TypedStack'
<1> DEFINE h == Height - Pops(wasm, Instr)
           pushes == Pushes(wasm, Instr)
<1>1. /\ ControlInv /\ Operands /\ TypedInstr(wasm, pc) /\ OperandTypes(wasm, pc)
      /\ Instr = wasm.code[pc] /\ wasm.owner[pc] = BlockAt(csp)
      /\ csp \in Nat /\ fp \in Nat /\ Height \in Nat
      /\ SlotCount(wasm, Own) \in Nat
      /\ OperandBase = fp - 1 + SlotCount(wasm, Own) /\ OperandBase \in Int
      /\ sp = OperandBase + Height
  BY TypedPc
<1>2. Pops(wasm, Instr) \in Nat /\ h \in Nat
  BY <1>1, Effect DEF Height
<1>3. /\ wasm.height[pc'] = h + pushes
      /\ Keeps(wasm, pc', Types, h)
      /\ pushes = 1 => wasm.operands[pc'][h + 1] = Given(wasm, Own, Instr, Types, Height)
  <2>1. pc' = wasm.code[pc].next
    BY <1>1 DEF Advance
  <2> QED
    BY <1>1, <2>1 DEF TypedInstr, OperandTypes, Reached, Own, Height, Types
<1>4. OperandBase + h = sp - Pops(wasm, Instr)
  BY <1>1, <1>2
<1>5. HasOperands(wasm, stack', Own, fp, wasm.operands[pc'], wasm.height[pc'])
  <2> SUFFICES ASSUME NEW j \in 1 .. h + pushes
               PROVE  stack'[OperandBase + j].value_type = wasm.operands[pc'][j]
    <3>1. fp + SlotCount(wasm, Own) - 1 = OperandBase
      BY <1>1
    <3> QED
      BY <1>3, <3>1 DEF HasOperands
  <2>1. CASE j \in 1 .. h
    <3>1. j \in 1 .. Height /\ OperandBase + j \in fp .. sp
          /\ OperandBase < OperandBase + j
          /\ OperandBase + j <= sp - Pops(wasm, Instr)
      BY <1>1, <1>2, <1>4, <2>1
    <3>2. stack'[OperandBase + j] = stack[OperandBase + j]
      BY <3>1, OwnOperands
    <3> QED
      BY <1>3, <2>1, <3>1, <3>2, OwnOperands DEF Keeps
  <2>2. CASE j \notin 1 .. h
    <3>1. pushes = 1 /\ j = h + 1
      BY <1>2, <2>2
    <3>2. OperandBase + j = sp - Pops(wasm, Instr) + 1
      BY <1>1, <1>2, <1>4, <3>1
    <3> QED
      BY <1>3, <3>1, <3>2
  <2> QED
    BY <2>1, <2>2
<1>6. 0 \in 0 .. wasm.nest[BlockAt(csp)] /\ csp' = csp - 0
  BY <1>1, TypedAtPc
<1>7. csp' \in Int /\ FramesRemain(csp') /\ FunctionOf(wasm, callstack'[csp'].block) = Own
  BY <1>6, FramesBelow
<1> QED
  BY <1>5, <1>7, SameActivation

(* Counted from the top of the stack.                                      *)
LEMMA OperandBelowTop ==
  ASSUME Inv, Running, Exact(wasm), TypedStack, NEW k \in Nat, k < Height
  PROVE  stack[sp - k].value_type = Types[Height - k]
<1>1. Height \in Nat /\ OperandBase \in Int /\ sp = OperandBase + Height
  BY TypedPc
<1>2. Height - k \in 1 .. Height /\ sp - k = OperandBase + (Height - k)
  BY <1>1
<1> QED
  BY <1>2, OwnOperands

(* The result of a computation replaces what it was computed from.         *)
LEMMA ResultTyped ==
  ASSUME Inv, Running, Exact(wasm), TypedStack, Instr.op \in PlainOps, Advance,
         wasm' = wasm, fp' = fp, csp' = csp, callstack' = callstack, NEW v,
         stack' = [stack EXCEPT ![sp - Pops(wasm, Instr) + 1] = v],
         sp - Pops(wasm, Instr) + 1 < STACK_SIZE,
         Pushes(wasm, Instr) = 1,
         v.value_type = Given(wasm, Own, Instr, Types, Height)
  PROVE  TypedStack'
<1> DEFINE j == sp - Pops(wasm, Instr) + 1
<1>1. /\ fp \in Nat /\ SlotCount(wasm, Own) \in Nat /\ Height \in Nat
      /\ OperandBase = fp - 1 + SlotCount(wasm, Own)
      /\ OperandBase \in Int /\ sp = OperandBase + Height
  BY TypedPc
<1>2. Pops(wasm, Instr) \in Nat /\ sp - Pops(wasm, Instr) >= OperandBase
  BY <1>1, Takes
<1>3. j \in Int /\ j > OperandBase /\ j >= fp
  BY <1>1, <1>2
<1>4. j \in Slots /\ DOMAIN stack = Slots
  BY <1>1, <1>3, SizesAreNumbers DEF Inv, Pointers, Slots
<1>5. \A x \in Slots : x # j => stack'[x] = stack[x]
  BY <1>4
<1>6. stack'[j] = v
  BY <1>4
<1>7. HasSlots(wasm, stack', Own, fp)
  <2>1. \A x \in Slots : x \in fp .. OperandBase => stack'[x] = stack[x]
    BY <1>1, <1>3, <1>5 DEF Slots
  <2> QED
    BY <2>1, SlotsKept
<1>8. \A x \in Slots : x < fp \/ (OperandBase < x /\ x <= sp - Pops(wasm, Instr)) =>
         stack'[x] = stack[x]
  BY <1>1, <1>2, <1>3, <1>5 DEF Slots
<1>9. Pushes(wasm, Instr) \in 0 .. 1
  OBVIOUS
<1> QED
  BY <1>6, <1>7, <1>8, <1>9, ComputationTyped

(* Nothing is put in the place of what is taken.                           *)
LEMMA TakingTyped ==
  ASSUME Inv, Running, Exact(wasm), TypedStack, Instr.op \in PlainOps, Advance,
         wasm' = wasm, fp' = fp, csp' = csp, callstack' = callstack, stack' = stack,
         Pushes(wasm, Instr) = 0
  PROVE  TypedStack'
<1>1. HasSlots(wasm, stack', Own, fp)
  BY OwnOperands
<1>2. Pushes(wasm, Instr) \in 0 .. 1
  OBVIOUS
<1> QED
  BY <1>1, <1>2, ComputationTyped

(* The top of the stack goes to a parameter or local of its type.          *)
LEMMA LocalTyped ==
  ASSUME Inv, Running, Exact(wasm), TypedStack, LocalSet \/ LocalTee
  PROVE  TypedStack'
<1> DEFINE x0 == LocalAddr(Imm)
<1>1. /\ fp \in Nat /\ SlotCount(wasm, Own) \in Nat /\ Height \in Nat
      /\ OperandBase = fp - 1 + SlotCount(wasm, Own)
      /\ OperandBase \in Int /\ sp = OperandBase + Height
      /\ TypedInstr(wasm, pc) /\ OperandTypes(wasm, pc) /\ wasm.owner[pc] = BlockAt(csp)
      /\ Instr = wasm.code[pc]
  BY TypedPc
<1>2. /\ Instr.op \in {"local.set", "local.tee"} /\ Instr.op \in PlainOps /\ Advance
      /\ wasm' = wasm /\ fp' = fp /\ csp' = csp /\ callstack' = callstack
      /\ stack' = [stack EXCEPT ![x0] = Top]
      /\ Pops(wasm, Instr) = 1
      /\ Pushes(wasm, Instr) = IF Instr.op = "local.set" THEN 0 ELSE 1
  BY DEF LocalSet, LocalTee, Fetch, PlainOps, Pops, Pushes
<1>3. Height - 1 \in Nat /\ Imm \in 0 .. SlotCount(wasm, Own) - 1
      /\ Types[Height] = SlotType(wasm, Own, Imm)
  BY <1>1, <1>2 DEF TypedInstr, OperandTypes, Accepts, Own, Imm, Height, Types
<1>4. Top.value_type = SlotType(wasm, Own, Imm)
  BY <1>1, <1>3, OwnOperands
<1>5. x0 = fp + Imm /\ x0 \in fp .. OperandBase /\ x0 \in fp .. sp
  BY <1>1, <1>3 DEF LocalAddr
<1>6. x0 \in Slots /\ DOMAIN stack = Slots
  BY <1>5, OwnOperands DEF Inv, Pointers
<1>7. stack'[x0] = Top /\ \A x \in Slots : x # x0 => stack'[x] = stack[x]
  BY <1>2, <1>6
<1>8. HasSlots(wasm, stack', Own, fp)
  <2> SUFFICES ASSUME NEW j \in 0 .. SlotCount(wasm, Own) - 1
               PROVE  stack'[fp + j].value_type = SlotType(wasm, Own, j)
    BY DEF HasSlots
  <2>1. fp + j \in fp .. sp
    BY <1>1
  <2>2. fp + j \in Slots /\ stack[fp + j].value_type = SlotType(wasm, Own, j)
    BY <2>1, OwnOperands DEF HasSlots
  <2>3. CASE j = Imm
    BY <1>4, <1>5, <1>7, <2>3
  <2>4. CASE j # Imm
    <3>1. fp + j # x0
      BY <1>1, <1>3, <1>5, <2>4
    <3> QED
      BY <1>7, <2>2, <3>1
  <2> QED
    BY <2>3, <2>4
<1>9. \A x \in Slots : x < fp \/ OperandBase < x => stack'[x] = stack[x]
  BY <1>1, <1>5, <1>7 DEF Slots
<1>10. Pushes(wasm, Instr) = 1 =>
         stack'[sp - Pops(wasm, Instr) + 1].value_type =
           Given(wasm, Own, Instr, Types, Height)
  <2> SUFFICES ASSUME Pushes(wasm, Instr) = 1
               PROVE  stack'[sp].value_type = SlotType(wasm, Own, Imm)
    <3>1. ASSUME Pushes(wasm, Instr) = 1
          PROVE  Given(wasm, Own, Instr, Types, Height) = SlotType(wasm, Own, Imm)
      <4>1. Instr.op = "local.tee"
        BY <1>2, <3>1
      <4> QED
        BY <4>1 DEF Given, Imm
    <3>2. sp - Pops(wasm, Instr) + 1 = sp
      BY <1>1, <1>2
    <3> QED
      BY <3>1, <3>2
  <2>1. sp \in Slots /\ OperandBase < sp
    BY <1>1, <1>3, OwnOperands
  <2> QED
    BY <1>4, <1>9, <2>1 DEF Top
<1>11. Pushes(wasm, Instr) \in 0 .. 1
  BY <1>2
<1> QED
  BY <1>2, <1>8, <1>9, <1>10, <1>11, ComputationTyped

(***************************************************************************)
(* One lemma for each kind of instruction.                                 *)
(***************************************************************************)
LEMMA PushTyped ==
  ASSUME Inv, Running, Running', Exact(wasm), TypedStack, Instr.op \in PlainOps,
         Pops(wasm, Instr) = 0, Pushes(wasm, Instr) = 1, NEW v, Push(v),
         v.value_type = Given(wasm, Own, Instr, Types, Height)
  PROVE  TypedStack'
<1>1. /\ Advance /\ wasm' = wasm /\ fp' = fp /\ csp' = csp /\ callstack' = callstack
      /\ stack' = [stack EXCEPT ![sp + 1] = v] /\ sp + 1 < STACK_SIZE
  BY DEF Push, Overrun, Running
<1>2. sp - Pops(wasm, Instr) + 1 = sp + 1
  BY TypedPc, SizesAreNumbers DEF Tops
<1> QED
  BY <1>1, <1>2, ResultTyped

LEMMA ReplaceTyped ==
  ASSUME Inv, Running, Exact(wasm), TypedStack, Instr.op \in PlainOps,
         NEW n \in Nat, n >= 1, Pops(wasm, Instr) = n, Pushes(wasm, Instr) = 1,
         NEW v, Replace(n, v),
         v.value_type = Given(wasm, Own, Instr, Types, Height)
  PROVE  TypedStack'
<1>1. /\ Advance /\ wasm' = wasm /\ fp' = fp /\ csp' = csp /\ callstack' = callstack
      /\ stack' = [stack EXCEPT ![sp - Pops(wasm, Instr) + 1] = v]
  BY DEF Replace
<1>2. sp - Pops(wasm, Instr) + 1 < STACK_SIZE
  BY TypedPc, SizesAreNumbers DEF Tops
<1> QED
  BY <1>1, <1>2, ResultTyped

LEMMA ComputationKeepsTypes ==
  ASSUME Inv, Exact(wasm), TypedStack, TypedGlobals, Running',
         \/ Nop \/ Drop \/ Select \/ LocalGet \/ LocalSet \/ LocalTee
         \/ GlobalGet \/ GlobalSet \/ Const \/ Eqz \/ Compare \/ Arith
         \/ Count \/ Convert
  PROVE  TypedStack'
<1> USE DEF Fetch, Running
<1>1. Running
  BY DEF Nop, Drop, Select, LocalGet, LocalSet, LocalTee, GlobalGet, GlobalSet, Const,
         Eqz, Compare, Arith, Count, Convert
<1>2. /\ Height \in Nat /\ TypedInstr(wasm, pc) /\ OperandTypes(wasm, pc)
      /\ wasm.owner[pc] = BlockAt(csp) /\ Instr = wasm.code[pc]
      /\ Height - Pops(wasm, Instr) \in Nat
      /\ Accepts(wasm, Own, Instr, Types, Height)
  <2>1. /\ Height \in Nat /\ TypedInstr(wasm, pc) /\ OperandTypes(wasm, pc)
        /\ wasm.owner[pc] = BlockAt(csp) /\ Instr = wasm.code[pc]
    BY <1>1, TypedPc
  <2> QED
    BY <2>1 DEF TypedInstr, OperandTypes, Own, Height, Types
<1>3. CASE Nop \/ Drop \/ GlobalSet
  <2>1. /\ Instr.op \in PlainOps /\ Advance /\ wasm' = wasm /\ fp' = fp
        /\ csp' = csp /\ callstack' = callstack /\ stack' = stack
        /\ Pushes(wasm, Instr) = 0
    BY <1>3 DEF Nop, Drop, GlobalSet, PlainOps, Pushes
  <2> QED
    BY <1>1, <2>1, TakingTyped
<1>4. CASE LocalSet \/ LocalTee
  BY <1>1, <1>4, LocalTyped
<1>5. CASE LocalGet \/ GlobalGet \/ Const
  <2>1. /\ Instr.op \in PlainOps /\ Pops(wasm, Instr) = 0 /\ Pushes(wasm, Instr) = 1
    BY <1>5 DEF LocalGet, GlobalGet, Const, PlainOps, Pops, Pushes
  <2>2. CASE LocalGet
    <3>1. Imm \in 0 .. SlotCount(wasm, Own) - 1
      BY <1>2, <2>2 DEF LocalGet, TypedInstr, Own, Imm
    <3>2. stack[LocalAddr(Imm)].value_type = SlotType(wasm, Own, Imm)
      BY <1>1, <3>1, OwnOperands DEF HasSlots, LocalAddr
    <3>3. stack[LocalAddr(Imm)].value_type = Given(wasm, Own, Instr, Types, Height)
      BY <2>2, <3>2 DEF LocalGet, Given, Imm
    <3>4. Push(stack[LocalAddr(Imm)])
      BY <2>2 DEF LocalGet
    <3> QED
      BY <1>1, <2>1, <3>3, <3>4, PushTyped
  <2>3. CASE GlobalGet
    <3>1. Imm \in DOMAIN wasm.globals
      BY <1>2, <2>3 DEF GlobalGet, TypedInstr, Imm
    <3>2. globals[Imm].value_type = Given(wasm, Own, Instr, Types, Height)
      BY <2>3, <3>1 DEF GlobalGet, Given, TypedGlobals, Imm
    <3>3. Push(globals[Imm])
      BY <2>3 DEF GlobalGet
    <3> QED
      BY <1>1, <2>1, <3>2, <3>3, PushTyped
  <2>4. CASE Const
    <3>1. Imm.value_type = Given(wasm, Own, Instr, Types, Height) /\ Push(Imm)
      BY <2>4 DEF Const, Given, Imm
    <3> QED
      BY <1>1, <2>1, <3>1, PushTyped
  <2> QED
    BY <1>5, <2>2, <2>3, <2>4
<1>6. CASE Eqz
  <2>1. /\ Instr.op = "eqz" /\ Instr.op \in PlainOps
        /\ Pops(wasm, Instr) = 1 /\ Pushes(wasm, Instr) = 1
    BY <1>6 DEF Eqz, PlainOps, Pops, Pushes
  <2>2. PICK v : Replace(1, v) /\ v.value_type = "i32"
    BY <1>6 DEF Eqz, Bool, Val
  <2>3. v.value_type = Given(wasm, Own, Instr, Types, Height)
    BY <2>1, <2>2 DEF Given
  <2> QED
    BY <1>1, <2>1, <2>2, <2>3, ReplaceTyped
<1>7. CASE Compare
  <2>1. /\ Instr.op = "compare" /\ Instr.op \in PlainOps
        /\ Pops(wasm, Instr) = 2 /\ Pushes(wasm, Instr) = 1
    BY <1>7 DEF Compare, PlainOps, Pops, Pushes
  <2>2. PICK v : Replace(2, v) /\ v.value_type = "i32"
    BY <1>7 DEF Compare, Bool, Val
  <2>3. v.value_type = Given(wasm, Own, Instr, Types, Height)
    BY <2>1, <2>2 DEF Given
  <2> QED
    BY <1>1, <2>1, <2>2, <2>3, ReplaceTyped
<1>8. CASE Select
  <2>1. /\ Instr.op = "select" /\ Instr.op \in PlainOps
        /\ Pops(wasm, Instr) = 3 /\ Pushes(wasm, Instr) = 1
    BY <1>8 DEF Select, PlainOps, Pops, Pushes
  <2>2. Height >= 3 /\ Types[Height - 1] = Types[Height - 2]
    BY <1>2, <2>1 DEF Accepts
  <2>3. /\ stack[sp - 1].value_type = Types[Height - 2]
        /\ stack[sp - 2].value_type = Types[Height - 2]
    <3>1. 1 \in Nat /\ 1 < Height /\ 2 \in Nat /\ 2 < Height
      BY <1>2, <2>2
    <3> QED
      BY <1>1, <2>2, <3>1, OperandBelowTop
  <2>4. PICK v : Replace(3, v) /\ v.value_type = Types[Height - 2]
    BY <1>8, <2>3 DEF Select
  <2>5. v.value_type = Given(wasm, Own, Instr, Types, Height)
    BY <2>1, <2>4 DEF Given
  <2> QED
    BY <1>1, <2>1, <2>4, <2>5, ReplaceTyped
<1>9. CASE Arith
  <2>1. /\ Instr.op = "arith" /\ Instr.op \in PlainOps
        /\ Pops(wasm, Instr) = 2 /\ Pushes(wasm, Instr) = 1
    BY <1>9 DEF Arith, PlainOps, Pops, Pushes
  <2>2. Height >= 2 /\ Types[Height - 1] = Instr.imm.type
    BY <1>2, <2>1 DEF Accepts
  <2>3. stack[sp - 1].value_type = Instr.imm.type
    <3>1. 1 \in Nat /\ 1 < Height
      BY <1>2, <2>2
    <3> QED
      BY <1>1, <2>2, <3>1, OperandBelowTop
  <2>4. PICK v : Replace(2, v) /\ v.value_type = stack[sp - 1].value_type
    BY <1>9 DEF Arith, Trap, Val
  <2>5. v.value_type = Given(wasm, Own, Instr, Types, Height)
    BY <2>1, <2>3, <2>4 DEF Given
  <2> QED
    BY <1>1, <2>1, <2>4, <2>5, ReplaceTyped
<1>10. CASE Count
  <2>1. /\ Instr.op = "count" /\ Instr.op \in PlainOps
        /\ Pops(wasm, Instr) = 1 /\ Pushes(wasm, Instr) = 1
    BY <1>10 DEF Count, PlainOps, Pops, Pushes
  <2>2. Top.value_type = Instr.imm.type
    BY <1>1, <1>2, <2>1, OwnOperands DEF Accepts
  <2>3. PICK v : Replace(1, v) /\ v.value_type = Top.value_type
    BY <1>10 DEF Count, Val
  <2>4. v.value_type = Given(wasm, Own, Instr, Types, Height)
    BY <2>1, <2>2, <2>3 DEF Given
  <2> QED
    BY <1>1, <2>1, <2>3, <2>4, ReplaceTyped
<1>11. CASE Convert
  <2>1. /\ Instr.op = "convert" /\ Instr.op \in PlainOps
        /\ Pops(wasm, Instr) = 1 /\ Pushes(wasm, Instr) = 1
    BY <1>11 DEF Convert, PlainOps, Pops, Pushes
  <2>2. Top.value_type = ConvertedFrom(Instr)
    BY <1>1, <1>2, <2>1, OwnOperands DEF Accepts
  <2>3. Converted.value_type = ConvertedTo(Instr)
    BY <2>2 DEF Converted, Wrapped, ConvertedFrom, ConvertedTo, Imm, Val
  <2>4. Converted.value_type = Given(wasm, Own, Instr, Types, Height) /\ Replace(1, Converted)
    BY <1>11, <2>1, <2>3 DEF Convert, Given
  <2> QED
    BY <1>1, <2>1, <2>4, ReplaceTyped
<1> QED
  BY <1>3, <1>4, <1>5, <1>6, <1>7, <1>8, <1>9, <1>10, <1>11

(* Into a block opened here, with the operands below it.                   *)
LEMMA BlockTyped ==
  ASSUME Inv, Running, Exact(wasm), TypedStack, Instr.op \in BlockOps, ~CallStackExhausted,
         NEW s, PushBlock(wasm.block_lookup[pc], s, csp, fp, Instr.next),
         wasm' = wasm, fp' = fp, stack' = stack,
         Reached(wasm, pc', Height - Pops(wasm, Instr)),
         Keeps(wasm, pc', Types, Height - Pops(wasm, Instr))
  PROVE  TypedStack'
<1> DEFINE b == wasm.block_lookup[pc]
           frame == [block |-> b, sp |-> s, fp |-> fp, ra |-> Instr.next]
<1>1. /\ wasm \in Modules /\ NestedInstr(wasm, pc) /\ Instr = wasm.code[pc]
      /\ csp \in Nat /\ Height \in Nat /\ wasm.owner[pc] = BlockAt(csp)
      /\ ControlInv /\ Operands
  BY TypedPc
<1>2. /\ b \in DOMAIN wasm.labels
      /\ wasm.block[b].block_type = Instr.op
      /\ wasm.block[b].start_addr = pc
  BY <1>1 DEF NestedInstr
<1>3. ~IsFunction(wasm, b) /\ Parent(wasm, b) = BlockAt(csp)
  BY <1>1, <1>2 DEF IsFunction, BlockOps, Parent
<1>4. csp + 1 \in 0 .. CALLSTACK_SIZE
  BY <1>1, SizesAssumption DEF CallStackExhausted
<1>5. csp' = csp + 1 /\ callstack'[csp + 1] = frame /\ \A i \in 0 .. csp : callstack'[i] = callstack[i]
  <2>1. csp' = csp + 1 /\ callstack' = [callstack EXCEPT ![csp + 1] = frame]
    BY DEF PushBlock
  <2> QED
    BY <1>1, <1>4, <2>1 DEF ControlInv, ControlTypes
<1>6. FunctionOf(wasm, callstack'[csp'].block) = Own
  <2>1. NestedBlock(wasm, b) /\ NestedBlock(wasm, BlockAt(csp))
    BY <1>1, <1>2, <1>3, BlockFacts, TypedAtPc
  <2>2. /\ wasm.nest[b] = wasm.nest[BlockAt(csp)] + 1
        /\ wasm.nest[BlockAt(csp)] \in 0 .. wasm.nest[BlockAt(csp)]
        /\ \A k \in 0 .. wasm.nest[BlockAt(csp)] :
             wasm.labels[b][k + 1] = wasm.labels[BlockAt(csp)][k]
    <3>1. wasm.nest[BlockAt(csp)] \in Nat
      BY <2>1 DEF NestedBlock
    <3>2. LET p == Parent(wasm, b) IN
          /\ wasm.nest[b] = wasm.nest[p] + 1
          /\ \A k \in 0 .. wasm.nest[p] : wasm.labels[b][k + 1] = wasm.labels[p][k]
      BY <1>3, <2>1 DEF NestedBlock
    <3> HIDE DEF b
    <3> QED
      BY <1>3, <3>1, <3>2
  <2>3. FunctionOf(wasm, b) = Own
    BY <2>2 DEF FunctionOf, Own
  <2> QED
    BY <1>5, <2>3
<1>7. csp' \in Int /\ FramesRemain(csp')
  <2>1. FramesRemain(csp)
    BY <1>1, <1>5, FramesBelowRemain
  <2> QED
    BY <1>1, <1>3, <1>5, <2>1 DEF FramesRemain
<1>8. /\ wasm.height[pc'] \in Nat /\ wasm.height[pc'] <= Height
      /\ wasm.height[pc'] = Height - Pops(wasm, Instr)
  BY <1>1, Effect DEF Reached, Height
<1>9. \A x \in Slots : stack'[x] = stack[x]
  OBVIOUS
<1> QED
  BY <1>6, <1>7, <1>8, <1>9, OperandsKept

(* On in the same activation, d labels further out.                        *)
LEMMA OnwardTyped ==
  ASSUME Inv, Running, Exact(wasm), TypedStack, NEW d \in 0 .. wasm.nest[BlockAt(csp)],
         wasm' = wasm, fp' = fp, csp' = csp - d,
         \A i \in 0 .. csp : callstack'[i] = callstack[i],
         \A x \in Slots : stack'[x] = stack[x],
         wasm.height[pc'] \in Nat, wasm.height[pc'] <= Height,
         Keeps(wasm, pc', Types, wasm.height[pc'])
  PROVE  TypedStack'
<1>1. /\ csp' \in Int /\ FramesRemain(csp')
      /\ FunctionOf(wasm, callstack'[csp'].block) = Own
  BY FramesBelow
<1> QED
  BY <1>1, OperandsKept

LEMMA BlockKeepsTypes ==
  ASSUME Inv, Exact(wasm), TypedStack, Running', BlockOrLoop
  PROVE  TypedStack'
<1>1. /\ Running /\ Instr.op \in BlockOps /\ Pops(wasm, Instr) = 0
  BY DEF BlockOrLoop, Fetch, Running, BlockOps, Pops
<1>2. /\ TypedInstr(wasm, pc) /\ OperandTypes(wasm, pc) /\ Instr = wasm.code[pc]
      /\ Height \in Nat
  BY <1>1, TypedPc
<1>3. /\ ~CallStackExhausted
      /\ PushBlock(wasm.block_lookup[pc], sp, csp, fp, Instr.next)
      /\ wasm' = wasm /\ fp' = fp /\ stack' = stack /\ pc' = Instr.next
  BY DEF BlockOrLoop, Exhausted, Trap, Running, Advance
<1>4. /\ Reached(wasm, pc', Height - Pops(wasm, Instr))
      /\ Keeps(wasm, pc', Types, Height - Pops(wasm, Instr))
  BY <1>1, <1>2, <1>3 DEF TypedInstr, OperandTypes, Height, Types
<1> QED
  BY <1>1, <1>3, <1>4, BlockTyped

LEMMA IfKeepsTypes ==
  ASSUME Inv, Exact(wasm), TypedStack, Running', If
  PROVE  TypedStack'
<1> DEFINE b == wasm.block_lookup[pc]
           h == Height - Pops(wasm, Instr)
<1>1. Running /\ Instr.op \in BlockOps /\ Instr.op = "if" /\ Pops(wasm, Instr) = 1
  BY DEF If, Fetch, Running, BlockOps, Pops
<1>2. /\ TypedInstr(wasm, pc) /\ OperandTypes(wasm, pc) /\ Instr = wasm.code[pc]
      /\ Height \in Nat /\ csp \in Nat /\ ControlInv /\ Operands
  BY <1>1, TypedPc
<1>3. ~CallStackExhausted /\ wasm' = wasm /\ fp' = fp /\ stack' = stack
  BY DEF If, Exhausted, Trap, Running
<1>4. Reached(wasm, Instr.next, h) /\ TypedIf(wasm, b, h)
      /\ Keeps(wasm, Instr.next, Types, h)
      /\ Keeps(wasm, IF Block(b).else_addr = 0 THEN Block(b).br_addr + 1
                                               ELSE Block(b).else_addr, Types, h)
  BY <1>1, <1>2 DEF TypedInstr, OperandTypes, Height, Types, Block
<1>5. CASE Cond \/ Block(b).else_addr # 0
  <2>1. /\ PushBlock(b, sp, csp, fp, Instr.next)
        /\ pc' = IF Cond THEN Instr.next ELSE Block(b).else_addr
    BY <1>5 DEF If, Exhausted, Trap, Running, SavedSpOfIf
  <2>2. Reached(wasm, pc', h) /\ Keeps(wasm, pc', Types, h)
    <3>1. CASE Cond
      BY <1>4, <2>1, <3>1
    <3>2. CASE ~Cond
      BY <1>4, <1>5, <2>1, <3>2 DEF TypedIf, Block
    <3> QED
      BY <3>1, <3>2
  <2> QED
    BY <1>1, <1>3, <2>1, <2>2, BlockTyped
<1>6. CASE ~Cond /\ Block(b).else_addr = 0
  <2> DEFINE frame == [block |-> b, sp |-> sp, fp |-> fp, ra |-> Instr.next]
  <2>1. /\ callstack' = [callstack EXCEPT ![csp + 1] = frame]
        /\ csp' = csp
        /\ pc' = Block(b).br_addr + 1
    BY <1>6 DEF If, Exhausted, Trap, Running, SavedSpOfIf
  <2>2. Reached(wasm, pc', h) /\ Keeps(wasm, pc', Types, h)
    BY <1>4, <1>6, <2>1 DEF TypedIf, Block
  <2>3. \A i \in 0 .. csp : callstack'[i] = callstack[i]
    <3>1. \A i \in 0 .. csp : i \in 0 .. CALLSTACK_SIZE /\ i # csp + 1
      BY <1>1, <1>2, SizesAssumption DEF ControlInv, Control
    <3> QED
      BY <1>2, <2>1, <3>1 DEF ControlInv, ControlTypes
  <2>4. 0 \in 0 .. wasm.nest[BlockAt(csp)] /\ csp' = csp - 0
    BY <1>1, <1>2, <2>1, TypedAtPc
  <2>5. wasm.height[pc'] = h /\ h \in Nat /\ h <= Height
    BY <1>1, <1>2, <2>2, Effect DEF Reached, Height
  <2>6. \A x \in Slots : stack'[x] = stack[x]
    BY <1>3
  <2>7. Keeps(wasm, pc', Types, wasm.height[pc']) /\ wasm.height[pc'] \in Nat
        /\ wasm.height[pc'] <= Height
    BY <2>2, <2>5
  <2> HIDE DEF b, h, frame
  <2> QED
    BY <1>1, <1>3, <2>3, <2>4, <2>6, <2>7, OnwardTyped
<1> QED
  BY <1>5, <1>6

LEMMA ElseKeepsTypes ==
  ASSUME Inv, Exact(wasm), TypedStack, Else
  PROVE  TypedStack'
<1>1. Running /\ Instr.op = "else" /\ Pops(wasm, Instr) = 0
  BY DEF Else, Fetch, Running, Pops
<1>2. /\ TypedInstr(wasm, pc) /\ OperandTypes(wasm, pc) /\ Instr = wasm.code[pc]
      /\ Height \in Nat /\ csp \in Nat /\ wasm.owner[pc] = BlockAt(csp)
      /\ ControlInv /\ Operands
  BY <1>1, TypedPc
<1>3. /\ pc' = wasm.block[BlockAt(csp)].br_addr
      /\ wasm' = wasm /\ fp' = fp /\ csp' = csp /\ callstack' = callstack
      /\ \A x \in Slots : stack'[x] = stack[x]
  BY DEF Else, Block, BlockAt
<1>4. Height - Pops(wasm, Instr) = Height
  BY <1>1, <1>2
<1>5. wasm.height[pc'] = Height /\ Keeps(wasm, pc', Types, Height)
  BY <1>1, <1>2, <1>3, <1>4 DEF TypedInstr, OperandTypes, Reached, Height, Types
<1>6. 0 \in 0 .. wasm.nest[BlockAt(csp)] /\ csp' = csp - 0
  BY <1>1, <1>2, <1>3, TypedAtPc
<1>7. wasm.height[pc'] \in Nat /\ wasm.height[pc'] <= Height
      /\ Keeps(wasm, pc', Types, wasm.height[pc'])
  BY <1>2, <1>5
<1> QED
  BY <1>1, <1>3, <1>6, <1>7, OnwardTyped

(* The label at depth d: as no operand is left behind, those a branch      *)
(* takes along are on top of those the label expects below.                *)
LEMMA LabelTyped ==
  ASSUME Inv, Running, Exact(wasm), TypedStack, NEW d \in Depths(Instr), Goto(d),
         wasm' = wasm, fp' = fp, callstack' = callstack, stack' = stack
  PROVE  TypedStack'
<1> DEFINE c == wasm.labels[wasm.owner[pc]][d]
           target == wasm.block[c].br_addr
           arity == LabelArity(wasm, c)
           h == Height - Pops(wasm, Instr)
<1>1. /\ wasm \in Modules /\ TypedInstr(wasm, pc) /\ OperandTypes(wasm, pc)
      /\ Instr = wasm.code[pc] /\ csp \in Nat /\ Height \in Nat
      /\ wasm.owner[pc] = BlockAt(csp) /\ ControlInv /\ Operands
  BY TypedPc
<1>2. d \in 0 .. wasm.nest[BlockAt(csp)]
  BY <1>1, InstrAtPc
<1>3. callstack[csp - d].block = c /\ c \in DOMAIN wasm.labels
  <2>1. Mirrors(wasm, callstack, csp) /\ csp \in 0 .. csp
    BY <1>1 DEF ControlInv, Control, Framed
  <2>2. csp - d \in 0 .. csp
    BY <1>1, <1>2, <2>1, LabelAtDepth DEF BlockAt
  <2> QED
    BY <1>1, <1>2, <2>1, <2>2 DEF Mirrors, BlockAt
<1>4. csp' = csp - d /\ pc' = target
  BY <1>3 DEF Goto, LabelFrame, Block
<1>5. wasm.height[target] = h /\ h \in Nat /\ h <= Height
  <2>1. Pops(wasm, Instr) \in Nat /\ h \in Nat
    BY <1>1, Effect DEF Height
  <2>2. pc \in DOMAIN wasm.height /\ Tidy(wasm)
    BY <1>1 DEF Operands, Exact
  <2>3. wasm.height[target] = h
    BY <1>1, <2>2 DEF Tidy, Height
  <2> QED
    BY <1>1, <2>1, <2>3
<1>6. arity \in Nat
  BY <1>1, <1>3, BlockCounts DEF LabelArity
<1>7. /\ Keeps(wasm, target, Types, h - arity)
      /\ \A j \in 1 .. arity : wasm.operands[target][(h - arity) + j] = Types[h - arity + j]
  <2>1. wasm.height[target] - arity = h - arity
    BY <1>5
  <2>2. /\ Keeps(wasm, target, Types, wasm.height[target] - arity)
        /\ \A j \in 1 .. arity :
             wasm.operands[target][(wasm.height[target] - arity) + j] = Types[h - arity + j]
    BY <1>1 DEF OperandTypes, Types, Height
  <2> QED
    BY <2>1, <2>2
<1>8. Keeps(wasm, target, Types, h)
  <2> SUFFICES ASSUME NEW j \in 1 .. h
               PROVE  wasm.operands[target][j] = Types[j]
    BY DEF Keeps
  <2>1. CASE j \in 1 .. h - arity
    BY <1>7, <2>1 DEF Keeps
  <2>2. CASE j \notin 1 .. h - arity
    <3>1. PICK k \in 1 .. arity : h - arity + k = j
      <4> HIDE DEF h, arity
      <4>1. h - arity \in Int /\ h - arity < j /\ j <= h /\ j \in Int
        BY <1>5, <1>6, <2>2
      <4>2. j - (h - arity) \in 1 .. arity /\ h - arity + (j - (h - arity)) = j
        BY <1>5, <1>6, <4>1
      <4> QED
        BY <4>2
    <3> QED
      BY <1>7, <3>1
  <2> QED
    BY <2>1, <2>2
<1>9. /\ wasm.height[pc'] \in Nat /\ wasm.height[pc'] <= Height
      /\ Keeps(wasm, pc', Types, wasm.height[pc'])
  BY <1>4, <1>5, <1>8
<1>10. /\ \A x \in Slots : stack'[x] = stack[x]
       /\ \A i \in 0 .. csp : callstack'[i] = callstack[i]
  OBVIOUS
<1> QED
  BY <1>2, <1>4, <1>9, <1>10, OnwardTyped

LEMMA BranchKeepsTypes ==
  ASSUME Inv, Exact(wasm), TypedStack, Running', Br \/ BrIf \/ BrTable
  PROVE  TypedStack'
<1> USE DEF Fetch, Running
<1>1. Running
  BY DEF Br, BrIf, BrTable
<1>2. CASE Br
  <2>1. Imm \in Depths(Instr)
    BY <1>2 DEF Br, Depths, Imm
  <2>2. Goto(Imm) /\ wasm' = wasm /\ fp' = fp /\ callstack' = callstack /\ stack' = stack
    BY <1>2 DEF Br
  <2> QED
    BY <1>1, <2>1, <2>2, LabelTyped
<1>3. CASE BrIf
  <2>1. Imm \in Depths(Instr) /\ Pushes(wasm, Instr) = 0 /\ Instr.op \in PlainOps
    BY <1>3 DEF BrIf, Depths, Imm, Pushes, PlainOps
  <2>2. wasm' = wasm /\ fp' = fp /\ callstack' = callstack /\ stack' = stack
    BY <1>3 DEF BrIf
  <2>3. CASE Goto(Imm)
    BY <1>1, <2>1, <2>2, <2>3, LabelTyped
  <2>4. CASE Advance /\ csp' = csp
    BY <1>1, <2>1, <2>2, <2>4, TakingTyped
  <2> QED
    BY <1>3, <2>3, <2>4 DEF BrIf
<1>4. CASE BrTable
  <2>1. TableDepth(TopI32) \in Depths(Instr)
    BY <1>4 DEF BrTable, TableDepth, Depths, Imm
  <2>2. Goto(TableDepth(TopI32)) /\ wasm' = wasm /\ fp' = fp /\ callstack' = callstack
        /\ stack' = stack
    BY <1>4 DEF BrTable, Trap
  <2> QED
    BY <1>1, <2>1, <2>2, LabelTyped
<1> QED
  BY <1>2, <1>3, <1>4

LEMMA ReturnKeepsTypes ==
  ASSUME Inv, Exact(wasm), TypedStack, Return
  PROVE  TypedStack'
<1> DEFINE depth == wasm.nest[BlockAt(csp)]
           h == Height - Pops(wasm, Instr)
           results == ResultCount(wasm, Own)
<1>1. Running /\ Instr.op = "return" /\ Pops(wasm, Instr) = 0
  BY DEF Return, Fetch, Running, Pops
<1>2. /\ wasm \in Modules /\ TypedInstr(wasm, pc) /\ OperandTypes(wasm, pc)
      /\ Instr = wasm.code[pc] /\ Height \in Nat /\ csp \in Nat
      /\ wasm.owner[pc] = BlockAt(csp) /\ Own \in DOMAIN wasm.labels
      /\ ControlInv /\ Operands
  BY <1>1, TypedPc
<1>3. callstack[csp - depth].block = Own /\ depth \in 0 .. csp
  BY <1>1, <1>2, ActivationSlack, TypedAtPc DEF Own
<1>4. csp' = csp - depth /\ pc' = wasm.block[Own].end_addr
  BY <1>1, <1>2, <1>3, FunctionFrameFound DEF Return, Block
<1>5. h = Height /\ results \in Nat
  BY <1>1, <1>2, BlockCounts
<1>6. results = h
  <2>1. pc \in DOMAIN wasm.height /\ Tidy(wasm)
    BY <1>2 DEF Operands, Exact
  <2> QED
    BY <1>1, <1>2, <2>1 DEF Tidy, Height, Own
<1>7. wasm.height[pc'] = results
  BY <1>1, <1>2, <1>4 DEF TypedInstr, Reached, Own
<1>8. Keeps(wasm, pc', Types, results)
  <2>1. \A j \in 1 .. results : wasm.operands[pc'][j] = Types[h - results + j]
    BY <1>1, <1>2, <1>4 DEF OperandTypes, Own, Types, Height
  <2>2. \A j \in 1 .. results : h - results + j = j
    BY <1>5, <1>6
  <2> QED
    BY <2>1, <2>2 DEF Keeps
<1>9. /\ depth \in 0 .. wasm.nest[BlockAt(csp)]
      /\ wasm.height[pc'] \in Nat /\ wasm.height[pc'] <= Height
      /\ Keeps(wasm, pc', Types, wasm.height[pc'])
  BY <1>2, <1>3, <1>5, <1>6, <1>7, <1>8
<1>10. /\ wasm' = wasm /\ fp' = fp
       /\ \A x \in Slots : stack'[x] = stack[x]
       /\ \A i \in 0 .. csp : callstack'[i] = callstack[i]
  BY DEF Return
<1> HIDE DEF depth, h, results
<1> QED
  BY <1>1, <1>4, <1>9, <1>10, OnwardTyped

-----------------------------------------------------------------------------
(***************************************************************************)
(* pop_block, where every operand is there that validation says and no     *)
(* other.                                                                  *)
(***************************************************************************)
(* At the end of a block the result is already where the block began.      *)
LEMMA BlockKeepsItsResult ==
  ASSUME Inv, Running, Exact(wasm), TypedStack, Instr.op = "end",
         ~IsFunction(wasm, BlockAt(csp))
  PROVE  PoppedSp(callstack[csp]) = sp
<1> DEFINE frame == callstack[csp]
           b == BlockAt(csp)
           results == ResultCount(wasm, b)
           entry == EntryHeight(wasm, b)
<1>1. /\ ControlInv /\ Operands /\ wasm \in Modules /\ Height \in Nat
      /\ OperandBase \in Int /\ sp = OperandBase + Height
  BY TypedPc
<1>2. /\ frame.sp \in Int /\ results \in 0 .. 1 /\ entry \in Nat
      /\ Height = entry + results
      /\ wasm.block[b].block_type # "if" => PoppedSp(frame) = frame.sp + results
      /\ wasm.block[b].block_type = "if" =>
           Covers(wasm, PoppedSp(frame), frame.sp - 1 + results)
  BY <1>1, Popped DEF Height
<1>3. Slack(wasm, callstack, csp) = OperandBase
  BY <1>1, ActivationSlack DEF Covers
<1>4. wasm.block[b].block_type # "function"
      /\ Slack(wasm, callstack, csp) =
           (IF wasm.block[b].block_type = "if" THEN frame.sp - 1 ELSE frame.sp) - entry
  BY DEF Slack, Floor, BlockAt, IsFunction
<1> HIDE DEF frame, b, results, entry
<1>5. CASE wasm.block[b].block_type = "if"
  <2>1. PoppedSp(frame) = frame.sp - 1 + results
    BY <1>2, <1>5 DEF Covers
  <2>2. frame.sp - 1 - entry = OperandBase
    BY <1>3, <1>4, <1>5
  <2>3. frame.sp - 1 + results = sp
    BY <1>1, <1>2, <2>2
  <2> QED
    BY <2>1, <2>3 DEF frame
<1>6. CASE wasm.block[b].block_type # "if"
  <2>1. PoppedSp(frame) = frame.sp + results
    BY <1>2, <1>6
  <2>2. frame.sp - entry = OperandBase
    BY <1>3, <1>4, <1>6
  <2>3. frame.sp + results = sp
    BY <1>1, <1>2, <2>2
  <2> QED
    BY <2>1, <2>3 DEF frame
<1> QED
  BY <1>5, <1>6

LEMMA BlockKeepsItsSlots ==
  ASSUME Inv, Running, Exact(wasm), TypedStack, Instr.op = "end",
         ~IsFunction(wasm, BlockAt(csp))
  PROVE  \A x \in Slots : PoppedStack(callstack[csp])[x] = stack[x]
<1> DEFINE frame == callstack[csp]
<1>1. PoppedSp(frame) = sp
  BY BlockKeepsItsResult
<1>2. CASE frame.sp < sp /\ HasResult(frame.block)
  <2>1. frame.sp + 1 = sp
    <3>1. frame.sp \in Int /\ sp \in Int
      BY TypedPc, Popped, TypedAtPc
    <3>2. ~(frame.sp >= sp)
      BY <1>2, <3>1
    <3> QED
      BY <1>1, <1>2, <3>2 DEF PoppedSp
  <2>2. PoppedStack(frame) = [stack EXCEPT ![sp] = Top]
    BY <1>2, <2>1 DEF PoppedStack
  <2> QED
    BY <2>2 DEF Top, Inv, Pointers
<1>3. CASE ~(frame.sp < sp /\ HasResult(frame.block))
  BY <1>3 DEF PoppedStack
<1> QED
  BY <1>2, <1>3

LEMMA EndOfBlockTyped ==
  ASSUME Inv, Exact(wasm), TypedStack, Running', End, ~IsFunction(wasm, BlockAt(csp))
  PROVE  TypedStack'
<1> DEFINE frame == callstack[csp]
           b == BlockAt(csp)
<1>1. Running /\ Instr.op = "end" /\ Pops(wasm, Instr) = 0
  BY DEF End, Fetch, Running, Pops
<1>2. /\ wasm \in Modules /\ TypedInstr(wasm, pc) /\ OperandTypes(wasm, pc)
      /\ Instr = wasm.code[pc] /\ csp \in Nat /\ Height \in Nat
      /\ wasm.owner[pc] = b /\ ControlInv /\ Operands
  BY <1>1, TypedPc
<1>3. /\ wasm' = wasm /\ callstack' = callstack /\ csp' = csp - 1
      /\ fp' = frame.fp /\ stack' = PoppedStack(frame) /\ pc' = Instr.next
  <2>1. ~ResultMismatch(frame.block)
    BY DEF End, Trap, Running
  <2> QED
    BY <2>1 DEF End, BlockAt
<1>4. 1 \in 0 .. wasm.nest[b]
  <2>1. NestedBlock(wasm, b)
    BY <1>1, <1>2, TypedAtPc, BlockFacts
  <2> QED
    BY <2>1 DEF NestedBlock
<1>5. fp' = fp
  <2>1. csp \in 0 .. csp /\ SavedFps(wasm, callstack, csp) /\ fp = ActivationFp(wasm, callstack, csp)
    BY <1>1, <1>2 DEF ControlInv, Control, Framed
  <2> QED
    BY <1>3, <2>1 DEF SavedFps, BlockAt
<1>6. \A x \in Slots : stack'[x] = stack[x]
  BY <1>1, <1>3, BlockKeepsItsSlots
<1>7. wasm.height[pc'] = Height /\ Keeps(wasm, pc', Types, Height)
  <2>1. Height - Pops(wasm, Instr) = Height
    BY <1>1, <1>2
  <2> QED
    BY <1>1, <1>2, <1>3, <2>1 DEF TypedInstr, OperandTypes, Reached, Height, Types
<1>8. /\ \A i \in 0 .. csp : callstack'[i] = callstack[i]
      /\ wasm.height[pc'] \in Nat /\ wasm.height[pc'] <= Height
      /\ Keeps(wasm, pc', Types, wasm.height[pc'])
  BY <1>2, <1>3, <1>7
<1> QED
  BY <1>1, <1>3, <1>4, <1>5, <1>6, <1>8, OnwardTyped

(* The caller goes on with the operands it had and the result on top.      *)
LEMMA EndOfFunctionTyped ==
  ASSUME Inv, Exact(wasm), TypedStack, Running', End, IsFunction(wasm, BlockAt(csp))
  PROVE  TypedStack'
<1> DEFINE frame == callstack[csp]
           b == BlockAt(csp)
           results == ResultCount(wasm, b)
           caller == FunctionOf(wasm, callstack[csp - 1].block)
           n == wasm.height[frame.ra] - results
           t == wasm.operands[frame.ra]
<1>1. Running /\ Instr.op = "end"
  BY DEF End, Fetch, Running
<1>2. /\ wasm \in Modules /\ csp \in Nat /\ sp \in Tops /\ ControlInv /\ Operands
      /\ sp \in Int /\ Height \in Nat
  BY <1>1, TypedPc, TypedAtPc
<1>3. /\ wasm' = wasm /\ callstack' = callstack /\ csp' = csp - 1
      /\ fp' = frame.fp /\ stack' = PoppedStack(frame) /\ pc' = frame.ra
      /\ csp # 0 /\ ~ResultMismatch(b)
  <2>1. ~ResultMismatch(frame.block)
    BY DEF End, Trap, Running
  <2> QED
    BY <2>1 DEF End, BlockAt, Running
<1>4. csp \in 1 .. csp /\ csp \in 0 .. csp /\ csp - 1 \in Int /\ csp - 1 <= csp
      /\ csp \in Int
  BY <1>2, <1>3
<1>5. Suspended(wasm, stack, callstack, csp)
  BY <1>4 DEF TypedStack, Callers, BlockAt
<1>6. fp = frame.sp + 1 /\ fp \in Nat /\ frame.sp < fp /\ frame.sp \in Tops
  <2>1. wasm.nest[b] = 0
    <3>1. NestedBlock(wasm, b)
      BY <1>1, <1>2, TypedAtPc, BlockFacts
    <3> QED
      BY <3>1 DEF NestedBlock
  <2>2. csp - wasm.nest[b] = csp
    BY <1>2, <2>1
  <2>3. fp = frame.sp + 1 /\ fp \in Nat
    BY <1>1, <1>2, <2>2, ActivationSlack
  <2> QED
    BY <1>1, <1>4, <2>3, BelowOwnSlots DEF BlockAt
<1>7. \A x \in Slots : x # fp => stack'[x] = stack[x]
  BY <1>3, <1>6 DEF PoppedStack, Inv, Pointers
<1>8. \A x \in Slots : x <= frame.sp => stack'[x] = stack[x]
  BY <1>6, <1>7, SizesAreNumbers DEF Slots, Tops
<1>9. Suspended(wasm, stack', callstack', csp)
  BY <1>2, <1>3, <1>4, <1>5, <1>6, <1>8, SuspendedKept
<1>10. /\ caller \in DOMAIN wasm.labels /\ frame.fp \in Nat /\ n \in Nat
       /\ frame.fp + SlotCount(wasm, caller) - 1 + n = frame.sp
       /\ Activation(wasm, stack', caller, frame.fp, t, n)
       /\ results = 1 => t[n + 1] = wasm.block[b].type.results[1]
  BY <1>3, <1>9 DEF Suspended, BlockAt
<1>11. results \in 0 .. 1 /\ wasm.height[frame.ra] = n + results
  <2>1. results \in 0 .. 1
    BY <1>1, <1>2, Popped
  <2>2. wasm.height[frame.ra] \in Nat
    <3>1. Resumes(wasm, callstack, csp)
      BY <1>2, <1>4 DEF Operands, Stacked, Resumable, BlockAt
    <3> QED
      BY <1>2, <3>1, TypedFacts DEF Resumes
  <2> QED
    BY <2>1, <2>2
<1>12. results = 1 => stack'[frame.sp + 1].value_type = t[n + 1]
  <2> SUFFICES ASSUME results = 1
               PROVE  stack'[frame.sp + 1].value_type = t[n + 1]
    OBVIOUS
  <2>1. HasResult(b) /\ Top.value_type = wasm.block[b].type.results[1]
    BY <1>3 DEF HasResult, ResultMismatch, Block
  <2>2. frame.sp < sp
    <3>1. frame.sp \in Int /\ (wasm.block[b].block_type # "if" => sp >= frame.sp + results)
      BY <1>1, <1>2, Popped
    <3> QED
      BY <1>2, <3>1 DEF IsFunction
  <2>3. frame.sp + 1 \in Slots
    BY <1>6, <1>2, <2>2, SizesAreNumbers DEF Slots, Tops
  <2>4. stack' = [stack EXCEPT ![frame.sp + 1] = Top]
    BY <1>3, <2>1, <2>2 DEF PoppedStack, BlockAt
  <2> QED
    BY <1>10, <2>1, <2>3, <2>4 DEF Inv, Pointers
<1>13. Activation(wasm, stack', caller, frame.fp, t, n + results)
  <2>1. SlotCount(wasm, caller) \in Nat
    BY <1>2, <1>10, BlockCounts
  <2>2. ASSUME NEW j \in 1 .. n + results
        PROVE  stack'[frame.fp + SlotCount(wasm, caller) - 1 + j].value_type = t[j]
    <3>1. CASE j \in 1 .. n
      BY <1>10, <3>1 DEF Activation, HasOperands
    <3>2. CASE j \notin 1 .. n
      <4>1. results = 1 /\ j = n + 1
        BY <1>10, <1>11, <3>2
      <4>2. frame.fp + SlotCount(wasm, caller) - 1 + j = frame.sp + 1
        BY <1>10, <2>1, <4>1
      <4> QED
        BY <1>12, <4>1, <4>2
    <3> QED
      BY <3>1, <3>2
  <2>3. HasOperands(wasm, stack', caller, frame.fp, t, n + results)
    BY <2>2 DEF HasOperands
  <2> QED
    BY <1>10, <2>3 DEF Activation
<1>14. Callers(wasm, stack', callstack', csp - 1) /\ Rising(wasm, callstack', csp - 1)
  <2>1. FramesRemain(csp - 1)
    BY <1>3, <1>4, FramesBelowRemain
  <2>2. \A x \in Slots : x < fp => stack'[x] = stack[x]
    BY <1>6, <1>7 DEF Slots
  <2> QED
    BY <1>1, <1>4, <2>1, <2>2, CallersRemain
<1>15. FunctionOf(wasm', BlockAt(csp)') = caller
  BY <1>3 DEF BlockAt
<1> HIDE DEF frame, b, results, caller, n, t
<1>16. Activation(wasm', stack', FunctionOf(wasm', BlockAt(csp)'), fp',
                  wasm'.operands[pc'], wasm'.height[pc'])
  <2>1. wasm'.operands[pc'] = t /\ wasm'.height[pc'] = n + results /\ fp' = frame.fp
    BY <1>3, <1>11 DEF t, frame
  <2> QED
    BY <1>3, <1>13, <1>15, <2>1
<1> QED
  BY <1>3, <1>14, <1>16 DEF TypedStack

-----------------------------------------------------------------------------
(***************************************************************************)
(* Calls.                                                                  *)
(***************************************************************************)
(* Typed arguments and zeroed locals are what the callee starts with.      *)
LEMMA CalleeSlots ==
  ASSUME Inv, NEW fidx \in DOMAIN wasm.functions, NEW s, NEW top \in Int,
         top - ParamCount(wasm, wasm.functions[fidx]) >= -1,
         CalleeTop(fidx, top) < STACK_SIZE,
         \A k \in 1 .. ParamCount(wasm, wasm.functions[fidx]) :
           s[top - ParamCount(wasm, wasm.functions[fidx]) + k].value_type =
             wasm.block[wasm.functions[fidx]].type.params[k]
  PROVE  LET b == wasm.functions[fidx] IN
         /\ HasSlots(wasm, ZeroLocals(s, b, top), b, top - ParamCount(wasm, b) + 1)
         /\ \A x \in Slots : x <= top => ZeroLocals(s, b, top)[x] = s[x]
         /\ ParamCount(wasm, b) \in Nat
<1> DEFINE b == wasm.functions[fidx]
           params == ParamCount(wasm, b)
           locals == LocalCount(wasm, b)
           base == top - params + 1
           new == ZeroLocals(s, b, top)
<1>1. wasm \in Modules /\ b \in DOMAIN wasm.block
  BY NestingAssumption DEF Inv, ControlInv, ControlTypes, WellNested
<1>2. params \in Nat /\ locals \in Nat
  BY <1>1, CountFacts
<1>3. top + locals < STACK_SIZE /\ base \in Nat
  BY <1>2 DEF CalleeTop
<1>4. \A x \in Slots : x <= top => new[x] = s[x]
  <2> SUFFICES ASSUME NEW x \in Slots, x <= top
               PROVE  new[x] = s[x]
    OBVIOUS
  <2>1. x \notin top + 1 .. top + locals
    BY <1>2 DEF Slots
  <2> QED
    BY <2>1 DEF ZeroLocals
<1>5. \A x \in Slots : x \in top + 1 .. top + locals =>
        new[x].value_type = wasm.block[b].locals[x - top]
  BY DEF ZeroLocals, Val, Block
<1>6. HasSlots(wasm, new, b, base)
  <2> SUFFICES ASSUME NEW j \in 0 .. SlotCount(wasm, b) - 1
               PROVE  new[base + j].value_type = SlotType(wasm, b, j)
    BY DEF HasSlots
  <2>0. SlotCount(wasm, b) = params + locals
    BY DEF SlotCount
  <2>1. PICK x \in Slots : x = base + j
    <3>1. base + j \in Slots
      BY <1>2, <1>3, <2>0, SizesAreNumbers DEF Slots
    <3> QED
      BY <3>1
  <2>2. CASE j < params
    <3>1. x <= top /\ j + 1 \in 1 .. params /\ x = top - params + (j + 1)
      BY <1>2, <2>1, <2>2
    <3>2. new[x] = s[top - params + (j + 1)]
      BY <1>4, <2>1, <3>1
    <3>3. s[top - params + (j + 1)].value_type = wasm.block[b].type.params[j + 1]
      BY <3>1
    <3> QED
      BY <2>1, <2>2, <3>2, <3>3 DEF SlotType
  <2>3. CASE ~(j < params)
    <3>1. x \in top + 1 .. top + locals /\ x - top = j - params + 1
      BY <1>2, <2>0, <2>1, <2>3
    <3>2. new[x].value_type = wasm.block[b].locals[x - top]
      BY <1>5, <3>1
    <3>3. new[x].value_type = wasm.block[b].locals[j - params + 1]
      BY <3>1, <3>2
    <3> QED
      BY <2>1, <2>3, <3>3 DEF SlotType
  <2> QED
    BY <2>2, <2>3
<1> QED
  BY <1>2, <1>4, <1>6

(* A call that is made, with arguments of the right types on the stack.    *)
LEMMA CalleeTyped ==
  ASSUME Inv, Running, Exact(wasm), TypedStack,
         Instr.op \in {"call", "call_indirect"}, ~CallStackExhausted,
         NEW fidx \in DOMAIN wasm.functions, ~IsImport(fidx),
         NEW top \in Int, EnterFunction(fidx, top), wasm' = wasm,
         ResultCount(wasm, wasm.functions[fidx]) = Pushes(wasm, Instr),
         top - ParamCount(wasm, wasm.functions[fidx]) = sp - Pops(wasm, Instr),
         ResultCount(wasm, wasm.functions[fidx]) = 1 =>
           wasm.block[wasm.functions[fidx]].type.results[1] =
             Given(wasm, Own, Instr, Types, Height),
         \A k \in 1 .. ParamCount(wasm, wasm.functions[fidx]) :
           stack[top - ParamCount(wasm, wasm.functions[fidx]) + k].value_type =
             wasm.block[wasm.functions[fidx]].type.params[k]
  PROVE  TypedStack'
<1> DEFINE b == wasm.functions[fidx]
           params == ParamCount(wasm, b)
           results == ResultCount(wasm, b)
           savedSp == top - params
           h == Height - Pops(wasm, Instr)
           frame == [block |-> b, sp |-> savedSp, fp |-> fp, ra |-> Instr.next]
<1>1. /\ wasm \in Modules /\ TypedInstr(wasm, pc) /\ OperandTypes(wasm, pc)
      /\ Instr = wasm.code[pc] /\ csp \in Nat /\ fp \in Nat /\ Height \in Nat
      /\ wasm.owner[pc] = BlockAt(csp) /\ Own \in DOMAIN wasm.labels
      /\ SlotCount(wasm, Own) \in Nat
      /\ OperandBase = fp - 1 + SlotCount(wasm, Own) /\ OperandBase \in Int
      /\ sp = OperandBase + Height /\ ControlInv /\ Operands
      /\ WellNested(wasm) /\ WellTyped(wasm)
  BY TypedPc, NestingAssumption, TypingAssumption
<1>2. /\ Pops(wasm, Instr) \in Nat /\ h \in Nat /\ results \in Nat
      /\ savedSp = OperandBase + h
  BY <1>1, Effect DEF Height
<1>3. b \in DOMAIN wasm.labels /\ IsFunction(wasm, b)
  <2>1. fidx \in Nat /\ wasm.import_func_count \in Nat
    BY <1>1 DEF WellNested
  <2>2. fidx >= wasm.import_func_count
    BY <2>1 DEF IsImport
  <2> QED
    BY <1>1, <2>2 DEF WellNested
<1>4. /\ csp' = csp + 1
      /\ callstack' = [callstack EXCEPT ![csp + 1] = frame]
      /\ fp' = savedSp + 1
      /\ stack' = ZeroLocals(stack, b, top)
      /\ pc' = wasm.block[b].start_addr
      /\ CalleeTop(fidx, top) < STACK_SIZE
  BY DEF EnterFunction, SetupCall, PushBlock, Block
<1>5. callstack'[csp + 1] = frame /\ \A i \in 0 .. csp : callstack'[i] = callstack[i]
  <2>1. csp + 1 \in 0 .. CALLSTACK_SIZE
    BY <1>1, SizesAssumption DEF CallStackExhausted
  <2> QED
    BY <1>1, <1>4, <2>1 DEF ControlInv, ControlTypes
<1>6. /\ HasSlots(wasm, stack', b, savedSp + 1)
      /\ \A x \in Slots : x <= top => stack'[x] = stack[x]
      /\ params \in Nat
  <2>1. savedSp >= -1
    BY <1>1, <1>2
  <2>2. CalleeTop(fidx, top) < STACK_SIZE
    BY <1>4
  <2>3. /\ HasSlots(wasm, ZeroLocals(stack, b, top), b, savedSp + 1)
        /\ \A x \in Slots : x <= top => ZeroLocals(stack, b, top)[x] = stack[x]
        /\ params \in Nat
    BY ONLY Inv, <2>1, <2>2, CalleeSlots,
            \A k \in 1 .. ParamCount(wasm, wasm.functions[fidx]) :
              stack[top - ParamCount(wasm, wasm.functions[fidx]) + k].value_type =
                wasm.block[wasm.functions[fidx]].type.params[k]
  <2> QED
    BY <1>4, <2>3
<1>7. savedSp \in Int /\ savedSp <= top /\ savedSp >= OperandBase
  BY <1>1, <1>2, <1>6
<1>8. FunctionOf(wasm, b) = b
  <2>1. NestedBlock(wasm, b)
    BY <1>1, <1>3, BlockFacts
  <2>2. wasm.nest[b] = 0 /\ wasm.labels[b][0] = b
    BY <1>3, <2>1 DEF NestedBlock
  <2> QED
    BY <2>2 DEF FunctionOf
<1>9. wasm.height[pc'] = 0
  BY <1>1, <1>3, <1>4 DEF WellTyped, Reached
<1>10. Activation(wasm, stack', b, savedSp + 1, wasm.operands[pc'], wasm.height[pc'])
  BY <1>6, <1>9 DEF Activation, HasOperands
<1>11. Callers(wasm, stack', callstack', csp) /\ Rising(wasm, callstack', csp)
  <2>1. FramesRemain(csp) /\ csp \in Int
    BY <1>1, <1>5, FramesBelowRemain
  <2>2. \A x \in Slots : x < fp => stack'[x] = stack[x]
    BY <1>1, <1>6, <1>7 DEF Slots
  <2> QED
    BY <2>1, <2>2, CallersRemain
<1>12. Suspended(wasm, stack', callstack', csp + 1)
  <2>1. /\ wasm.height[Instr.next] = h + results
        /\ Keeps(wasm, Instr.next, Types, h)
        /\ results = 1 => wasm.operands[Instr.next][h + 1] = wasm.block[b].type.results[1]
    BY <1>1 DEF TypedInstr, OperandTypes, PlainOps, Reached, Height, Types, Own
  <2>2. wasm.height[Instr.next] - results = h
    BY <1>2, <2>1
  <2>3. HasSlots(wasm, stack', Own, fp)
    <3>1. \A x \in Slots : x \in fp .. OperandBase => stack'[x] = stack[x]
      BY <1>1, <1>6, <1>7 DEF Slots
    <3> QED
      BY <3>1, SlotsKept
  <2>4. HasOperands(wasm, stack', Own, fp, wasm.operands[Instr.next], h)
    <3> SUFFICES ASSUME NEW j \in 1 .. h
                 PROVE  stack'[OperandBase + j].value_type = wasm.operands[Instr.next][j]
      BY <1>1 DEF HasOperands
    <3>1. j \in 1 .. Height /\ OperandBase + j \in fp .. sp /\ OperandBase + j <= top
      BY <1>1, <1>2, <1>7
    <3>2. /\ OperandBase + j \in Slots
          /\ stack[OperandBase + j].value_type = Types[j]
      BY <3>1, OwnOperands
    <3> QED
      BY <1>6, <2>1, <3>1, <3>2 DEF Keeps
  <2>5. Activation(wasm, stack', Own, fp, wasm.operands[Instr.next], h)
    BY <2>3, <2>4 DEF Activation
  <2>6. /\ callstack'[csp + 1] = frame
        /\ FunctionOf(wasm, callstack'[(csp + 1) - 1].block) = Own
    <3>1. (csp + 1) - 1 = csp /\ csp \in 0 .. csp
      BY <1>1
    <3> QED
      BY <1>5, <3>1 DEF Own, BlockAt
  <2>7. fp + SlotCount(wasm, Own) - 1 + h = savedSp
    BY <1>1, <1>2
  <2> HIDE DEF h, savedSp, b, results
  <2> QED
    <3>1. /\ callstack'[csp + 1].block = b /\ callstack'[csp + 1].sp = savedSp
          /\ callstack'[csp + 1].fp = fp /\ callstack'[csp + 1].ra = Instr.next
      BY <2>6
    <3>2. /\ Own \in DOMAIN wasm.labels /\ fp \in Nat /\ h \in Nat
          /\ wasm.height[Instr.next] - ResultCount(wasm, b) = h
      BY <1>1, <1>2, <2>1 DEF results
    <3> HIDE DEF frame
    <3> QED
      BY <2>1, <2>2, <2>5, <2>6, <2>7, <3>1, <3>2 DEF Suspended, results
<1>13. Callers(wasm, stack', callstack', csp + 1)
  <2> SUFFICES ASSUME NEW i \in 1 .. csp + 1, IsFunction(wasm, callstack'[i].block)
               PROVE  Suspended(wasm, stack', callstack', i)
    BY DEF Callers
  <2>1. i \in 1 .. csp \/ i = csp + 1
    BY <1>1
  <2> QED
    BY <1>11, <1>12, <2>1 DEF Callers
<1>14. Rising(wasm, callstack', csp + 1)
  <2> SUFFICES ASSUME NEW i \in 0 .. csp + 1, NEW k \in 0 .. csp + 1, i <= k,
                      IsFunction(wasm, callstack'[i].block),
                      IsFunction(wasm, callstack'[k].block)
               PROVE  callstack'[i].sp <= callstack'[k].sp
    BY DEF Rising
  <2>1. CASE k \in 0 .. csp
    <3>1. i \in 0 .. csp
      BY <1>1, <2>1
    <3> QED
      BY <1>11, <2>1, <3>1 DEF Rising
  <2>2. CASE k \notin 0 .. csp
    <3>1. k = csp + 1 /\ callstack'[k].sp = savedSp
      BY <1>1, <1>5, <2>2
    <3>2. CASE i = csp + 1
      BY <1>7, <3>1, <3>2
    <3>3. CASE i # csp + 1
      <4>1. i \in 0 .. csp /\ callstack'[i] = callstack[i]
        BY <1>1, <1>5, <3>3
      <4>2. callstack[i].sp < fp /\ callstack[i].sp \in Tops
        BY <4>1, BelowOwnSlots
      <4> QED
        BY <1>1, <1>7, <3>1, <4>1, <4>2, SizesAreNumbers DEF Tops
    <3> QED
      BY <3>2, <3>3
  <2> QED
    BY <2>1, <2>2
<1>15. FunctionOf(wasm', BlockAt(csp)') = b
  BY <1>4, <1>5, <1>8 DEF BlockAt
<1> HIDE DEF b, params, results, savedSp, h, frame
<1> QED
  BY <1>4, <1>10, <1>13, <1>14, <1>15 DEF TypedStack

(* No function is an import here.                                          *)
LEMMA NoImports ==
  ASSUME Inv, Exact(wasm), NEW f \in DOMAIN wasm.functions
  PROVE  ~IsImport(f)
<1>1. WellNested(wasm)
  BY NestingAssumption DEF Inv, ControlInv, ControlTypes
<1> QED
  BY <1>1 DEF WellNested, IsImport, Exact, ImportFree

LEMMA CallKeepsTypes ==
  ASSUME Inv, Exact(wasm), TypedStack, Running', Call
  PROVE  TypedStack'
<1> DEFINE b == wasm.functions[Imm]
           params == ParamCount(wasm, b)
<1>1. /\ Running /\ Instr.op = "call" /\ Imm = Instr.imm
      /\ Instr.op \in {"call", "call_indirect"}
  BY DEF Call, Fetch, Running, Imm
<1>2. /\ wasm \in Modules /\ NestedInstr(wasm, pc) /\ OperandTypes(wasm, pc)
      /\ Instr = wasm.code[pc] /\ Height \in Nat /\ sp \in Tops
      /\ wasm.owner[pc] = BlockAt(csp) /\ ControlInv /\ Operands
  BY <1>1, TypedPc
<1>3. Imm \in DOMAIN wasm.functions /\ ~IsImport(Imm)
  BY <1>1, <1>2, NoImports DEF NestedInstr
<1>4. /\ Pops(wasm, Instr) = params
      /\ Pushes(wasm, Instr) = ResultCount(wasm, b)
      /\ params \in Nat /\ Height - params \in Nat
  BY <1>1, <1>2, Effect DEF Pops, Pushes, Height
<1>5. ~CallStackExhausted /\ EnterFunction(Imm, sp) /\ wasm' = wasm
  BY <1>3 DEF Call, Exhausted, Trap, Overrun, Running
<1>6. EndsIn(Types, Height, wasm.block[b].type.params)
  BY <1>1, <1>2 DEF OperandTypes, Accepts, Types, Height
<1>7. \A k \in 1 .. params :
        stack[sp - params + k].value_type = wasm.block[b].type.params[k]
  <2> SUFFICES ASSUME NEW k \in 1 .. params
               PROVE  stack[sp - params + k].value_type = wasm.block[b].type.params[k]
    OBVIOUS
  <2>1. /\ params - k \in Nat /\ params - k < Height
        /\ sp - (params - k) = sp - params + k
        /\ Height - (params - k) = Height - params + k
    BY <1>2, <1>4, SizesAreNumbers DEF Tops
  <2>2. stack[sp - params + k].value_type = Types[Height - params + k]
    BY <1>1, <2>1, OperandBelowTop
  <2> QED
    BY <1>6, <2>2 DEF EndsIn, ParamCount
<1>8. wasm.block[b].type.results[1] = Given(wasm, Own, Instr, Types, Height)
  BY <1>1 DEF Given
<1>9. sp - params = sp - Pops(wasm, Instr) /\ sp \in Int
  BY <1>2, <1>4, SizesAreNumbers DEF Tops
<1> QED
  BY <1>1, <1>3, <1>4, <1>5, <1>7, <1>8, <1>9, CalleeTyped

LEMMA CallIndirectKeepsTypes ==
  ASSUME Inv, Exact(wasm), TypedStack, Running', CallIndirect
  PROVE  TypedStack'
<1> DEFINE type == wasm.types[Imm]
           b == wasm.functions[Callee]
           params == Len(type.params)
<1>1. /\ Running /\ Instr.op = "call_indirect" /\ Imm = Instr.imm
      /\ Instr.op \in {"call", "call_indirect"}
  BY DEF CallIndirect, Fetch, Running, Imm
<1>2. /\ wasm \in Modules /\ TypedInstr(wasm, pc) /\ OperandTypes(wasm, pc)
      /\ Instr = wasm.code[pc] /\ Height \in Nat /\ sp \in Tops /\ sp \in Int
      /\ wasm.owner[pc] = BlockAt(csp) /\ ControlInv /\ Operands
  BY <1>1, TypedPc, TypedAtPc
<1>3. /\ Pops(wasm, Instr) = 1 + params
      /\ Pushes(wasm, Instr) = Len(type.results)
      /\ params \in Nat /\ Height - (1 + params) \in Nat
  <2>1. type \in FuncType
    BY <1>1, <1>2 DEF TypedInstr
  <2>2. params \in Nat
    BY <2>1, LenProperties DEF FuncType
  <2> QED
    BY <1>1, <1>2, <2>2, Effect DEF Pops, Pushes, Height
<1>4. InTable(TopI32) /\ Allocated(TopI32) /\ CallEntry
  BY DEF CallIndirect, Trap, Running
<1>5. Callee \in DOMAIN wasm.functions /\ Callable(wasm, Callee, type) /\ ~IsImport(Callee)
  <2>1. Callee \in DOMAIN wasm.functions
    BY <1>2, <1>4, NestingAssumption DEF WellNested, Callee, Allocated
  <2> QED
    BY <1>1, <1>2, <2>1, NoImports DEF TypedInstr
<1>6. ~CallStackExhausted /\ ~MaskMismatch /\ EnterFunction(Callee, sp - 1) /\ wasm' = wasm
  BY <1>4, <1>5 DEF CallEntry, Exhausted, Trap, Overrun, Running
<1>7. wasm.block[b].type.params = type.params /\ wasm.block[b].type.results = type.results
  BY <1>5, <1>6 DEF Callable, IsImport, MaskMismatch, CalleeType, Block
<1>8. ParamCount(wasm, b) = params /\ ResultCount(wasm, b) = Pushes(wasm, Instr)
  BY <1>3, <1>7 DEF ParamCount, ResultCount
<1>9. EndsIn(Types, Height - 1, type.params)
  BY <1>1, <1>2 DEF OperandTypes, Accepts, Types, Height
<1>10. \A k \in 1 .. params :
         stack[(sp - 1) - params + k].value_type = wasm.block[b].type.params[k]
  <2> SUFFICES ASSUME NEW k \in 1 .. params
               PROVE  stack[(sp - 1) - params + k].value_type = wasm.block[b].type.params[k]
    OBVIOUS
  <2>1. /\ 1 + params - k \in Nat /\ 1 + params - k < Height
        /\ sp - (1 + params - k) = (sp - 1) - params + k
        /\ Height - (1 + params - k) = (Height - 1) - params + k
    BY <1>2, <1>3
  <2>2. stack[(sp - 1) - params + k].value_type = Types[(Height - 1) - params + k]
    BY <1>1, <2>1, OperandBelowTop
  <2> QED
    BY <1>7, <1>9, <2>2 DEF EndsIn
<1>11. wasm.block[b].type.results[1] = Given(wasm, Own, Instr, Types, Height)
  BY <1>1, <1>7 DEF Given
<1>12. (sp - 1) - ParamCount(wasm, b) = sp - Pops(wasm, Instr) /\ sp - 1 \in Int
  BY <1>2, <1>3, <1>8
<1>13. \A k \in 1 .. ParamCount(wasm, b) :
         stack[(sp - 1) - ParamCount(wasm, b) + k].value_type = wasm.block[b].type.params[k]
  BY <1>8, <1>10
<1> QED
  BY <1>1, <1>5, <1>6, <1>8, <1>11, <1>12, <1>13, CalleeTyped

(* main() pushes arguments of the types of the parameters.                 *)
LEMMA InvokeTypes ==
  ASSUME Inv, Exact(wasm), Running', ~Running, InvokeExport
  PROVE  TypedStack'
<1>1. PICK fidx \in wasm.exports :
        \E args \in Arguments(Block(wasm.functions[fidx]).type) : Invoke(fidx, args)
  BY DEF InvokeExport
<1>2. PICK args \in Arguments(Block(wasm.functions[fidx]).type) : Invoke(fidx, args)
  BY <1>1
<1> DEFINE b == wasm.functions[fidx]
           params == ParamCount(wasm, b)
           top == Len(Block(b).type.params) - 1
           s == PushArgs(Block(b).type, args)
           frame == [block |-> b, sp |-> top - params, fp |-> -1, ra |-> pc]
<1>3. wasm \in Modules /\ WellNested(wasm) /\ WellTyped(wasm) /\ ControlInv
  BY NestingAssumption, TypingAssumption DEF Inv, ControlInv, ControlTypes
<1>4. /\ fidx \in DOMAIN wasm.functions
      /\ b \in DOMAIN wasm.labels /\ b \in DOMAIN wasm.block /\ IsFunction(wasm, b)
  BY <1>1, <1>3 DEF WellNested
<1>5. params \in Nat /\ LocalCount(wasm, b) \in Nat /\ top = params - 1
  BY <1>3, <1>4, CountFacts DEF ParamCount, Block
<1>6. /\ csp' = 0 /\ callstack' = [callstack EXCEPT ![0] = frame]
      /\ fp' = top - params + 1 /\ stack' = ZeroLocals(s, b, top)
      /\ pc' = wasm.block[b].start_addr
      /\ CalleeTop(fidx, top) < STACK_SIZE /\ wasm' = wasm
  <2>1. status' = "running"
    BY DEF Running
  <2>2. /\ CalleeTop(fidx, top) < STACK_SIZE /\ wasm' = wasm
        /\ SetupCall(fidx, s, top, -1, -1, pc)
    BY <1>2, <2>1 DEF Invoke, Overrun
  <2>3. /\ PushBlock(b, top - params, -1, -1, pc)
        /\ fp' = top - params + 1 /\ stack' = ZeroLocals(s, b, top)
        /\ pc' = Block(b).start_addr
    BY <2>2 DEF SetupCall
  <2> HIDE DEF b, params, top, s
  <2> QED
    BY <2>2, <2>3 DEF PushBlock, Block
<1>7. callstack'[0] = frame
  BY <1>3, <1>6, SizesAreNumbers DEF ControlInv, ControlTypes
<1>8. HasSlots(wasm, stack', b, fp')
  <2>1. \A k \in 1 .. params : s[top - params + k].value_type = wasm.block[b].type.params[k]
    <3> SUFFICES ASSUME NEW k \in 1 .. params
                 PROVE  s[top - params + k].value_type = wasm.block[b].type.params[k]
      OBVIOUS
    <3>1. top - params + k = k - 1 /\ (k - 1) + 1 = k /\ k - 1 \in 0 .. top
      BY <1>5
    <3>2. k - 1 \in Slots
      BY <1>5, <1>6, <3>1, SizesAreNumbers DEF Slots, CalleeTop
    <3>3. DOMAIN args = 1 .. params
      BY DEF Arguments, ParamCount, Block
    <3>4. s[k - 1].value_type = Block(b).type.params[k]
      BY <3>1, <3>2, <3>3 DEF PushArgs, Val
    <3> QED
      BY <3>1, <3>4 DEF Block
  <2>2. top \in Int /\ top - params >= -1
    BY <1>5
  <2> HIDE DEF top, s
  <2> QED
    BY <1>4, <1>6, <2>1, <2>2, CalleeSlots
<1>9. FunctionOf(wasm, b) = b
  <2>1. NestedBlock(wasm, b)
    BY <1>3, <1>4, BlockFacts
  <2>2. wasm.nest[b] = 0 /\ wasm.labels[b][0] = b
    BY <1>4, <2>1 DEF NestedBlock
  <2> QED
    BY <2>2 DEF FunctionOf
<1>10. wasm.height[pc'] = 0
  BY <1>3, <1>4, <1>6 DEF WellTyped, Reached
<1>11. Activation(wasm, stack', b, fp', wasm.operands[pc'], wasm.height[pc'])
  BY <1>8, <1>10 DEF Activation, HasOperands
<1>12. Callers(wasm, stack', callstack', 0)
  BY DEF Callers
<1>13. Rising(wasm, callstack', 0)
  <2>1. callstack'[0].sp \in Int
    BY <1>5, <1>7
  <2>2. \A i \in 0 .. 0 : i = 0
    OBVIOUS
  <2> QED
    BY <2>1, <2>2 DEF Rising
<1>14. FunctionOf(wasm', BlockAt(csp)') = b
  BY <1>6, <1>7, <1>9 DEF BlockAt
<1> HIDE DEF b, params, top, s, frame
<1> QED
  BY <1>6, <1>11, <1>12, <1>13, <1>14 DEF TypedStack

-----------------------------------------------------------------------------
(***************************************************************************)
(* Globals, and the two tests.                                             *)
(***************************************************************************)
LEMMA StepsRun ==
  ASSUME Step
  PROVE  Running
BY DEF Step, Running, Fetch, Unreachable, Unsupported, Nop, BlockOrLoop, If, Else, End,
   Br, BrIf, BrTable, Return, Call, CallIndirect, Drop, Select, LocalGet, LocalSet, LocalTee,
   GlobalGet, GlobalSet, Const, Eqz, Compare, Arith, Count, Convert

(* The module does not change, and only global.set writes a global.        *)
LEMMA OnlyGlobalSetWrites ==
  ASSUME [Next]_vars
  PROVE  wasm' = wasm /\ (globals' = globals \/ GlobalSet)
<1> USE DEF Overrun
<1>1. CASE Unreachable \/ Unsupported \/ Nop \/ BlockOrLoop \/ If \/ Else \/ End
  BY <1>1 DEF Unreachable, Unsupported, Nop, BlockOrLoop, If, Else, End
<1>2. CASE Br \/ BrIf \/ BrTable \/ Return
  BY <1>2 DEF Br, BrIf, BrTable, Return
<1>3. CASE Call \/ CallIndirect
  BY <1>3 DEF Call, CallIndirect, CallEntry
<1>4. CASE Drop \/ Select \/ LocalGet \/ LocalSet \/ LocalTee \/ GlobalGet \/ GlobalSet
  BY <1>4 DEF Drop, Select, LocalGet, LocalSet, LocalTee, GlobalGet, GlobalSet, Push, Replace
<1>5. CASE Const \/ Eqz \/ Compare \/ Arith \/ Count \/ Convert
  BY <1>5 DEF Const, Eqz, Compare, Arith, Count, Convert, Push, Replace
<1>6. CASE InvokeExport \/ UNCHANGED vars
  BY <1>6 DEF InvokeExport, Invoke, vars
<1> QED
  BY <1>1, <1>2, <1>3, <1>4, <1>5, <1>6 DEF Next, Step, Gone

LEMMA GlobalsStayTyped ==
  ASSUME Inv, Exact(wasm), Running => TypedStack, TypedGlobals, [Next]_vars
  PROVE  TypedGlobals'
<1>1. wasm' = wasm /\ (globals' = globals \/ GlobalSet)
  BY OnlyGlobalSetWrites
<1>2. CASE globals' = globals
  BY <1>1, <1>2 DEF TypedGlobals
<1>3. CASE GlobalSet
  <2>1. Running /\ Instr.op = "global.set" /\ globals' = [globals EXCEPT ![Imm] = Top]
    BY <1>3 DEF GlobalSet, Fetch, Running
  <2>2. /\ OperandTypes(wasm, pc) /\ Instr = wasm.code[pc] /\ Height \in Nat
        /\ wasm.owner[pc] = BlockAt(csp) /\ ControlInv /\ Operands
    BY <2>1, TypedPc
  <2>3. Types[Height] = wasm.globals[Imm].value_type
    BY <2>1, <2>2 DEF OperandTypes, Accepts, Types, Height, Imm
  <2>4. Height > 0
    BY <2>1, <2>2, Effect DEF Pops, Height
  <2>5. Top.value_type = wasm.globals[Imm].value_type
    BY <2>1, <2>3, <2>4, OwnOperands
  <2> QED
    BY <1>1, <2>1, <2>5 DEF TypedGlobals
<1> QED
  BY <1>1, <1>2, <1>3

LEMMA OnlySelectExits ==
  ASSUME Next, status # "exited", status' = "exited"
  PROVE  Select /\ Top.value_type # "i32"
<1> USE DEF Fetch, Trap, Overrun
<1>1. ~InvokeExport /\ ~Gone
  BY DEF InvokeExport, Invoke, Gone, vars
<1>2. /\ ~Unreachable /\ ~Unsupported /\ ~Nop /\ ~BlockOrLoop /\ ~If /\ ~Else /\ ~End
      /\ ~Br /\ ~BrIf /\ ~BrTable /\ ~Return
  BY DEF Unreachable, Unsupported, Nop, BlockOrLoop, If, Else, End, Br, BrIf, BrTable, Return,
         Exhausted
<1>3. ~Call /\ ~CallIndirect
  BY DEF Call, CallIndirect, CallEntry, Exhausted
<1>4. /\ ~Drop /\ ~LocalGet /\ ~LocalSet /\ ~LocalTee /\ ~GlobalGet /\ ~GlobalSet
      /\ ~Const /\ ~Eqz /\ ~Compare /\ ~Arith /\ ~Count /\ ~Convert
  BY DEF Drop, LocalGet, LocalSet, LocalTee, GlobalGet, GlobalSet, Const, Eqz,
         Compare, Arith, Count, Convert, Push, Replace
<1>5. Select
  BY <1>1, <1>2, <1>3, <1>4 DEF Next, Step
<1> QED
  BY <1>5 DEF Select, Replace

LEMMA OnlyEndMismatches ==
  ASSUME Next, exception # "call_type_mismatch", exception' = "call_type_mismatch"
  PROVE  End /\ ResultMismatch(callstack[csp].block)
<1> USE DEF Trap, Overrun
<1>1. ~InvokeExport /\ ~Gone
  BY DEF InvokeExport, Invoke, Gone, vars
<1>2. /\ ~Unreachable /\ ~Unsupported /\ ~Nop /\ ~BlockOrLoop /\ ~If /\ ~Else
      /\ ~Br /\ ~BrIf /\ ~BrTable /\ ~Return
  BY DEF Unreachable, Unsupported, Nop, BlockOrLoop, If, Else, Br, BrIf, BrTable, Return,
         Exhausted
<1>3. ~Call /\ ~CallIndirect
  BY DEF Call, CallIndirect, CallEntry, Exhausted
<1>4. /\ ~Drop /\ ~Select /\ ~LocalGet /\ ~LocalSet /\ ~LocalTee /\ ~GlobalGet /\ ~GlobalSet
      /\ ~Const /\ ~Eqz /\ ~Compare /\ ~Count /\ ~Convert
  BY DEF Drop, Select, LocalGet, LocalSet, LocalTee, GlobalGet, GlobalSet, Const, Eqz,
         Compare, Count, Convert, Push, Replace
<1>5. ~Arith
  BY DEF Arith, Replace, IntegerTrap
<1>6. End
  BY <1>1, <1>2, <1>3, <1>4, <1>5 DEF Next, Step
<1> QED
  BY <1>6 DEF End

LEMMA TestsSucceed ==
  ASSUME Inv, Exact(wasm), Running => TypedStack, NoMismatch, [Next]_vars
  PROVE  NoMismatch'
<1>1. ~(Next /\ status' = "exited")
  <2> SUFFICES ASSUME Next, status' = "exited"
               PROVE  FALSE
    OBVIOUS
  <2>1. Select /\ Top.value_type # "i32"
    BY OnlySelectExits DEF NoMismatch
  <2>2. Running /\ Instr.op = "select"
    BY <2>1 DEF Select, Fetch, Running
  <2>3. /\ OperandTypes(wasm, pc) /\ Instr = wasm.code[pc] /\ Height \in Nat
        /\ wasm.owner[pc] = BlockAt(csp) /\ ControlInv /\ Operands
    BY <2>2, TypedPc
  <2>4. Types[Height] = "i32"
    BY <2>2, <2>3 DEF OperandTypes, Accepts, Types, Height
  <2>5. Height > 0
    BY <2>2, <2>3, Effect DEF Height, Pops
  <2> QED
    BY <2>1, <2>2, <2>4, <2>5, OwnOperands
<1>2. ~(Next /\ exception' = "call_type_mismatch")
  <2> DEFINE b == BlockAt(csp)
  <2> SUFFICES ASSUME Next, exception' = "call_type_mismatch"
               PROVE  FALSE
    OBVIOUS
  <2>1. End /\ ResultMismatch(b)
    BY OnlyEndMismatches DEF NoMismatch, BlockAt
  <2>2. Running /\ Instr.op = "end"
    BY <2>1 DEF End, Fetch, Running
  <2>3. /\ OperandTypes(wasm, pc) /\ Instr = wasm.code[pc] /\ Height \in Nat
        /\ wasm.owner[pc] = b /\ ControlInv /\ Operands
    BY <2>2, TypedPc
  <2>4. ResultCount(wasm, b) = 1 /\ Top.value_type # wasm.block[b].type.results[1]
    BY <2>1 DEF ResultMismatch, HasResult, Block
  <2>5. Types[Height] = wasm.block[b].type.results[1]
    BY <2>2, <2>3, <2>4 DEF OperandTypes, Types, Height
  <2>6. Height > 0
    <3>1. Height = EntryHeight(wasm, b) + ResultCount(wasm, b) /\ EntryHeight(wasm, b) \in Nat
      BY <2>2, <2>3, Popped DEF Height
    <3> QED
      BY <2>4, <3>1
  <2> QED
    BY <2>2, <2>4, <2>5, <2>6, OwnOperands
<1> QED
  BY <1>1, <1>2 DEF NoMismatch, vars

LEMMA StackStaysTyped ==
  ASSUME Inv, Exact(wasm), Running => TypedStack, TypedGlobals, [Next]_vars, Running'
  PROVE  TypedStack'
<1>1. CASE Step
  <2>1. Running /\ TypedStack
    BY <1>1, StepsRun
  <2>2. ~Unreachable /\ ~Unsupported
    BY DEF Unreachable, Unsupported, Trap, Running
  <2>3. CASE End
    BY <2>1, <2>3, EndOfBlockTyped, EndOfFunctionTyped
  <2> QED
    BY <1>1, <2>1, <2>2, <2>3, ComputationKeepsTypes, BlockKeepsTypes, IfKeepsTypes,
       ElseKeepsTypes, BranchKeepsTypes, ReturnKeepsTypes, CallKeepsTypes,
       CallIndirectKeepsTypes DEF Step
<1>2. CASE InvokeExport
  <2>1. ~Running
    BY <1>2 DEF InvokeExport, Invoke, Running
  <2> QED
    BY <1>2, <2>1, InvokeTypes
<1>3. CASE UNCHANGED vars
  <2>1. TypedStack
    BY <1>3 DEF vars, Running
  <2> QED
    BY <1>3, <2>1 DEF vars, TypedStack, BlockAt
<1> QED
  BY <1>1, <1>2, <1>3 DEF Next, Gone

-----------------------------------------------------------------------------
(***************************************************************************)
(* The theorems on the types of slots.                                     *)
(***************************************************************************)
(* Where no branch leaves operands behind and no import is called, every   *)
(* operand, parameter, local and global has the type that validation       *)
(* derived for it: also what the callers of an activation left waiting.    *)
THEOREM TypesInvariant == Spec => []TypesInv
<1>1. Init => TypesInv
  <2> SUFFICES ASSUME Init
               PROVE  TypesInv
    OBVIOUS
  <2>1. ~Running /\ NoMismatch
    BY DEF Init, Running, NoMismatch
  <2>2. TypedGlobals
    BY DEF Init, TypedGlobals
  <2> QED
    BY <2>1, <2>2 DEF TypesInv
<1>2. Inv /\ TypesInv /\ [Next]_vars => TypesInv'
  <2> SUFFICES ASSUME Inv, TypesInv, [Next]_vars, Exact(wasm)'
               PROVE  (Running => TypedStack)' /\ TypedGlobals' /\ NoMismatch'
    BY DEF TypesInv
  <2>1. Exact(wasm)
    BY OnlyGlobalSetWrites DEF Exact, Tidy, ImportFree
  <2>2. (Running => TypedStack) /\ TypedGlobals /\ NoMismatch
    BY <2>1 DEF TypesInv
  <2> QED
    BY <2>1, <2>2, StackStaysTyped, GlobalsStayTyped, TestsSucceed
<1> QED
  BY <1>1, <1>2, StackInvariant, PTL DEF Spec

(* pop_block compares the type of the result with the signature, Select    *)
(* asserts that its condition is an i32: both tests pass whenever valid    *)
(* code of that kind reaches them, whatever the numbers computed.          *)
THEOREM ValidCodePassesTypeTests == Spec => []NoTypeMismatch
<1>1. TypesInv => NoTypeMismatch
  BY DEF TypesInv, NoTypeMismatch, NoMismatch, Exact
<1> QED
  BY <1>1, TypesInvariant, PTL

-----------------------------------------------------------------------------
(***************************************************************************)
(* The types of the variables.  What a handler writes is a value because   *)
(* it reads only slots of the array, and because the instructions on       *)
(* numbers give numbers (NumbersProofs.tla).                               *)
(***************************************************************************)
Contents ==
  /\ stack \in [Slots -> StackValue]
  /\ globals \in [DOMAIN wasm.globals -> StackValue]
  /\ exception \in Exceptions

LEMMA ValuesOfWords ==
  ASSUME NEW t \in ValueType
  PROVE  /\ BITS[t] \in Nat \ {0} /\ Word(BITS[t]) \subseteq Nat
         /\ \A slot \in StackValue : Operand(t, slot) \in Word(BITS[t])
<1>1. BITS[t] \in Nat \ {0}
  BY BitsAssumption DEF ValueType
<1>2. 2 ^ BITS[t] \in Nat \ {0}
  BY <1>1, PowerOfNat
<1>3. \A slot \in StackValue : Operand(t, slot) \in Word(BITS[t])
  BY <1>2 DEF Operand, StackValue, Word
<1> QED
  BY <1>1, <1>3, Words

(* The operands that an instruction reads.                                 *)
LEMMA OperandsAreValues ==
  ASSUME Inv, Running, Contents
  PROVE  /\ \A n \in 0 .. Pops(wasm, Instr) - 1 : sp - n \in Slots /\ stack[sp - n] \in StackValue
         /\ sp - 0 = sp /\ sp \in Int /\ wasm \in Modules
         /\ TypedInstr(wasm, pc) /\ Instr = wasm.code[pc] /\ KnownOpcode(Instr)
<1>1. ControlInv /\ Operands /\ Pops(wasm, Instr) \in Nat
      /\ \A n \in 0 .. Pops(wasm, Instr) : sp - n \in Tops
  BY Takes
<1>2. sp \in Int /\ sp \in Tops /\ wasm \in Modules /\ pc \in DOMAIN wasm.code
  BY <1>1, InstrAtPc DEF Inv, Pointers, ControlTypes, Control
<1>3. \A n \in 0 .. Pops(wasm, Instr) - 1 : sp - n \in Slots
  <2> SUFFICES ASSUME NEW n \in 0 .. Pops(wasm, Instr) - 1
               PROVE  sp - n \in Slots
    OBVIOUS
  <2>1. n + 1 \in 0 .. Pops(wasm, Instr)
    BY <1>1
  <2>2. sp - (n + 1) \in Tops
    BY <1>1, <2>1
  <2> QED
    BY <1>1, <1>2, <2>2, SizesAreNumbers DEF Tops, Slots
<1>4. TypedInstr(wasm, pc) /\ Instr = wasm.code[pc]
  BY <1>1, TypedAtPc
<1>5. KnownOpcode(Instr)
  BY <1>2, <1>4, OpcodeAssumption
<1> QED
  BY <1>2, <1>3, <1>4, <1>5 DEF Contents

LEMMA LocalIsValue ==
  ASSUME Inv, Running, Contents, Instr.op \in {"local.get", "local.set", "local.tee"}
  PROVE  LocalAddr(Imm) \in Slots /\ stack[LocalAddr(Imm)] \in StackValue
<1>1. ControlInv /\ Operands /\ OperandBase \in Int /\ sp - 0 >= OperandBase
  <2>1. 0 \in 0 .. Pops(wasm, Instr)
    BY Takes
  <2> QED
    BY <2>1, Takes
<1>2. sp \in Int /\ sp \in Tops
  BY DEF Inv, ControlInv, ControlTypes, Pointers
<1>3. OwnSlots \in Nat /\ fp \in Nat /\ OperandBase = fp - 1 + OwnSlots
  BY <1>1, ActivationSlack DEF OperandBase
<1>4. TypedInstr(wasm, pc) /\ Instr = wasm.code[pc] /\ wasm.owner[pc] = BlockAt(csp)
  BY <1>1, TypedAtPc
<1>5. Imm \in 0 .. OwnSlots - 1
  BY <1>4 DEF TypedInstr, Imm, OwnSlots
<1>6. LocalAddr(Imm) \in Slots
  BY <1>1, <1>2, <1>3, <1>5, SizesAreNumbers DEF LocalAddr, Slots, Tops
<1> QED
  BY <1>6 DEF Contents

LEMMA PushedIsValue ==
  ASSUME Contents, NEW v \in StackValue, Push(v)
  PROVE  Contents'
BY DEF Push, Overrun, Contents

LEMMA ReplacedByValue ==
  ASSUME Contents, NEW n \in Nat, NEW v \in StackValue, Replace(n, v)
  PROVE  Contents'
BY DEF Replace, Contents

(* Values move, or numbers are computed.                                   *)
LEMMA MovedValues ==
  ASSUME Inv, Contents,
         \/ Nop \/ Drop \/ Select \/ LocalGet \/ LocalSet \/ LocalTee
         \/ GlobalGet \/ GlobalSet \/ Const
  PROVE  Contents'
<1> USE DEF Fetch, Running
<1>1. Running
  BY DEF Nop, Drop, Select, LocalGet, LocalSet, LocalTee, GlobalGet, GlobalSet, Const
<1>2. TypedInstr(wasm, pc) /\ Instr = wasm.code[pc] /\ wasm \in Modules /\ sp - 0 = sp
  BY <1>1, OperandsAreValues
<1>3. Instr.op \in {"select", "local.set", "local.tee", "global.set"} =>
        sp \in Slots /\ Top \in StackValue
  <2>1. Instr.op \in {"select", "local.set", "local.tee", "global.set"} =>
          0 \in 0 .. Pops(wasm, Instr) - 1
    BY DEF Pops
  <2> QED
    BY <1>1, <1>2, <2>1, OperandsAreValues DEF Top
<1>4. CASE Nop \/ Drop
  BY <1>4 DEF Nop, Drop, Contents
<1>5. CASE Select
  <2>1. Instr.op = "select"
    BY <1>5 DEF Select
  <2>2. Pops(wasm, Instr) = 3 /\ 1 \in 0 .. 3 - 1 /\ 2 \in 0 .. 3 - 1
    BY <2>1 DEF Pops
  <2>3. stack[sp - 1] \in StackValue /\ stack[sp - 2] \in StackValue
    BY <1>1, <2>2, OperandsAreValues
  <2>4. CASE stack' = stack
    BY <1>5, <2>4 DEF Select, Contents, Replace
  <2>5. CASE Replace(3, IF Cond THEN stack[sp - 2] ELSE stack[sp - 1])
    BY <2>3, <2>5, ReplacedByValue
  <2>6. CASE status' = "exited" /\ UNCHANGED <<machine, wasm, globals, exception>>
    BY <2>6 DEF machine, Contents
  <2> QED
    BY <1>5, <2>5, <2>6 DEF Select
<1>6. CASE LocalGet
  <2>1. stack[LocalAddr(Imm)] \in StackValue
    BY <1>1, <1>6, LocalIsValue DEF LocalGet
  <2> QED
    BY <1>6, <2>1, PushedIsValue DEF LocalGet
<1>7. CASE LocalSet \/ LocalTee
  <2>1. Top \in StackValue
    BY <1>3, <1>7 DEF LocalSet, LocalTee
  <2> QED
    BY <1>7, <2>1 DEF LocalSet, LocalTee, Contents
<1>8. CASE GlobalGet
  <2>1. globals[Imm] \in StackValue
    BY <1>2, <1>8 DEF GlobalGet, TypedInstr, Imm, Contents
  <2> QED
    BY <1>8, <2>1, PushedIsValue DEF GlobalGet
<1>9. CASE GlobalSet
  <2>1. Top \in StackValue
    BY <1>3, <1>9 DEF GlobalSet
  <2> QED
    BY <1>9, <2>1 DEF GlobalSet, Contents
<1>10. CASE Const
  <2>1. Imm \in StackValue
    BY <1>2, <1>10 DEF Const, TypedInstr, Imm
  <2> QED
    BY <1>10, <2>1, PushedIsValue DEF Const
<1> QED
  BY <1>4, <1>5, <1>6, <1>7, <1>8, <1>9, <1>10

LEMMA ComputedValues ==
  ASSUME Inv, Contents, Eqz \/ Compare \/ Arith \/ Count \/ Convert
  PROVE  Contents'
<1> USE DEF Fetch, Running
<1>1. Running /\ Instr.op \in {"eqz", "compare", "arith", "count", "convert"}
  BY DEF Eqz, Compare, Arith, Count, Convert
<1>2. Top \in StackValue /\ KnownOpcode(Instr)
  <2>1. 0 \in 0 .. Pops(wasm, Instr) - 1
    BY <1>1 DEF Pops
  <2> QED
    BY <1>1, <2>1, OperandsAreValues DEF Top
<1>3. \A p : Bool(p) \in StackValue
  BY DEF Bool, Val, StackValue, ValueType
<1>4. CASE Eqz \/ Compare
  BY <1>3, <1>4, ReplacedByValue DEF Eqz, Compare
<1>5. CASE Arith
  <2>1. Instr.op = "arith" /\ Imm.op \in Binary /\ Imm.type \in ValueType
    BY <1>2, <1>5 DEF Arith, KnownOpcode, Imm
  <2>2. Pops(wasm, Instr) = 2 /\ 1 \in 0 .. 2 - 1
    BY <2>1 DEF Pops
  <2>3. stack[sp - 1] \in StackValue
    BY <1>1, <2>2, OperandsAreValues
  <2>4. First \in Word(BITS[Imm.type]) /\ Second \in Word(BITS[Imm.type])
    BY <1>2, <2>1, <2>3, ValuesOfWords DEF First, Second
  <2> DEFINE trap == IntegerTrap(Imm.op, Imm.type, First, Second)
             v == Val(stack[sp - 1].value_type, Computed(Imm.op, Imm.type, First, Second))
  <2>5. trap = "none" => v \in StackValue
    <3>1. trap = "none" => Computed(Imm.op, Imm.type, First, Second) \in Nat
      BY <2>1, <2>4, ComputedInWord, ValuesOfWords DEF ValueType
    <3> QED
      BY <2>3, <3>1 DEF Val, StackValue
  <2>6. trap \in {"none", "integer_divide_by_zero", "integer_overflow"}
    BY DEF IntegerTrap
  <2>7. \/ trap # "none" /\ UNCHANGED <<wasm, stack, globals>> /\ exception' = trap
        \/ trap = "none" /\ Replace(2, v)
        \/ UNCHANGED <<wasm, stack, globals, exception>>
    BY <1>5 DEF Arith, Trap, machine
  <2> HIDE DEF trap, v
  <2>8. CASE trap # "none" /\ UNCHANGED <<wasm, stack, globals>> /\ exception' = trap
    BY <2>6, <2>8 DEF Contents, Exceptions
  <2>9. CASE trap = "none" /\ Replace(2, v)
    BY <2>5, <2>9, ReplacedByValue
  <2>10. CASE UNCHANGED <<wasm, stack, globals, exception>>
    BY <2>10 DEF Contents
  <2> QED
    BY <2>7, <2>8, <2>9, <2>10
<1>6. CASE Count
  <2>1. Instr.op = "count" /\ Imm.op \in Counts /\ Imm.type \in ValueType
    BY <1>2, <1>6 DEF Count, KnownOpcode, Imm
  <2>2. Second \in Word(BITS[Imm.type])
    BY <1>2, <2>1, ValuesOfWords DEF Second
  <2>3. Counted(Imm.op, Imm.type, Second) \in Nat
    BY <2>1, <2>2, CountedInWord, ValuesOfWords DEF ValueType
  <2>4. Val(Top.value_type, Counted(Imm.op, Imm.type, Second)) \in StackValue
    BY <1>2, <2>3 DEF Val, StackValue
  <2> QED
    BY <1>6, <2>4, ReplacedByValue DEF Count
<1>7. CASE Convert
  <2>1. Instr.op = "convert"
    BY <1>7 DEF Convert
  <2>2. /\ Top.value \in Nat /\ Top.value_type \in ValueType \cup {"none"}
        /\ "i32" \in ValueType /\ "i64" \in ValueType
    BY <1>2 DEF StackValue, ValueType
  <2>3. Operand("i32", Top) \in Nat
    BY <1>2, <2>2, ValuesOfWords
  <2>4. SignExtended(BITS["i32"], BITS["i64"], Top.value) \in Nat
    BY <2>2, ValuesOfWords, ExtendedInWord
  <2>5. CASE Imm.op \in {"wrap", "extend_u", "extend_s"}
    <3>1. Converted \in StackValue
      BY <2>2, <2>3, <2>4, <2>5 DEF Converted, Wrapped, Val, StackValue
    <3> QED
      BY <1>7, <3>1, ReplacedByValue DEF Convert
  <2>6. CASE Imm.op \notin {"wrap", "extend_u", "extend_s"}
    <3>1. Imm.type \in ValueType /\ Imm.bits \in Nat \ {0}
      BY <1>2, <2>1, <2>6 DEF KnownOpcode, Imm
    <3>2. SignExtended(Imm.bits, BITS[Imm.type], Top.value) \in Nat
      BY <2>2, <3>1, ValuesOfWords, ExtendedInWord
    <3>3. Converted = Val(Top.value_type, SignExtended(Imm.bits, BITS[Imm.type], Top.value))
      BY <2>6 DEF Converted
    <3>4. Converted \in StackValue
      BY <2>2, <3>2, <3>3 DEF Val, StackValue
    <3> QED
      BY <1>7, <3>4, ReplacedByValue DEF Convert
  <2> QED
    BY <2>5, <2>6
<1> QED
  BY <1>4, <1>5, <1>6, <1>7

(* Control, blocks and frames.                                             *)
LEMMA EndedValues ==
  ASSUME Inv, Contents, End
  PROVE  Contents'
<1> DEFINE frame == callstack[csp]
<1>1. UNCHANGED <<wasm, globals>>
      /\ exception' \in {exception, "call_type_mismatch"}
      /\ \/ stack' = stack
         \/ frame.sp < sp /\ stack' = [stack EXCEPT ![frame.sp + 1] = Top]
  BY DEF End, Trap, PoppedStack
<1>2. csp \in 0 .. CALLSTACK_SIZE /\ sp \in Tops /\ frame.sp \in Tops
  BY DEF End, Fetch, Running, Inv, ControlInv, Control, Pointers
<1>3. frame.sp < sp => sp \in Slots
  BY <1>2, SizesAreNumbers DEF Tops, Slots
<1>4. frame.sp < sp => Top \in StackValue
  BY <1>3 DEF Contents, Top
<1> HIDE DEF frame
<1> QED
  BY <1>1, <1>4 DEF Contents, Exceptions

LEMMA LocalsAreValues ==
  ASSUME NEW w \in Modules, w = wasm, NEW b \in DOMAIN wasm.block,
         NEW s \in [Slots -> StackValue], NEW top \in Int
  PROVE  ZeroLocals(s, b, top) \in [Slots -> StackValue]
<1>1. wasm.block[b].locals \in Seq(ValueType)
  BY NestingAssumption DEF WellNested
<1>2. LocalCount(wasm, b) = Len(wasm.block[b].locals) /\ LocalCount(wasm, b) \in Nat
  BY <1>1, LenProperties DEF LocalCount
<1>3. \A n \in 1 .. Len(wasm.block[b].locals) : wasm.block[b].locals[n] \in ValueType
  BY <1>1, ElementOfSeq
<1>4. \A i \in top + 1 .. top + LocalCount(wasm, b) :
        Val(Block(b).locals[i - top], 0) \in StackValue
  <2> SUFFICES ASSUME NEW i \in top + 1 .. top + LocalCount(wasm, b)
               PROVE  Val(Block(b).locals[i - top], 0) \in StackValue
    OBVIOUS
  <2>1. i - top \in 1 .. Len(wasm.block[b].locals)
    BY <1>2
  <2>2. Block(b).locals[i - top] \in ValueType
    BY <1>3, <2>1 DEF Block
  <2> QED
    BY <2>2 DEF Val, StackValue
<1> QED
  BY <1>4 DEF ZeroLocals

LEMMA CalledValues ==
  ASSUME Inv, Contents, Call \/ CallIndirect
  PROVE  Contents'
<1> USE DEF Fetch, Running
<1>1. Running /\ ControlInv /\ Operands
  BY Takes DEF Call, CallIndirect
<1>2. NestedInstr(wasm, pc) /\ Instr = wasm.code[pc] /\ WellNested(wasm) /\ wasm \in Modules
      /\ sp \in Int
  BY <1>1, TypedAtPc, NestingAssumption
<1>3. UNCHANGED <<wasm, globals>> /\ exception' \in Exceptions
  BY DEF Call, CallIndirect, CallEntry, EnterFunction, Exhausted, Trap, Overrun, Contents,
         Exceptions
<1>4. CASE stack' = stack
  BY <1>3, <1>4 DEF Contents
<1>5. CASE Call /\ EnterFunction(Imm, sp)
  <2>1. Imm \in DOMAIN wasm.functions
    BY <1>2, <1>5 DEF Call, Imm, NestedInstr
  <2>2. wasm.functions[Imm] \in DOMAIN wasm.block
    BY <1>2, <2>1 DEF WellNested
  <2>3. stack' = ZeroLocals(stack, wasm.functions[Imm], sp)
    BY <1>5 DEF EnterFunction, SetupCall
  <2>4. stack' \in [Slots -> StackValue]
    BY <1>2, <2>2, <2>3, LocalsAreValues DEF Contents
  <2> QED
    BY <1>3, <2>4 DEF Contents
<1>6. CASE CallIndirect /\ Allocated(TopI32) /\ EnterFunction(Callee, sp - 1)
  <2>1. Callee \in DOMAIN wasm.functions
    BY <1>2, <1>6 DEF WellNested, Callee, Allocated
  <2>2. wasm.functions[Callee] \in DOMAIN wasm.block
    BY <1>2, <2>1 DEF WellNested
  <2>3. stack' = ZeroLocals(stack, wasm.functions[Callee], sp - 1) /\ sp - 1 \in Int
    BY <1>2, <1>6 DEF EnterFunction, SetupCall
  <2>4. stack' \in [Slots -> StackValue]
    BY <1>2, <2>2, <2>3, LocalsAreValues DEF Contents
  <2> QED
    BY <1>3, <2>4 DEF Contents
<1> QED
  BY <1>4, <1>5, <1>6 DEF Call, CallIndirect, CallEntry, Overrun, machine

LEMMA InvokedValues ==
  ASSUME Inv, Contents, InvokeExport
  PROVE  Contents'
<1>0. PICK fidx \in wasm.exports :
        \E args \in Arguments(Block(wasm.functions[fidx]).type) : Invoke(fidx, args)
  BY DEF InvokeExport
<1>1. PICK args \in Arguments(Block(wasm.functions[fidx]).type) : Invoke(fidx, args)
  BY <1>0
<1> DEFINE b == wasm.functions[fidx]
           type == Block(b).type
           top == Len(type.params) - 1
<1>2. wasm \in Modules /\ WellNested(wasm)
  BY NestingAssumption DEF Inv, ControlInv, ControlTypes
<1>3. b \in DOMAIN wasm.block /\ type \in FuncType
  BY <1>2 DEF WellNested, Block
<1>4. type.params \in Seq(ValueType) /\ top \in Int
  BY <1>3, LenProperties DEF FuncType
<1>5. \A n \in DOMAIN args : type.params[n] \in ValueType /\ args[n] \in Nat
  <2>1. args \in [1 .. Len(type.params) -> ArgValues]
    BY DEF Arguments
  <2>2. \A n \in 1 .. Len(type.params) : type.params[n] \in ValueType
    BY <1>4, ElementOfSeq
  <2> HIDE DEF type
  <2> QED
    BY <2>1, <2>2, SizesAssumption
<1>6. PushArgs(type, args) \in [Slots -> StackValue]
  <2> HIDE DEF type
  <2> QED
    BY <1>5 DEF PushArgs, Contents, Val, StackValue
<1>7. CASE Overrun(CalleeTop(fidx, top))
  BY <1>7 DEF Overrun, Contents
<1>8. CASE SetupCall(fidx, PushArgs(type, args), top, -1, -1, pc)
           /\ UNCHANGED <<wasm, globals, exception>>
  <2>1. stack' = ZeroLocals(PushArgs(type, args), b, top)
    BY <1>8 DEF SetupCall
  <2> HIDE DEF type, top, b
  <2>2. stack' \in [Slots -> StackValue]
    BY <1>2, <1>3, <1>4, <1>6, <2>1, LocalsAreValues
  <2> QED
    BY <1>8, <2>2 DEF Contents
<1> QED
  BY <1>1, <1>7, <1>8 DEF Invoke

LEMMA ContentsNext == Inv /\ Contents /\ [Next]_vars => Contents'
<1> SUFFICES ASSUME Inv, Contents, [Next]_vars
             PROVE  Contents'
  OBVIOUS
<1>1. CASE Unreachable \/ Unsupported \/ UNCHANGED vars
  BY <1>1 DEF Unreachable, Unsupported, Trap, vars, Contents, Exceptions
<1>2. CASE BlockOrLoop \/ If \/ Else \/ Br \/ BrIf \/ BrTable \/ Return
  BY <1>2 DEF BlockOrLoop, If, Else, Br, BrIf, BrTable, Return, Exhausted, Trap, Contents,
              Exceptions
<1> QED
  BY <1>1, <1>2, MovedValues, ComputedValues, EndedValues, CalledValues, InvokedValues
     DEF Next, Step, Gone

LEMMA ContentsInit == Init => Contents
<1> SUFFICES ASSUME Init
             PROVE  Contents
  OBVIOUS
<1>1. WellTyped(wasm)
  BY TypingAssumption DEF Init
<1>2. wasm.residue \in StackValue /\ ZeroSlot \in StackValue
      /\ wasm.globals \in [DOMAIN wasm.globals -> StackValue]
  BY <1>1 DEF WellTyped, ZeroSlot, StackValue
<1> QED
  BY <1>2 DEF Init, Contents, Exceptions

(* The variables always have the types of the fields of struct Module.     *)
THEOREM TypesAreCorrect == Spec => []TypeOK
<1>1. Init => Contents
  BY ContentsInit
<1>2. Inv /\ Contents /\ [Next]_vars => Contents'
  BY ContentsNext
<1>3. Inv /\ Contents => TypeOK
  BY DEF Inv, ControlInv, ControlTypes, Pointers, Tops, Bases, Contents, TypeOK
<1> QED
  BY <1>1, <1>2, <1>3, StackInvariant, PTL DEF Spec

=============================================================================
