----------------------------- MODULE Interpreter -----------------------------
(***************************************************************************)
(* The virtual machine of src/source/interpreter.c: the operand stack, the *)
(* call stack of frames, and interpret() as one action per opcode.  An     *)
(* invocation starts the way main() in src/source/cli.c starts one: the    *)
(* three stack pointers are reset, the arguments are pushed, and invoke()  *)
(* calls setup_call() before the first instruction is fetched.             *)
(*                                                                         *)
(* The operand stack is the array m->stack: nothing above sp is erased, so *)
(* slots keep the values of earlier instructions and earlier invocations.  *)
(* A write past the end of a fixed array and a read past the end of the    *)
(* table are undefined in C: the terminal status "overrun" or "overread".  *)
(* The one slot of callstack that the code's guards let it use past the    *)
(* end, callstack[CALLSTACK_SIZE], lies on top of br_table[0 .. 5] in      *)
(* struct Module and works until a br_table instruction writes there.      *)
(***************************************************************************)
EXTENDS WasmModule, Numbers

CONSTANTS
  Modules,         \* the modules load_module may have returned
  STACK_SIZE,      \* slots of m->stack, 0x10000 in the code
  CALLSTACK_SIZE,  \* frames of m->callstack, 0x1000 in the code
  BR_TABLE_SIZE,   \* entries of m->br_table, 0x10000 in the code
  ArgValues,       \* the numbers a user types as arguments
  NULL             \* the block pointer of a frame that was never pushed

ASSUME SizesAssumption ==
  /\ STACK_SIZE \in Nat \ {0} /\ CALLSTACK_SIZE \in Nat \ {0} /\ BR_TABLE_SIZE \in Nat
  /\ BR_TABLE_SIZE <= 2 ^ (BITS["i32"] - 1)
  /\ ArgValues \subseteq Nat

ASSUME NestingAssumption == \A w \in Modules : WellNested(w) /\ NULL \notin DOMAIN w.block

ASSUME TypingAssumption == \A w \in Modules : WellTyped(w)

(* What the opcode of an instruction on numbers says.                      *)
KnownOpcode(i) ==
  /\ i.op = "arith" => i.imm.op \in Binary /\ i.imm.type \in ValueType
  /\ i.op = "count" => i.imm.op \in Counts /\ i.imm.type \in ValueType
  /\ i.op = "convert" => \/ i.imm.op \in {"wrap", "extend_u", "extend_s"}
                         \/ i.imm.type \in ValueType /\ i.imm.bits \in Nat \ {0}

ASSUME OpcodeAssumption == \A w \in Modules : \A x \in DOMAIN w.code : KnownOpcode(w.code[x])

VARIABLES
  wasm,       \* the module, fixed for a run of the program
  pc,         \* m->pc
  sp, fp,     \* m->sp, m->fp
  stack,      \* m->stack
  csp,        \* m->csp
  callstack,  \* m->callstack
  globals,    \* m->globals
  status,     \* "running", what interpret() returned, "ready" before any call,
              \* "exited" when an ASSERT failed, "killed" by a division
  exception   \* the static buffer that holds the message of a failure

machine == <<pc, sp, fp, stack, csp, callstack>>
vars == <<wasm, pc, sp, fp, stack, csp, callstack, globals, status, exception>>

Statuses == {"ready", "running", "true", "false", "overrun", "overread", "exited", "killed"}

Exceptions == {"none", "unreachable", "call_stack_exhausted", "br_table_size_exceeds_max",
               "undefined_element", "indirect_call_type_mismatch",
               "call_type_mismatch", "integer_divide_by_zero", "integer_overflow"}

Slots == 0 .. STACK_SIZE - 1

Init ==
  /\ wasm \in Modules
  /\ pc = 0 /\ sp = -1 /\ fp = -1 /\ csp = -1
  /\ stack = [i \in Slots |-> IF i = 0 THEN wasm.residue ELSE ZeroSlot]
  /\ callstack = [i \in 0 .. CALLSTACK_SIZE |-> [block |-> NULL, sp |-> 0, fp |-> 0, ra |-> 0]]
  /\ globals = wasm.globals
  /\ status = "ready"
  /\ exception = "none"

-----------------------------------------------------------------------------
(***************************************************************************)
(* What the handlers share.                                                *)
(***************************************************************************)
Block(b) == wasm.block[b]
Instr == wasm.code[pc]
Imm == Instr.imm

Fetch(op) == status = "running" /\ Instr.op = op
Advance == pc' = Instr.next

Val(type, v) == [value_type |-> type, value |-> v]
Top == stack[sp]

(* What an instruction for `type` reads from a slot: the low bits of it.   *)
Operand(type, slot) == slot.value % 2 ^ BITS[type]
TopI32 == Operand("i32", Top)
Cond == TopI32 # 0

(* interpret() returns false with a message.                               *)
Trap(message) == status' = "false" /\ exception' = message

(* A write to stack[top] with top past the array: undefined from here on.  *)
Overrun(top) ==
  /\ top >= STACK_SIZE
  /\ status' = "overrun"
  /\ UNCHANGED <<wasm, pc, sp, fp, stack, csp, callstack, globals, exception>>

(* push_block(m, b, savedSp) when m->csp = c, m->fp = f, m->pc = savedPc.   *)
PushBlock(b, savedSp, c, f, savedPc) ==
  /\ csp' = c + 1
  /\ callstack' = [callstack EXCEPT
       ![c + 1] = [block |-> b, sp |-> savedSp, fp |-> f, ra |-> savedPc]]

(* setup_call(m, fidx) when moreover the operand stack is s up to `top`;   *)
(* the locals must fit.                                                    *)
CalleeTop(fidx, top) == top + LocalCount(wasm, wasm.functions[fidx])

ZeroLocals(s, b, top) ==
  [i \in Slots |-> IF i \in top + 1 .. top + LocalCount(wasm, b)
                     THEN Val(Block(b).locals[i - top], 0) ELSE s[i]]

(* Faults: fp set before it is saved; the arguments left below the frame.  *)
SetupCallFpFirst(fidx, s, top, c, f, savedPc) ==
  LET b == wasm.functions[fidx]
      savedSp == top - ParamCount(wasm, b) IN
  /\ PushBlock(b, savedSp, c, savedSp + 1, savedPc)
  /\ fp' = savedSp + 1
  /\ sp' = CalleeTop(fidx, top)
  /\ stack' = ZeroLocals(s, b, top)
  /\ pc' = Block(b).start_addr

SetupCallKeepingArguments(fidx, s, top, c, f, savedPc) ==
  LET b == wasm.functions[fidx] IN
  /\ PushBlock(b, top, c, f, savedPc)
  /\ fp' = top - ParamCount(wasm, b) + 1
  /\ sp' = CalleeTop(fidx, top)
  /\ stack' = ZeroLocals(s, b, top)
  /\ pc' = Block(b).start_addr

SetupCall(fidx, s, top, c, f, savedPc) ==
  LET b == wasm.functions[fidx]
      savedSp == top - ParamCount(wasm, b) IN
  /\ PushBlock(b, savedSp, c, f, savedPc)
  /\ fp' = savedSp + 1
  /\ sp' = CalleeTop(fidx, top)
  /\ stack' = ZeroLocals(s, b, top)
  /\ pc' = Block(b).start_addr

(* The test that guards push_block in Block_, Loop, If, Call, CallIndirect *)
CallStackExhaustedLate == csp > CALLSTACK_SIZE   \* fault: one frame too many
CallStackExhausted == csp >= CALLSTACK_SIZE

Exhausted ==
  /\ CallStackExhausted
  /\ Trap("call_stack_exhausted")

-----------------------------------------------------------------------------
(***************************************************************************)
(* The body of main()'s loop for a line that names an exported function    *)
(* and gives as many arguments as it has parameters.                       *)
(***************************************************************************)
Arguments(type) == {args \in [1 .. Len(type.params) -> ArgValues] :
                      \A n \in DOMAIN args : args[n] < 2 ^ BITS[type.params[n]]}

PushArgs(type, args) ==
  [i \in Slots |-> IF i + 1 \in DOMAIN args THEN Val(type.params[i + 1], args[i + 1])
                                            ELSE stack[i]]

Invoke(fidx, args) ==
  LET b == wasm.functions[fidx]
      top == Len(Block(b).type.params) - 1 IN
  /\ status \in {"ready", "true", "false"}
  /\ \/ Overrun(CalleeTop(fidx, top))
     \/ /\ CalleeTop(fidx, top) < STACK_SIZE
        /\ SetupCall(fidx, PushArgs(Block(b).type, args), top, -1, -1, pc)
        /\ status' = "running"
        /\ UNCHANGED <<wasm, globals, exception>>

-----------------------------------------------------------------------------
(***************************************************************************)
(* Structured control.                                                     *)
(***************************************************************************)
Unreachable ==
  /\ Fetch("unreachable") /\ Advance /\ Trap("unreachable")
  /\ UNCHANGED <<wasm, sp, fp, stack, csp, callstack, globals>>

(* The default case returns false and leaves the message buffer alone.     *)
Unsupported ==
  /\ Fetch("unsupported") /\ Advance
  /\ status' = "false"
  /\ UNCHANGED <<wasm, sp, fp, stack, csp, callstack, globals, exception>>

Nop ==
  /\ Fetch("nop") /\ Advance
  /\ UNCHANGED <<wasm, sp, fp, stack, csp, callstack, globals, status, exception>>

BlockOrLoop ==
  /\ Fetch("block") \/ Fetch("loop")
  /\ Advance
  /\ \/ Exhausted /\ UNCHANGED <<csp, callstack>>
     \/ /\ ~CallStackExhausted
        /\ PushBlock(wasm.block_lookup[pc], sp, csp, fp, Instr.next)
        /\ UNCHANGED <<status, exception>>
  /\ UNCHANGED <<wasm, sp, fp, stack, globals>>

(* The frame saves sp with the condition still on the stack; a false       *)
(* condition without an else branch takes the frame off again.             *)
SavedSpOfIf == sp

If ==
  /\ Fetch("if")
  /\ \/ Exhausted /\ Advance /\ UNCHANGED <<sp, csp, callstack>>
     \/ /\ ~CallStackExhausted
        /\ sp' = sp - 1
        /\ LET b == wasm.block_lookup[pc] IN
           \/ /\ Cond \/ Block(b).else_addr # 0
              /\ PushBlock(b, SavedSpOfIf, csp, fp, Instr.next)
              /\ pc' = IF Cond THEN Instr.next ELSE Block(b).else_addr
           \/ /\ ~Cond /\ Block(b).else_addr = 0
              /\ callstack' = [callstack EXCEPT
                   ![csp + 1] = [block |-> b, sp |-> SavedSpOfIf, fp |-> fp, ra |-> Instr.next]]
              /\ csp' = csp
              /\ pc' = Block(b).br_addr + 1
        /\ UNCHANGED <<status, exception>>
  /\ UNCHANGED <<wasm, fp, stack, globals>>

(* The first branch is done: go to the end of the if.                      *)
Else ==
  /\ Fetch("else")
  /\ pc' = Block(callstack[csp].block).br_addr
  /\ UNCHANGED <<wasm, sp, fp, stack, csp, callstack, globals, status, exception>>

(***************************************************************************)
(* End_: pop_block, then decide whether interpret() is done.               *)
(***************************************************************************)
HasResult(b) == ResultCount(wasm, b) = 1

(* Faults: the stack reset without the result; the stack grown back to the *)
(* saved height; nothing removed.                                          *)
PoppedSpNoResult(frame) == IF frame.sp < sp THEN frame.sp ELSE sp
PoppedSpRegrown(frame) == IF HasResult(frame.block) /\ frame.sp < sp THEN frame.sp + 1 ELSE frame.sp
PoppedSpUnchanged(frame) == sp

(* What pop_block makes of the operand stack: with a result, the result is *)
(* moved to where the block began.                                         *)
PoppedSp(frame) ==
  CASE frame.sp >= sp -> sp
    [] frame.sp < sp /\ HasResult(frame.block) -> frame.sp + 1
    [] OTHER -> frame.sp

PoppedStack(frame) ==
  IF frame.sp < sp /\ HasResult(frame.block)
    THEN [stack EXCEPT ![frame.sp + 1] = Top] ELSE stack

ResultMismatch(b) == HasResult(b) /\ Top.value_type # Block(b).type.results[1]

End ==
  LET frame == callstack[csp]
      returns == IsFunction(wasm, frame.block) IN
  /\ Fetch("end")
  /\ csp' = csp - 1
  /\ \/ /\ ResultMismatch(frame.block)
        /\ Advance /\ Trap("call_type_mismatch")
        /\ UNCHANGED <<sp, fp, stack>>
     \/ /\ ~ResultMismatch(frame.block)
        /\ sp' = PoppedSp(frame)
        /\ stack' = PoppedStack(frame)
        /\ fp' = frame.fp
        /\ pc' = IF returns THEN frame.ra ELSE Instr.next
        /\ status' = IF returns /\ csp = 0 THEN "true" ELSE "running"
        /\ UNCHANGED exception
  /\ UNCHANGED <<wasm, callstack, globals>>

-----------------------------------------------------------------------------
(***************************************************************************)
(* Branches.  Going to a label pops frames and nothing else: fp is the     *)
(* same in every frame of an activation, and sp is restored by the end     *)
(* instruction the label leads to - or, at a loop label, not at all.       *)
(***************************************************************************)
LabelFrame(depth) == csp - depth

GotoKeepingFrames(depth) ==    \* fault: the frames of the blocks left stay
  /\ csp' = csp
  /\ pc' = Block(callstack[LabelFrame(depth)].block).br_addr

Goto(depth) ==
  /\ csp' = LabelFrame(depth)
  /\ pc' = Block(callstack[LabelFrame(depth)].block).br_addr

Br ==
  /\ Fetch("br")
  /\ Goto(Imm)
  /\ UNCHANGED <<wasm, sp, fp, stack, callstack, globals, status, exception>>

BrIf ==
  /\ Fetch("br_if")
  /\ sp' = sp - 1
  /\ \/ Cond /\ Goto(Imm)
     \/ ~Cond /\ Advance /\ UNCHANGED csp
  /\ UNCHANGED <<wasm, fp, stack, callstack, globals, status, exception>>

(* The operand is read as a signed number; a negative one is out of range. *)
TableDepth(v) ==
  IF v + 1 \in DOMAIN Imm.targets THEN Imm.targets[v + 1] ELSE Imm.default

(* br_table[0 .. 5] holds the frame callstack[CALLSTACK_SIZE]: the first   *)
(* target overwrites its block.  Only a jump to that frame notices, any    *)
(* other one drops it.                                                     *)
LandsOnSmashedFrame ==
  csp = CALLSTACK_SIZE /\ Imm.targets # <<>> /\ TableDepth(TopI32) = 0

BrTable ==
  /\ Fetch("br_table")
  /\ \/ /\ Len(Imm.targets) > BR_TABLE_SIZE
        /\ Advance /\ Trap("br_table_size_exceeds_max")
        /\ UNCHANGED <<sp, csp>>
     \/ /\ Len(Imm.targets) <= BR_TABLE_SIZE
        /\ ~LandsOnSmashedFrame
        /\ sp' = sp - 1
        /\ Goto(TableDepth(TopI32))
        /\ UNCHANGED <<status, exception>>
     \/ /\ Len(Imm.targets) <= BR_TABLE_SIZE
        /\ LandsOnSmashedFrame
        /\ status' = "overrun"
        /\ UNCHANGED <<pc, sp, csp, exception>>
  /\ UNCHANGED <<wasm, fp, stack, callstack, globals>>

(* The loop over frames stops at the innermost one of a function.          *)
FunctionFrame ==
  CHOOSE i \in 0 .. csp :
    /\ IsFunction(wasm, callstack[i].block)
    /\ \A j \in i + 1 .. csp : ~IsFunction(wasm, callstack[j].block)

Return ==
  /\ Fetch("return")
  /\ csp' = FunctionFrame
  /\ pc' = Block(callstack[FunctionFrame].block).end_addr
  /\ UNCHANGED <<wasm, sp, fp, stack, callstack, globals, status, exception>>

-----------------------------------------------------------------------------
(***************************************************************************)
(* Calls.                                                                  *)
(***************************************************************************)
IsImport(fidx) == fidx < wasm.import_func_count

EnterFunctionAgain(fidx, top) ==   \* fault: returns to the call, not behind it
  /\ CalleeTop(fidx, top) < STACK_SIZE
  /\ SetupCall(fidx, stack, top, csp, fp, pc)

EnterFunction(fidx, top) ==
  /\ CalleeTop(fidx, top) < STACK_SIZE
  /\ SetupCall(fidx, stack, top, csp, fp, Instr.next)

Call ==
  /\ Fetch("call")
  /\ \/ /\ IsImport(Imm)
        /\ Advance
        /\ UNCHANGED <<wasm, sp, fp, stack, csp, callstack, globals, status, exception>>
     \/ /\ ~IsImport(Imm)
        /\ Exhausted /\ Advance
        /\ UNCHANGED <<wasm, sp, fp, stack, csp, callstack, globals>>
     \/ /\ ~IsImport(Imm) /\ ~CallStackExhausted
        /\ EnterFunction(Imm, sp)
        /\ UNCHANGED <<wasm, globals, status, exception>>
     \/ /\ ~IsImport(Imm) /\ ~CallStackExhausted
        /\ Overrun(CalleeTop(Imm, sp))

(* The index is tested against the most entries the table may ever have;   *)
(* load_module allocated cur_size of them.                                 *)
InTable(v) == v < wasm.table.max_size
Allocated(v) == v \in DOMAIN wasm.table.entries
Callee == wasm.table.entries[TopI32]
CalleeType == Block(wasm.functions[Callee]).type
MaskMismatch == CalleeType.mask # wasm.types[Imm].mask

(* Checked after setup_call; only reached when the masks were equal.       *)
ParamMismatch ==
  \E n \in 1 .. Len(CalleeType.params) :
    stack[sp - 1 - Len(CalleeType.params) + n].value_type # CalleeType.params[n]

CallEntry ==
  \/ /\ IsImport(Callee)
     /\ Advance /\ sp' = sp - 1
     /\ UNCHANGED <<wasm, fp, stack, csp, callstack, globals, status, exception>>
  \/ /\ ~IsImport(Callee)
     /\ Exhausted /\ Advance /\ sp' = sp - 1
     /\ UNCHANGED <<wasm, fp, stack, csp, callstack, globals>>
  \/ /\ ~IsImport(Callee) /\ ~CallStackExhausted
     /\ MaskMismatch
     /\ Advance /\ Trap("indirect_call_type_mismatch") /\ sp' = sp - 1
     /\ UNCHANGED <<wasm, fp, stack, csp, callstack, globals>>
  \/ /\ ~IsImport(Callee) /\ ~CallStackExhausted
     /\ ~MaskMismatch
     /\ EnterFunction(Callee, sp - 1)
     /\ IF ParamMismatch THEN Trap("indirect_call_type_mismatch")
                         ELSE UNCHANGED <<status, exception>>
     /\ UNCHANGED <<wasm, globals>>
  \/ /\ ~IsImport(Callee) /\ ~CallStackExhausted
     /\ ~MaskMismatch
     /\ Overrun(CalleeTop(Callee, sp - 1))

CallIndirect ==
  /\ Fetch("call_indirect")
  /\ \/ /\ ~InTable(TopI32)
        /\ Advance /\ Trap("undefined_element") /\ sp' = sp - 1
        /\ UNCHANGED <<wasm, fp, stack, csp, callstack, globals>>
     \/ /\ InTable(TopI32) /\ ~Allocated(TopI32)
        /\ status' = "overread"
        /\ UNCHANGED <<machine, wasm, globals, exception>>
     \/ InTable(TopI32) /\ Allocated(TopI32) /\ CallEntry

-----------------------------------------------------------------------------
(***************************************************************************)
(* Parameters, variables and numbers.                                      *)
(***************************************************************************)
(* stack[++m->sp] = v                                                      *)
Push(v) ==
  \/ Overrun(sp + 1)
  \/ /\ sp + 1 < STACK_SIZE
     /\ Advance
     /\ sp' = sp + 1
     /\ stack' = [stack EXCEPT ![sp + 1] = v]
     /\ UNCHANGED <<wasm, fp, csp, callstack, globals, status, exception>>

(* n operands are taken off and v is left in their place.                  *)
Replace(n, v) ==
  /\ Advance
  /\ sp' = sp - n + 1
  /\ stack' = [stack EXCEPT ![sp - n + 1] = v]
  /\ UNCHANGED <<wasm, fp, csp, callstack, globals, status, exception>>

Drop ==
  /\ Fetch("drop") /\ Advance
  /\ sp' = sp - 1
  /\ UNCHANGED <<wasm, fp, stack, csp, callstack, globals, status, exception>>

Select ==
  /\ Fetch("select")
  /\ \/ /\ Top.value_type # "i32"
        /\ status' = "exited"
        /\ UNCHANGED <<machine, wasm, globals, exception>>
     \/ /\ Top.value_type = "i32"
        /\ Replace(3, IF Cond THEN stack[sp - 2] ELSE stack[sp - 1])

LocalAddrAbsolute(idx) == idx      \* fault: not relative to the activation
LocalAddr(idx) == fp + idx

LocalGet == Fetch("local.get") /\ Push(stack[LocalAddr(Imm)])

LocalSet ==
  /\ Fetch("local.set") /\ Advance
  /\ stack' = [stack EXCEPT ![LocalAddr(Imm)] = Top]
  /\ sp' = sp - 1
  /\ UNCHANGED <<wasm, fp, csp, callstack, globals, status, exception>>

LocalTee ==
  /\ Fetch("local.tee") /\ Advance
  /\ stack' = [stack EXCEPT ![LocalAddr(Imm)] = Top]
  /\ UNCHANGED <<wasm, sp, fp, csp, callstack, globals, status, exception>>

GlobalGet == Fetch("global.get") /\ Push(globals[Imm])

GlobalSet ==
  /\ Fetch("global.set") /\ Advance
  /\ globals' = [globals EXCEPT ![Imm] = Top]
  /\ sp' = sp - 1
  /\ UNCHANGED <<wasm, fp, stack, csp, callstack, status, exception>>

Const == Fetch("const") /\ Push(Imm)

Bool(p) == Val("i32", IF p THEN 1 ELSE 0)

EqzKeepingType ==                  \* fault: the result is not made an i32
  Fetch("eqz") /\ Replace(1, Val(Top.value_type, IF Operand(Imm, Top) = 0 THEN 1 ELSE 0))
Eqz == Fetch("eqz") /\ Replace(1, Bool(Operand(Imm, Top) = 0))

Compare ==
  Fetch("compare") /\
  Replace(2, Bool(Related(Imm.op, Operand(Imm.type, stack[sp - 1]), Operand(Imm.type, Top))))

First == Operand(Imm.type, stack[sp - 1])
Second == Operand(Imm.type, Top)

Arith ==
  /\ Fetch("arith")
  /\ \/ /\ IntegerTrap(Imm.op, Imm.type, First, Second) # "none"
        /\ Advance /\ Trap(IntegerTrap(Imm.op, Imm.type, First, Second)) /\ sp' = sp - 1
        /\ UNCHANGED <<wasm, fp, stack, csp, callstack, globals>>
     \/ /\ IntegerTrap(Imm.op, Imm.type, First, Second) = "none"
        /\ Replace(2, Val(stack[sp - 1].value_type,
                          Computed(Imm.op, Imm.type, First, Second)))
     \/ /\ DivisionFaults(Imm.op, Imm.type, First, Second)
        /\ status' = "killed"
        /\ UNCHANGED <<machine, wasm, globals, exception>>

Count ==
  Fetch("count") /\ Replace(1, Val(Top.value_type, Counted(Imm.op, Imm.type, Second)))

(* wrap and the two forms of i64.extend_i32 name the new type; the         *)
(* instructions that extend from the low bits of their type do not.        *)
Wrapped == Val("i32", Operand("i32", Top))

Converted ==
  LET narrow == BITS["i32"]  wide == BITS["i64"] IN
  CASE Imm.op = "wrap" -> Wrapped
    [] Imm.op = "extend_u" -> Val("i64", Operand("i32", Top))
    [] Imm.op = "extend_s" -> Val("i64", SignExtended(narrow, wide, Top.value))
    [] OTHER -> Val(Top.value_type, SignExtended(Imm.bits, BITS[Imm.type], Top.value))

Convert == Fetch("convert") /\ Replace(1, Converted)

-----------------------------------------------------------------------------
Step == \/ Unreachable \/ Unsupported \/ Nop \/ BlockOrLoop \/ If \/ Else \/ End
        \/ Br \/ BrIf \/ BrTable \/ Return \/ Call \/ CallIndirect
        \/ Drop \/ Select \/ LocalGet \/ LocalSet \/ LocalTee
        \/ GlobalGet \/ GlobalSet \/ Const \/ Eqz \/ Compare \/ Arith
        \/ Count \/ Convert

InvokeExport == \E fidx \in wasm.exports :
                  \E args \in Arguments(Block(wasm.functions[fidx]).type) : Invoke(fidx, args)

(* Past the end of an array, or when the program has ended, nothing more   *)
(* is said of it.                                                          *)
Gone == status \in {"overrun", "overread", "exited", "killed"} /\ UNCHANGED vars

Next == Step \/ InvokeExport \/ Gone

Spec == Init /\ [][Next]_vars

(* interpret() is a loop in the only thread of the program.                *)
FairSpec == Spec /\ WF_vars(Step)

=============================================================================
