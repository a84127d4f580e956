------------------------ MODULE InterpreterProperties ------------------------
(***************************************************************************)
(* What makes the virtual machine of Interpreter.tla correct: the frames   *)
(* on the call stack always mirror the block structure of the code, and    *)
(* every activation keeps to its own part of the shared operand stack.     *)
(***************************************************************************)
EXTENDS Interpreter

Frame == [block : DOMAIN wasm.block \cup {NULL}, sp : Int, fp : Int, ra : Nat]

(* The variables have the types of the fields of struct Module.            *)
TypeOK ==
  /\ wasm \in Modules
  /\ pc \in Nat
  /\ sp \in -1 .. STACK_SIZE - 1
  /\ fp \in -1 .. STACK_SIZE
  /\ stack \in [Slots -> StackValue]
  /\ csp \in -1 .. CALLSTACK_SIZE
  /\ callstack \in [0 .. CALLSTACK_SIZE -> Frame]
  /\ globals \in [DOMAIN wasm.globals -> StackValue]
  /\ status \in Statuses
  /\ exception \in Exceptions

Running == status = "running"

BlockAt(i) == callstack[i].block

(* The fp that setup_call chose for the activation frame i belongs to.     *)
ActivationFp(w, frames, i) == frames[i - w.nest[frames[i].block]].sp + 1

(* Slots of the running activation that hold parameters and locals.        *)
OwnSlots == SlotCount(wasm, FunctionOf(wasm, BlockAt(csp)))
OperandBase == fp - 1 + OwnSlots

(* The value of sp when the block of frame i had been entered.             *)
Floor(w, frames, i) ==
  CASE w.block[frames[i].block].block_type = "function" ->
         frames[i].sp + SlotCount(w, frames[i].block)
    [] w.block[frames[i].block].block_type = "if" -> frames[i].sp - 1
    [] OTHER -> frames[i].sp

(* The frames up to the top-th are the blocks around an instruction,       *)
(* innermost last, below them those around the call that is waiting, etc.  *)
Mirrors(w, frames, top) ==
  \A i \in 0 .. top :
    /\ frames[i].block \in DOMAIN w.labels
    /\ w.nest[frames[i].block] \in 0 .. i
    /\ \A k \in 0 .. w.nest[frames[i].block] :
         frames[i - k].block = w.labels[frames[i].block][k]

(* What Br, Else_, End_ and Return assume when they look into callstack    *)
(* without a test: it mirrors the nesting of blocks at pc.                 *)
FramesMirrorNesting ==
  Running =>
    /\ csp \in 0 .. CALLSTACK_SIZE
    /\ pc \in DOMAIN wasm.code
    /\ wasm.owner[pc] = BlockAt(csp)
    /\ Mirrors(wasm, callstack, csp)

(* The address behind a call instruction of block b.                       *)
BehindCall(w, b, addr) ==
  /\ addr \in DOMAIN w.code
  /\ w.owner[addr] = b
  /\ \E a \in DOMAIN w.code : /\ w.owner[a] = b
                              /\ w.code[a].op \in {"call", "call_indirect"}
                              /\ w.code[a].next = addr

(* Each activation but the first returns into the block that called it.    *)
Returns(w, frames, top) ==
  \A i \in 1 .. top : IsFunction(w, frames[i].block) =>
    BehindCall(w, frames[i - 1].block, frames[i].ra)

(* The end of a called function resumes the caller behind the call, in the *)
(* block it left, however deep the recursion.                              *)
ReturnAddresses == Running => Returns(wasm, callstack, csp)

(* Every frame saved the base pop_block must restore: its own activation's *)
(* for a block, the caller's for a function.                               *)
SavedFps(w, frames, top) ==
  \A i \in 0 .. top :
    /\ ~IsFunction(w, frames[i].block) => frames[i].fp = ActivationFp(w, frames, i)
    /\ IsFunction(w, frames[i].block) /\ i > 0 =>
         frames[i].fp = ActivationFp(w, frames, i - 1)

(* fp is the base of the running activation, however blocks were left.     *)
FpDiscipline ==
  Running => /\ fp = ActivationFp(wasm, callstack, csp)
             /\ SavedFps(wasm, callstack, csp)

(* An instruction never pops below the operands its own activation pushed: *)
(* the handlers decrement sp and read stack[sp] without a test.            *)
NoUnderflow ==
  Running => pc \in DOMAIN wasm.height /\ sp >= OperandBase + wasm.height[pc]

(* When the exported function returns, the operand stack holds its result  *)
(* and nothing else: main() prints the top of the stack if there is one.   *)
ResultOnly ==
  status = "true" =>
    LET type == Block(BlockAt(0)).type IN
    /\ sp = Len(type.results) - 1
    /\ sp = 0 => Top.value_type = type.results[1]

(* A step writes operands of the running activation only; its parameters   *)
(* and locals change by local.set and local.tee, its caller's slots never. *)
(* The end of a function puts the result in the activation's first slot.   *)
MayWrite(i) ==
  \/ i > OperandBase
  \/ Instr.op \in {"local.set", "local.tee"} /\ i = fp + Imm
  \/ Instr.op = "end" /\ IsFunction(wasm, BlockAt(csp)) /\ i = fp

WritesStayInActivation ==
  [][Running => \A i \in Slots : stack'[i] # stack[i] => MayWrite(i)]_vars

(* Leaving a block or a loop restores the operand stack to what it was on  *)
(* entry plus the result, however many operands a branch left behind.      *)
BlockExitHeight ==
  [][Fetch("end") /\ Running' /\ Block(BlockAt(csp)).block_type \in {"block", "loop"} =>
       sp' = callstack[csp].sp + ResultCount(wasm, BlockAt(csp))]_vars

(* The same of an if: the sp that push_block saves for pop_block to        *)
(* restore is the real top of the operand stack (interpreter.c:118), which *)
(* for an if is what is below the condition it consumes.                   *)
IfExitHeight ==
  [][Fetch("end") /\ Running' /\ Block(BlockAt(csp)).block_type = "if" =>
       sp' = callstack[csp].sp - 1 + ResultCount(wasm, BlockAt(csp))]_vars

(* No branch leaves operands behind in the block it jumps out of.          *)
Tidy(w) ==
  \A a \in DOMAIN w.height :
    LET i == w.code[a]  h == w.height[a] - Pops(w, i) IN
    /\ \A d \in Depths(i) : w.height[w.block[w.labels[w.owner[a]][d]].br_addr] = h
    /\ i.op = "return" => ResultCount(w, FunctionOf(w, w.owner[a])) = h

ImportFree(w) == w.import_func_count = 0
Exact(w) == Tidy(w) /\ ImportFree(w)

(* In such a module the operand stack is exactly as high as validation     *)
(* says at every instruction.                                              *)
ExactHeight ==
  Running /\ Exact(wasm) => sp = OperandBase + wasm.height[pc]

(* pop_block's type test and the assertion in Select never fail in such a  *)
(* module.  What a branch leaves in an if takes the place of the operand   *)
(* below the result: without Tidy, code that validates does fail the test. *)
NoTypeMismatch ==
  Exact(wasm) => status # "exited" /\ exception # "call_type_mismatch"

(* A module whose branches all go forward cannot keep interpret() busy:    *)
(* every call of it returns, fails or exhausts a stack.                    *)
LoopFree(w) == \A a \in DOMAIN w.code : \A d \in Depths(w.code[a]) :
                 w.block[w.labels[w.owner[a]][d]].block_type # "loop"

Terminates == (Running /\ LoopFree(wasm)) ~> ~Running

(* callstack has CALLSTACK_SIZE frames (src/source/module.h:12).           *)
CallStackInBounds == csp < CALLSTACK_SIZE

(* Nothing is written past the end of m->stack.                            *)
OperandStackInBounds == status # "overrun"

=============================================================================
