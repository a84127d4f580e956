--------------------------- MODULE WebAssemblyStack ---------------------------
(***************************************************************************)
(* What WebAssembly promises of blocks, branches and calls: an abstract    *)
(* specification, not translated from code.  The stack is a sequence of    *)
(* entries, one for each block that was entered, the running one last.  An *)
(* entry has the operands of its own block and, if that is a function, its *)
(* parameters and locals.  There are no pointers: an instruction sees the  *)
(* operands of the innermost block and the locals of its function, and     *)
(* what other entries have is out of its reach.                            *)
(*                                                                         *)
(* Which number an instruction calculates is left open, and so is the room *)
(* there is: what takes room may fail.                                     *)
(***************************************************************************)
EXTENDS WasmModule

CONSTANTS
  Modules,          \* well-typed modules without imports
  ArgValues,        \* the numbers a user types as arguments
  Number(_),        \* the i32 in a value
  Calculated(_, _), \* what a numeric instruction makes of its operands
  MayTrap(_, _),    \* operands that a numeric instruction need not take,
  MustTrap(_, _)    \* and those that it must not take

VARIABLES
  wasm,       \* the module
  pc,         \* the address of the next instruction, 0 when nothing runs
  entries,    \* the stack
  globals,
  phase,      \* "idle", "running", or "gone" with the process
  answer      \* the results of the last invocation

vars == <<wasm, pc, entries, globals, phase, answer>>

Init ==
  /\ wasm \in Modules
  /\ pc = 0 /\ entries = <<>> /\ globals = wasm.globals
  /\ phase = "idle" /\ answer = <<>>

-----------------------------------------------------------------------------
Instr == wasm.code[pc]
Fetch(ops) == phase = "running" /\ Instr.op \in ops

Last == Len(entries)
Innermost == entries[Last]
OwnFunction == Last - wasm.nest[Innermost.block]

Lowest(s, n) == SubSeq(s, 1, n)
Without(s, n) == SubSeq(s, 1, Len(s) - n)
Topmost(s, n) == SubSeq(s, Len(s) - n + 1, Len(s))

(* The lowest n entries, the last of them with these operands.             *)
Lowered(n, operands) ==
  Append(Lowest(entries, n - 1), [entries[n] EXCEPT !.operands = operands])

(* What the instruction pops, and what is left under it.                   *)
Popped == Topmost(Innermost.operands, Pops(wasm, Instr))
Left == Without(Innermost.operands, Pops(wasm, Instr))
Rest == Lowered(Last, Left)

Entry(b, locals, address) ==
  [block |-> b, locals |-> locals, operands |-> <<>>, return_to |-> address]

FunctionEntry(f, args, address) ==
  LET b == wasm.functions[f] IN
  Entry(b, args \o [k \in 1 .. LocalCount(wasm, b) |->
                      [value_type |-> wasm.block[b].locals[k], value |-> 0]], address)

Start(f) == wasm.block[wasm.functions[f]].start_addr

-----------------------------------------------------------------------------
Results ==
  CASE Instr.op \in {"nop", "drop", "local.set", "global.set"} -> <<>>
    [] Instr.op = "const" -> <<Instr.imm>>
    [] Instr.op = "local.get" -> <<entries[OwnFunction].locals[Instr.imm + 1]>>
    [] Instr.op = "global.get" -> <<globals[Instr.imm]>>
    [] Instr.op = "local.tee" -> <<Popped[1]>>
    [] Instr.op = "select" -> <<IF Number(Popped[3]) # 0 THEN Popped[1] ELSE Popped[2]>>
    [] OTHER -> <<Calculated(Instr, Popped)>>

Compute ==
  /\ Fetch(PlainOps \ {"br_if", "call", "call_indirect"})
  /\ ~MustTrap(Instr, Popped)
  /\ entries' = [i \in DOMAIN entries |->
       [Rest[i] EXCEPT
          !.operands = IF i = Last THEN @ \o Results ELSE @,
          !.locals = IF i = OwnFunction /\ Instr.op \in {"local.set", "local.tee"}
                       THEN [@ EXCEPT ![Instr.imm + 1] = Popped[1]] ELSE @]]
  /\ globals' = IF Instr.op = "global.set" THEN [globals EXCEPT ![Instr.imm] = Popped[1]]
                                           ELSE globals
  /\ pc' = Instr.next
  /\ UNCHANGED <<wasm, phase, answer>>

Opened(b, address) == entries' = Append(Rest, Entry(b, <<>>, 0)) /\ pc' = address

Open ==
  LET b == wasm.block_lookup[pc]
      else_addr == wasm.block[b].else_addr IN
  /\ \/ Fetch({"block", "loop"}) /\ Opened(b, Instr.next)
     \/ Fetch({"if"}) /\ Number(Popped[1]) # 0 /\ Opened(b, Instr.next)
     \/ Fetch({"if"}) /\ Number(Popped[1]) = 0 /\ else_addr # 0 /\ Opened(b, else_addr)
     \/ /\ Fetch({"if"}) /\ Number(Popped[1]) = 0 /\ else_addr = 0
        /\ entries' = Rest /\ pc' = wasm.block[b].br_addr + 1
  /\ UNCHANGED <<wasm, globals, phase, answer>>

(* At the end of a block its results, and nothing else, are its operands.  *)
Fulfilled(b, operands) ==
  /\ Len(operands) = ResultCount(wasm, b)
  /\ \A k \in DOMAIN operands : operands[k].value_type = wasm.block[b].type.results[k]

End ==
  /\ Fetch({"end"})
  /\ Fulfilled(Innermost.block, Innermost.operands)
  /\ \/ /\ Last = 1
        /\ phase' = "idle" /\ answer' = Innermost.operands
        /\ entries' = <<>> /\ pc' = 0
     \/ /\ Last > 1
        /\ entries' = Lowered(Last - 1, entries[Last - 1].operands \o Innermost.operands)
        /\ pc' = IF IsFunction(wasm, Innermost.block) THEN Innermost.return_to ELSE Instr.next
        /\ UNCHANGED <<phase, answer>>
  /\ UNCHANGED <<wasm, globals>>

(* To the label of the d-th block around: the blocks inside are gone with  *)
(* all their operands but those that the label takes.                      *)
Branch(d) ==
  LET n == Last - d
      b == entries[n].block IN
  /\ entries' = Lowered(n, Topmost(Left, LabelArity(wasm, b)))
  /\ pc' = wasm.block[b].br_addr

Jump ==
  /\ \/ Fetch({"br"}) /\ Branch(Instr.imm)
     \/ Fetch({"br_if"}) /\ Number(Popped[1]) # 0 /\ Branch(Instr.imm)
     \/ Fetch({"br_if"}) /\ Number(Popped[1]) = 0 /\ entries' = Rest /\ pc' = Instr.next
     \/ /\ Fetch({"br_table"})
        /\ Branch(IF Number(Popped[1]) + 1 \in DOMAIN Instr.imm.targets
                    THEN Instr.imm.targets[Number(Popped[1]) + 1] ELSE Instr.imm.default)
     \/ Fetch({"return"}) /\ Branch(wasm.nest[Innermost.block])
     \/ /\ Fetch({"else"})
        /\ pc' = wasm.block[Innermost.block].br_addr /\ UNCHANGED entries
  /\ UNCHANGED <<wasm, globals, phase, answer>>

Called(f, args) == entries' = Append(Rest, FunctionEntry(f, args, Instr.next)) /\ pc' = Start(f)

Call ==
  /\ \/ Fetch({"call"}) /\ Called(Instr.imm, Popped)
     \/ LET index == Number(Popped[Len(Popped)])
            f == wasm.table.entries[index]
            type == wasm.block[wasm.functions[f]].type IN
        /\ Fetch({"call_indirect"})
        /\ index \in DOMAIN wasm.table.entries
        /\ type.params = wasm.types[Instr.imm].params
        /\ type.results = wasm.types[Instr.imm].results
        /\ Called(f, Without(Popped, 1))
  /\ UNCHANGED <<wasm, globals, phase, answer>>

(* What takes room or looks something up may fail, and what must.          *)
CanFail == {"unreachable", "unsupported", "block", "loop", "if", "call", "call_indirect",
            "br_table", "const", "local.get", "global.get"}

Fail ==
  /\ phase = "running"
  /\ Instr.op \in CanFail \/ MayTrap(Instr, Popped)
  /\ phase' \in {"idle", "gone"}
  /\ pc' = 0 /\ entries' = <<>> /\ answer' = <<>>
  /\ UNCHANGED <<wasm, globals>>

Invoke ==
  /\ phase = "idle" /\ answer' = <<>>
  /\ \/ phase' = "gone" /\ entries' = <<>> /\ pc' = 0
     \/ \E f \in wasm.exports :
        LET params == wasm.block[wasm.functions[f]].type.params IN
        \E args \in [1 .. Len(params) -> ArgValues] :
          /\ phase' = "running"
          /\ entries' = <<FunctionEntry(f, [k \in 1 .. Len(params) |->
                            [value_type |-> params[k], value |-> args[k]]], 0)>>
          /\ pc' = Start(f)
  /\ UNCHANGED <<wasm, globals>>

Next == Compute \/ Open \/ End \/ Jump \/ Call \/ Fail \/ Invoke

Spec == Init /\ [][Next]_vars

=============================================================================
