----------------------------- MODULE WasmModule -----------------------------
(***************************************************************************)
(* The part of struct Module that load_module fills in once and interpret  *)
(* only reads (src/source/module.h): the instructions, the control blocks  *)
(* found by find_blocks, the functions, the types and the table.           *)
(*                                                                         *)
(* A module is a record w:                                                 *)
(*   w.code          instruction address -> [op, imm, next]; next is the   *)
(*                   address after the opcode and its immediates           *)
(*   w.block         block pointer -> Block record                         *)
(*   w.block_lookup  address of a block/loop/if opcode -> block pointer    *)
(*   w.functions     function index -> block pointer (imports first)       *)
(*   w.import_func_count, w.types, w.table, w.globals, w.exports           *)
(*   w.residue       the value the last initialiser expression run by      *)
(*                   load_module left in stack slot 0                      *)
(*                                                                         *)
(* Five further fields are not in the C program.  They are the typing      *)
(* derivation that WebAssembly validation computes; the interpreter's      *)
(* README limits it to .wat files compiled by a validating tool.           *)
(*   w.nest          block -> number of blocks around it in its function   *)
(*   w.owner         address -> innermost block around the instruction     *)
(*   w.labels        block -> (depth -> block), its stack of labels        *)
(*   w.height        address of a reachable instruction -> operands the    *)
(*                   activation has pushed when the instruction is fetched *)
(*   w.operands      the same -> the types of these operands               *)
(***************************************************************************)
EXTENDS Integers, Sequences

ValueType == {"i32", "i64"}

(* A slot of the operand stack or a global.  "none" is the value_type 0 of *)
(* memory that came from calloc and was never written.                     *)
StackValue == [value_type : ValueType \cup {"none"}, value : Nat]
ZeroSlot == [value_type |-> "none", value |-> 0]

(* A signature; mask is what get_type_mask computed for it.                *)
FuncType == [params : Seq(ValueType), results : Seq(ValueType), mask : Nat]

(* block_type 0x00, 0x02, 0x03, 0x04 of struct Block.                      *)
BlockType == {"function", "block", "loop", "if"}

ParamCount(w, b) == Len(w.block[b].type.params)
ResultCount(w, b) == Len(w.block[b].type.results)
LocalCount(w, b) == Len(w.block[b].locals)

(* Parameters and locals: what setup_call leaves on the operand stack.     *)
SlotCount(w, b) == ParamCount(w, b) + LocalCount(w, b)
SlotType(w, b, j) ==
  IF j < ParamCount(w, b) THEN w.block[b].type.params[j + 1]
                          ELSE w.block[b].locals[j - ParamCount(w, b) + 1]

IsFunction(w, b) == w.block[b].block_type = "function"

(* The function a block belongs to, and the block it was opened in.        *)
FunctionOf(w, b) == w.labels[b][w.nest[b]]
Parent(w, b) == w.owner[w.block[b].start_addr]

(***************************************************************************)
(* Instructions by what they do to the flow of control.                    *)
(***************************************************************************)
BlockOps == {"block", "loop", "if"}
JumpOps == {"unreachable", "unsupported", "br", "br_table", "return"}
PlainOps == {"nop", "drop", "select", "local.get", "local.set", "local.tee",
             "global.get", "global.set", "const", "eqz", "compare", "arith",
             "count", "convert", "call", "call_indirect", "br_if"}
Ops == BlockOps \cup JumpOps \cup PlainOps \cup {"else", "end"}

(* The label depths a branch instruction can be told to go to.             *)
Depths(i) == CASE i.op \in {"br", "br_if"} -> {i.imm}
               [] i.op = "br_table" -> {i.imm.default} \cup
                                       {i.imm.targets[n] : n \in DOMAIN i.imm.targets}
               [] OTHER -> {}

(***************************************************************************)
(* WellNested(w): the addresses find_blocks and load_module computed agree *)
(* with the block structure of the code.                                   *)
(***************************************************************************)
NestedBlock(w, b) ==
  LET blk == w.block[b] IN
  /\ w.nest[b] \in Nat
  /\ w.labels[b] \in [0 .. w.nest[b] -> DOMAIN w.labels]
  /\ w.labels[b][0] = b
  /\ \A k \in 0 .. w.nest[b] : w.nest[w.labels[b][k]] = w.nest[b] - k
  /\ IsFunction(w, b) <=> w.nest[b] = 0
  /\ ~IsFunction(w, b) =>
        LET p == Parent(w, b) IN
        /\ p \in DOMAIN w.labels
        /\ w.nest[b] = w.nest[p] + 1
        /\ \A k \in 0 .. w.nest[p] : w.labels[b][k + 1] = w.labels[p][k]
  /\ {blk.end_addr, blk.br_addr} \subseteq DOMAIN w.code
  /\ w.owner[blk.end_addr] = b
  /\ w.owner[blk.br_addr] = b
  /\ w.code[blk.end_addr].op = "end"
  /\ IsFunction(w, b) => /\ blk.start_addr \in DOMAIN w.code
                         /\ w.owner[blk.start_addr] = b
  /\ blk.block_type # "loop" => blk.br_addr = blk.end_addr
  /\ blk.else_addr # 0 => /\ blk.else_addr \in DOMAIN w.code
                          /\ w.owner[blk.else_addr] = b

NestedInstr(w, a) ==
  LET i == w.code[a]  b == w.owner[a] IN
  /\ i.op \in Ops
  /\ a \in Nat /\ i.next \in Nat
  /\ b \in DOMAIN w.labels
  /\ i.op \in PlainOps \cup JumpOps =>
        i.next \in DOMAIN w.code /\ w.owner[i.next] = b
  /\ i.op \in BlockOps =>
        /\ a \in DOMAIN w.block_lookup
        /\ w.block_lookup[a] \in DOMAIN w.labels
        /\ w.block[w.block_lookup[a]].block_type = i.op
        /\ w.block[w.block_lookup[a]].start_addr = a
        /\ i.next \in DOMAIN w.code
        /\ w.owner[i.next] = w.block_lookup[a]
  /\ i.op = "end" =>
        /\ w.block[b].end_addr = a
        /\ ~IsFunction(w, b) =>
              i.next = a + 1 /\ i.next \in DOMAIN w.code /\ w.owner[i.next] = Parent(w, b)
  /\ \A d \in Depths(i) : d \in 0 .. w.nest[b]
  /\ i.op = "call" => i.imm \in DOMAIN w.functions

WellNested(w) ==
  /\ DOMAIN w.labels \subseteq DOMAIN w.block
  /\ \A b \in DOMAIN w.block : /\ w.block[b].block_type \in BlockType
                               /\ w.block[b].type \in FuncType
                               /\ w.block[b].locals \in Seq(ValueType)
  /\ \A b \in DOMAIN w.labels : NestedBlock(w, b)
  /\ \A a \in DOMAIN w.code : NestedInstr(w, a)
  /\ w.import_func_count \in Nat
  /\ \A f \in DOMAIN w.functions :
        /\ f \in Nat
        /\ w.functions[f] \in DOMAIN w.block
        /\ f >= w.import_func_count => /\ w.functions[f] \in DOMAIN w.labels
                                       /\ IsFunction(w, w.functions[f])
  /\ w.table.max_size \in Nat
  /\ w.table.entries \in [0 .. w.table.cur_size - 1 -> DOMAIN w.functions]
  /\ \A f \in w.exports : f \in DOMAIN w.functions /\ f >= w.import_func_count

(***************************************************************************)
(* WellTyped(w): operands agree with w.height and w.operands, as validation *)
(* guarantees.  Two conditions are stronger than validation and say what   *)
(* the interpreter relies on: equal masks come from equal signatures,      *)
(* which get_type_mask cannot keep up beyond 14 parameters, and an         *)
(* imported function takes at least as many operands as it returns,        *)
(* because a call of one is skipped (TODO at src/source/interpreter.c:382).*)
(***************************************************************************)
Pops(w, i) ==
  CASE i.op \in {"drop", "local.set", "local.tee", "global.set", "eqz",
                 "count", "convert", "br_if", "br_table", "if"} -> 1
    [] i.op \in {"compare", "arith"} -> 2
    [] i.op = "select" -> 3
    [] i.op = "call" -> ParamCount(w, w.functions[i.imm])
    [] i.op = "call_indirect" -> 1 + Len(w.types[i.imm].params)
    [] OTHER -> 0

Pushes(w, i) ==
  CASE i.op \in {"select", "local.get", "local.tee", "global.get", "const",
                 "eqz", "compare", "arith", "count", "convert"} -> 1
    [] i.op = "call" -> ResultCount(w, w.functions[i.imm])
    [] i.op = "call_indirect" -> Len(w.types[i.imm].results)
    [] OTHER -> 0

(* Operands below a block that belong to the code around it.               *)
EntryHeight(w, b) ==
  IF IsFunction(w, b) THEN 0 ELSE w.height[w.code[w.block[b].start_addr].next]

LabelArity(w, b) == IF w.block[b].block_type = "loop" THEN 0 ELSE ResultCount(w, b)

(* The instruction at a is reachable with h operands pushed.               *)
Reached(w, a, h) == a \in DOMAIN w.height /\ w.height[a] = h

TypedIf(w, b, h) ==
  IF w.block[b].else_addr = 0
    THEN /\ ResultCount(w, b) = 0
         /\ Reached(w, w.block[b].br_addr + 1, h)
    ELSE Reached(w, w.block[b].else_addr, h)

Callable(w, f, type) ==
  IF f < w.import_func_count
    THEN Len(type.results) <= Len(type.params)
    ELSE w.block[w.functions[f]].type.mask = type.mask =>
           /\ w.block[w.functions[f]].type.params = type.params
           /\ w.block[w.functions[f]].type.results = type.results

TypedInstr(w, a) ==
  LET i == w.code[a]
      b == w.owner[a]
      f == FunctionOf(w, b)
      h == w.height[a] - Pops(w, i) IN
  /\ w.height[a] \in Nat /\ h \in Nat
  /\ EntryHeight(w, b) <= h     \* what lies below a block is not for it to take
  /\ i.op \in PlainOps => Reached(w, i.next, h + Pushes(w, i))
  /\ i.op \in BlockOps => Reached(w, i.next, h)
  /\ i.op = "if" => TypedIf(w, w.block_lookup[a], h)
  /\ i.op = "else" => Reached(w, w.block[b].br_addr, h)
  /\ i.op = "end" => /\ h = EntryHeight(w, b) + ResultCount(w, b)
                     /\ ~IsFunction(w, b) => Reached(w, i.next, h)
  /\ \A d \in Depths(i) :
        LET c == w.labels[b][d]
            target == w.block[c].br_addr IN
        /\ Reached(w, target, EntryHeight(w, c) + LabelArity(w, c))
        /\ w.height[target] <= h
        /\ EntryHeight(w, b) + LabelArity(w, c) <= h
  /\ i.op = "return" => /\ Reached(w, w.block[f].end_addr, ResultCount(w, f))
                        /\ EntryHeight(w, b) + ResultCount(w, f) <= h
  /\ i.op \in {"local.get", "local.set", "local.tee"} =>
        i.imm \in 0 .. SlotCount(w, f) - 1
  /\ i.op \in {"global.get", "global.set"} => i.imm \in DOMAIN w.globals
  /\ i.op = "const" => i.imm \in StackValue
  /\ i.op = "call" => Callable(w, i.imm, w.block[w.functions[i.imm]].type)
  /\ i.op = "call_indirect" =>
        /\ i.imm \in DOMAIN w.types
        /\ w.types[i.imm] \in FuncType
        /\ \A g \in DOMAIN w.functions : Callable(w, g, w.types[i.imm])

(* Instruction i of function f finds n operands of the types t: what it    *)
(* accepts, and the type of what it gives.                                 *)
EndsIn(t, n, types) == \A k \in 1 .. Len(types) : t[n - Len(types) + k] = types[k]

ConvertedFrom(i) == CASE i.imm.op = "wrap" -> "i64"
                      [] i.imm.op \in {"extend_u", "extend_s"} -> "i32"
                      [] OTHER -> i.imm.type
ConvertedTo(i) == CASE i.imm.op = "wrap" -> "i32"
                    [] i.imm.op \in {"extend_u", "extend_s"} -> "i64"
                    [] OTHER -> i.imm.type

Accepts(w, f, i, t, n) ==
  CASE i.op \in {"if", "br_if", "br_table"} -> t[n] = "i32"
    [] i.op = "select" -> t[n] = "i32" /\ t[n - 1] = t[n - 2]
    [] i.op \in {"local.set", "local.tee"} -> t[n] = SlotType(w, f, i.imm)
    [] i.op = "global.set" -> t[n] = w.globals[i.imm].value_type
    [] i.op = "eqz" -> t[n] = i.imm
    [] i.op = "count" -> t[n] = i.imm.type
    [] i.op \in {"compare", "arith"} -> t[n - 1] = i.imm.type /\ t[n] = i.imm.type
    [] i.op = "convert" -> t[n] = ConvertedFrom(i)
    [] i.op = "call" -> EndsIn(t, n, w.block[w.functions[i.imm]].type.params)
    [] i.op = "call_indirect" -> t[n] = "i32" /\ EndsIn(t, n - 1, w.types[i.imm].params)
    [] OTHER -> TRUE

Given(w, f, i, t, n) ==
  CASE i.op \in {"eqz", "compare"} -> "i32"
    [] i.op \in {"arith", "count"} -> i.imm.type
    [] i.op = "convert" -> ConvertedTo(i)
    [] i.op = "const" -> i.imm.value_type
    [] i.op \in {"local.get", "local.tee"} -> SlotType(w, f, i.imm)
    [] i.op = "global.get" -> w.globals[i.imm].value_type
    [] i.op = "select" -> t[n - 2]
    [] i.op = "call" -> w.block[w.functions[i.imm]].type.results[1]
    [] i.op = "call_indirect" -> w.types[i.imm].results[1]

(* The lowest k of the operands t are there at addr as well.               *)
Keeps(w, addr, t, k) == \A j \in 1 .. k : w.operands[addr][j] = t[j]

OperandTypes(w, a) ==
  LET i == w.code[a]
      b == w.owner[a]
      f == FunctionOf(w, b)
      t == w.operands[a]
      n == w.height[a]
      h == n - Pops(w, i) IN
  /\ t \in [1 .. n -> ValueType]
  /\ Accepts(w, f, i, t, n)
  /\ i.op \in PlainOps =>
        /\ Keeps(w, i.next, t, h)
        /\ Pushes(w, i) = 1 => w.operands[i.next][h + 1] = Given(w, f, i, t, n)
  /\ i.op \in BlockOps => Keeps(w, i.next, t, h)
  /\ i.op = "if" =>
        LET blk == w.block[w.block_lookup[a]] IN
        Keeps(w, IF blk.else_addr = 0 THEN blk.br_addr + 1 ELSE blk.else_addr, t, h)
  /\ i.op = "else" => Keeps(w, w.block[b].br_addr, t, h)
  /\ i.op = "end" => /\ ResultCount(w, b) = 1 => t[n] = w.block[b].type.results[1]
                     /\ ~IsFunction(w, b) => Keeps(w, i.next, t, n)
  /\ \A d \in Depths(i) :
        LET c == w.labels[b][d]
            target == w.block[c].br_addr
            below == w.height[target] - LabelArity(w, c) IN
        /\ Keeps(w, target, t, below)
        /\ \A j \in 1 .. LabelArity(w, c) :
             w.operands[target][below + j] = t[h - LabelArity(w, c) + j]
  /\ i.op = "return" =>
        \A j \in 1 .. ResultCount(w, f) :
          w.operands[w.block[f].end_addr][j] = t[h - ResultCount(w, f) + j]

WellTyped(w) ==
  /\ DOMAIN w.height \subseteq DOMAIN w.code
  /\ \A a \in DOMAIN w.height : TypedInstr(w, a) /\ OperandTypes(w, a)
  /\ \A b \in DOMAIN w.labels :
        /\ ResultCount(w, b) <= 1
        /\ IsFunction(w, b) => Reached(w, w.block[b].start_addr, 0)
  /\ w.globals \in [DOMAIN w.globals -> StackValue]
  /\ w.residue \in StackValue

=============================================================================
