----------------------------- MODULE FindBlocks ------------------------------
(***************************************************************************)
(* find_blocks of src/source/module.c: one pass over the code of every     *)
(* local function that fills in the control blocks interpret() relies on.  *)
(* Each step is one turn of a loop: an instruction, with the               *)
(* skip_immediate that ends the turn, or the end of a function.            *)
(*                                                                         *)
(* The code is a map from the address of an opcode to the opcode and to    *)
(* the address skip_immediate goes on from.  load_module has checked that  *)
(* the last byte of a function is 0x0b, not that it is an instruction.     *)
(***************************************************************************)
EXTENDS WasmModule, FiniteSets

CONSTANTS
  Inputs,           \* what the code section may have made load_module record
  BLOCKSTACK_SIZE   \* entries of blockstack, 0x1000 in the code

(* An input has code and import_func_count as in WasmModule.tla, and for   *)
(* every local function its range: fidx -> [start_addr, end_addr].  Its    *)
(* code says where a loop of skip_immediate from start_addr on arrives.    *)
(* The imm of a block instruction is the byte behind the opcode.           *)
HasCode(r) == r.start_addr <= r.end_addr
Scanned(in, r) == {a \in DOMAIN in.code : r.start_addr <= a /\ a <= r.end_addr}

(* The local functions are numbered behind the imports without a gap.      *)
Numbered(in) ==
  \A g \in DOMAIN in.range :
    /\ g \in Nat /\ in.import_func_count <= g
    /\ in.import_func_count .. g \subseteq DOMAIN in.range

(* Every instruction takes a byte or more.  Else and end have no immediate *)
(* and a block instruction one byte.                                       *)
Decoded(in) ==
  /\ IsFiniteSet(DOMAIN in.code) /\ DOMAIN in.code \subseteq Nat
  /\ \A a \in DOMAIN in.code :
       LET i == in.code[a] IN
       /\ i.op \in Ops /\ i.next \in Nat /\ a < i.next
       /\ i.op \in {"else", "end"} => i.next = a + 1
       /\ i.op \in BlockOps => i.next = a + 2

(* The addresses in a range are those the loop visits.  The last byte of a *)
(* body without code was read as part of its locals.                       *)
Chained(in, r) ==
  /\ r.start_addr \in Nat /\ r.end_addr \in Nat
  /\ HasCode(r) => r.start_addr \in DOMAIN in.code
  /\ ~HasCode(r) => r.end_addr \notin DOMAIN in.code
  /\ \A a \in Scanned(in, r) :
       /\ in.code[a].next <= r.end_addr => in.code[a].next \in DOMAIN in.code
       /\ \A b \in Scanned(in, r) : a < b => in.code[a].next <= b

(* Each instruction is in the body of one function.                        *)
Separate(in) ==
  /\ \A a \in DOMAIN in.code : \E g \in DOMAIN in.range : a \in Scanned(in, in.range[g])
  /\ \A g, h \in DOMAIN in.range :
       g # h => Scanned(in, in.range[g]) \cap Scanned(in, in.range[h]) = {}

IsInput(in) ==
  /\ in.import_func_count \in Nat /\ Numbered(in) /\ Decoded(in) /\ Separate(in)
  /\ \A g \in DOMAIN in.range : Chained(in, in.range[g])

ASSUME BlockStackSizeAssumption == BLOCKSTACK_SIZE \in Nat \ {0}
ASSUME InputsAssumption == \A in \in Inputs : IsInput(in)

VARIABLES
  input,         \* the module being loaded
  f,             \* the function being scanned
  pos,           \* the instruction being scanned
  opcode,        \* the last opcode read
  blockstack,    \* the blocks opened and not closed, by their start_addr
  top,           \* index of the innermost of them
  blocks,        \* m->block_lookup: start_addr -> Block
  status         \* "scanning", "loaded", "exited" after a failed ASSERT,
                 \* "undefined" after an access outside blockstack

vars == <<input, f, pos, opcode, blockstack, top, blocks, status>>

(* get_block_type, by the byte that tells the result; any other is FATAL.  *)
BlockTypes == [void |-> <<>>, i32 |-> <<"i32">>, i64 |-> <<"i64">>]

(* acalloc returns a cleared Block.                                        *)
NewBlock(i, addr) ==
  [block_type |-> i.op, type |-> BlockTypes[i.imm],
   start_addr |-> addr, end_addr |-> 0, else_addr |-> 0, br_addr |-> 0]

Init ==
  /\ input \in Inputs
  /\ f = input.import_func_count
  /\ f \in DOMAIN input.range
  /\ pos = input.range[f].start_addr
  /\ opcode = "unreachable"
  /\ blockstack = [i \in 0 .. BLOCKSTACK_SIZE - 1 |-> 0]
  /\ top = -1
  /\ blocks = [a \in {} |-> 0]
  /\ status = "scanning"

Function == input.range[f]

Scan(ops) ==
  /\ status = "scanning"
  /\ pos <= Function.end_addr
  /\ input.code[pos].op \in ops
  /\ opcode' = input.code[pos].op

SkipImmediate == pos' = input.code[pos].next

(* A failed ASSERT ends the program; an access outside of blockstack is    *)
(* undefined in C.                                                         *)
Stop(outcome) ==
  /\ status' = outcome
  /\ UNCHANGED <<input, f, pos, blockstack, top, blocks>>

(* An operator named like the next one and longer is a fault of it that    *)
(* the runs must notice.                                                   *)
Typed == input.code[pos].imm \in DOMAIN BlockTypes

RoomLate == top + 1 <= BLOCKSTACK_SIZE
Room == top + 1 < BLOCKSTACK_SIZE

Open ==
  /\ Scan(BlockOps)
  /\ \/ ~Typed /\ Stop("exited")
     \/ Typed /\ ~Room /\ Stop("undefined")
     \/ /\ Typed /\ Room
        /\ top' = top + 1
        /\ blockstack' = [blockstack EXCEPT ![top + 1] = pos]
        /\ blocks' = [a \in DOMAIN blocks \cup {pos} |->
                        IF a = pos THEN NewBlock(input.code[pos], pos) ELSE blocks[a]]
        /\ SkipImmediate
        /\ UNCHANGED <<input, f, status>>

ElseAddr == pos + 1

Else ==
  /\ Scan({"else"})
  /\ \/ top < 0 /\ Stop("undefined")
     \/ top >= 0 /\ blocks[blockstack[top]].block_type # "if" /\ Stop("exited")
     \/ /\ top >= 0 /\ blocks[blockstack[top]].block_type = "if"
        /\ blocks' = [blocks EXCEPT ![blockstack[top]].else_addr = ElseAddr]
        /\ SkipImmediate
        /\ UNCHANGED <<input, f, blockstack, top, status>>

BrAddrOfLoopItself(block) == IF block.block_type = "loop" THEN block.start_addr ELSE pos
BrAddr(block) == IF block.block_type = "loop" THEN block.start_addr + 2 ELSE pos

Closed(block) == [block EXCEPT !.end_addr = pos, !.br_addr = BrAddr(block)]

EndsFunctionAtDepth == top < 0
EndsFunction == pos = Function.end_addr

End ==
  /\ Scan({"end"})
  /\ \/ EndsFunction /\ SkipImmediate /\ UNCHANGED <<input, f, blockstack, top, blocks, status>>
     \/ ~EndsFunction /\ top < 0 /\ Stop("exited")
     \/ /\ ~EndsFunction /\ top >= 0
        /\ blocks' = [blocks EXCEPT ![blockstack[top]] = Closed(@)]
        /\ top' = top - 1
        /\ SkipImmediate
        /\ UNCHANGED <<input, f, blockstack, status>>

OtherInstruction ==
  /\ Scan(Ops \ (BlockOps \cup {"else", "end"}))
  /\ SkipImmediate
  /\ UNCHANGED <<input, f, blockstack, top, blocks, status>>

(* The two assertions behind the inner loop, then the next function.       *)
CompleteAnyDepth == opcode = "end"
Complete == top = -1 /\ opcode = "end"

FunctionDone ==
  /\ status = "scanning"
  /\ pos > Function.end_addr
  /\ \/ ~Complete /\ status' = "exited" /\ UNCHANGED <<f, pos>>
     \/ /\ Complete
        /\ f' = f + 1
        /\ \/ /\ f + 1 \in DOMAIN input.range
              /\ pos' = input.range[f + 1].start_addr
              /\ UNCHANGED status
           \/ /\ f + 1 \notin DOMAIN input.range
              /\ status' = "loaded"
              /\ UNCHANGED pos
  /\ UNCHANGED <<input, opcode, blockstack, top, blocks>>

Next == Open \/ Else \/ End \/ OtherInstruction \/ FunctionDone

Spec == Init /\ [][Next]_vars

-----------------------------------------------------------------------------
(***************************************************************************)
(* What the pass is for, against a reference that does not scan: an opener *)
(* belongs to the first end that balances it.                              *)
(***************************************************************************)
With(in, ops, lo, hi) == {a \in DOMAIN in.code : lo <= a /\ a < hi /\ in.code[a].op \in ops}
Excess(in, lo, hi) == Cardinality(With(in, BlockOps, lo, hi)) - Cardinality(With(in, {"end"}, lo, hi))

(* The blocks of a function around the instruction at addr; an else or an  *)
(* end is in the block it belongs to.                                      *)
OpenAt(in, r, addr) ==
  {a \in With(in, BlockOps, r.start_addr, addr) :
     \A e \in With(in, {"end"}, a, addr) : Excess(in, a, e + 1) > 0}

Innermost(addrs) == CHOOSE a \in addrs : \A b \in addrs : b <= a

(* What the format asks of the instruction at a, and of a body; find_blocks*)
(* takes an if with several else.                                          *)
Placed(in, r, a) ==
  /\ Excess(in, r.start_addr, a) >= 0
  /\ in.code[a].op \in BlockOps => in.code[a].imm \in DOMAIN BlockTypes
  /\ in.code[a].op = "else" =>
        /\ OpenAt(in, r, a) # {}
        /\ in.code[Innermost(OpenAt(in, r, a))].op = "if"

Balanced(in, r) ==
  /\ r.end_addr \in DOMAIN in.code /\ in.code[r.end_addr].op = "end"
  /\ Excess(in, r.start_addr, r.end_addr) = 0
  /\ \A a \in Scanned(in, r) : Placed(in, r, a)

(***************************************************************************)
(* The module find_blocks made of its input, with the derivation that      *)
(* interpret() presumes (WasmModule.tla).                                  *)
(***************************************************************************)
FuncBlock(g) == -(g + 1)

(* The function whose body has the instruction at addr.                    *)
FunctionAt(in, addr) == CHOOSE g \in DOMAIN in.range : addr \in Scanned(in, in.range[g])
OpenAround(in, addr) == OpenAt(in, in.range[FunctionAt(in, addr)], addr)

(* The blocks around the body of block b, itself included, and the one     *)
(* that a branch of depth k in there leaves.                               *)
Around(in, b) == OpenAround(in, b) \cup {b}
Label(in, b, k) ==
  IF k = Cardinality(Around(in, b)) THEN FuncBlock(FunctionAt(in, b))
  ELSE CHOOSE a \in Around(in, b) : Cardinality({c \in Around(in, b) : c > a}) = k

FunctionBlock(r) ==
  [block_type |-> "function", type |-> [params |-> <<>>, results |-> <<>>, mask |-> 0],
   locals |-> <<>>, start_addr |-> r.start_addr, else_addr |-> 0,
   end_addr |-> r.end_addr, br_addr |-> r.end_addr]

ControlBlock(block) ==
  [block_type |-> block.block_type, locals |-> <<>>,
   type |-> [params |-> <<>>, results |-> block.type, mask |-> 0],
   start_addr |-> block.start_addr, else_addr |-> block.else_addr,
   end_addr |-> block.end_addr, br_addr |-> block.br_addr]

(* An imported function has no addresses.                                  *)
LoadedModule ==
  LET local == {FuncBlock(g) : g \in DOMAIN input.range}
      imported == {FuncBlock(g) : g \in 0 .. input.import_func_count - 1}
      labelled == local \cup DOMAIN blocks
  IN [code |-> input.code,
      block |-> [b \in labelled \cup imported |->
                   CASE b \in local -> FunctionBlock(input.range[-b - 1])
                     [] b \in imported -> FunctionBlock([start_addr |-> 0, end_addr |-> 0])
                     [] OTHER -> ControlBlock(blocks[b])],
      block_lookup |-> [b \in DOMAIN blocks |-> b],
      functions |-> [g \in 0 .. input.import_func_count - 1 \cup DOMAIN input.range |->
                       FuncBlock(g)],
      import_func_count |-> input.import_func_count,
      table |-> [cur_size |-> 0, max_size |-> 0, entries |-> [i \in {} |-> 0]],
      exports |-> {},
      nest |-> [b \in labelled |-> IF b \in local THEN 0 ELSE Cardinality(Around(input, b))],
      owner |-> [a \in DOMAIN input.code |->
                  IF OpenAround(input, a) = {} THEN FuncBlock(FunctionAt(input, a))
                  ELSE Innermost(OpenAround(input, a))],
      labels |-> [b \in labelled |->
                   IF b \in local THEN [k \in {0} |-> b]
                   ELSE [k \in 0 .. Cardinality(Around(input, b)) |-> Label(input, b, k)]]]

(* Nothing checks that branches and calls have a target; of a valid module *)
(* they do.                                                                *)
Targeted ==
  \A a \in DOMAIN input.code :
    /\ Depths(input.code[a]) \subseteq 0 .. Cardinality(OpenAround(input, a))
    /\ input.code[a].op = "call" => input.code[a].imm \in DOMAIN LoadedModule.functions

-----------------------------------------------------------------------------
(* Type invariant of the pass.                                             *)
TypeOK ==
  /\ f \in Nat /\ pos \in Nat /\ opcode \in Ops
  /\ blockstack \in [0 .. BLOCKSTACK_SIZE - 1 -> Nat]
  /\ top \in -1 .. BLOCKSTACK_SIZE - 1
  /\ DOMAIN blocks \subseteq DOMAIN input.code
  /\ \A a \in DOMAIN blocks : blocks[a] \in
       [block_type : BlockOps, type : Seq(ValueType),
        start_addr : Nat, end_addr : Nat, else_addr : Nat, br_addr : Nat]
  /\ status \in {"scanning", "loaded", "exited", "undefined"}

(* blockstack[0..top] is the blocks open around pos, outermost first,      *)
(* whatever earlier blocks and functions left in the array.                *)
StackHoldsOpenBlocks ==
  status = "scanning" /\ pos <= Function.end_addr =>
    /\ {blockstack[i] : i \in 0 .. top} = OpenAt(input, Function, pos)
    /\ \A i, j \in 0 .. top : i < j => blockstack[i] < blockstack[j]

(* The assertions of find_blocks stop exactly the modules with a body that *)
(* is not balanced, as far as blockstack is deep enough to tell.           *)
AcceptsExactlyBalanced ==
  /\ status = "loaded" => \A g \in DOMAIN input.range :
       HasCode(input.range[g]) => Balanced(input, input.range[g])
  /\ status = "exited" => ~Balanced(input, Function)
  /\ status = "undefined" =>
       \/ top + 1 = BLOCKSTACK_SIZE
       \/ top = -1 /\ ~Balanced(input, Function)

(* The blocks found have the addresses that the nesting of the code gives  *)
(* them: NestingAssumption of Interpreter.tla, which interpret() relies on *)
(* without a check, is what find_blocks establishes.                       *)
LoadedIsWellNested ==
  status = "loaded" /\ (\A g \in DOMAIN input.range : HasCode(input.range[g])) /\ Targeted =>
    WellNested(LoadedModule)

(* "Function block did not end with 0xb", module.c:205: no function is     *)
(* loaded whose last instruction is not an end.                            *)
LoadedFunctionsEnd ==
  status = "loaded" => \A g \in DOMAIN input.range :
    LET a == input.range[g].end_addr IN
    a \in Scanned(input, input.range[g]) /\ input.code[a].op = "end"

=============================================================================
