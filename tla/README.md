# A specification of wasmc

wasmc is a WebAssembly interpreter in C (`src/source/`, about 3,700 lines). This
directory holds TLA+ modules translated from that code, TLC runs that check them
on small instances, and TLAPS proofs of what matters most for modules and stacks
of every size.

## 1. The system

| component | code | state | operations |
|---|---|---|---|
| module representation | `module.h`, `opcode.h` | `struct Module`: bytes, types, functions, blocks, `block_lookup`, table, memory, globals, exports | read by everything else |
| section decoding | `module.c` `load_module` | fills in `struct Module` from the file | one case per section; limits; initialiser expressions (which run the VM); the start function |
| block discovery | `module.c` `find_blocks`, `skip_immediate` | `blockstack`, `top`, `opcode`, the blocks | one pass over the code of each local function |
| virtual machine | `interpreter.c` | `pc`, `sp`, `fp`, `stack`, `csp`, `callstack`, `br_table`, globals, the static `exception` buffer | `push_block`, `pop_block`, `setup_call`, `invoke`, `interpret` with a case per opcode |
| integer instructions | `interpreter.c`, `utils.c` | operand stack | tests, comparisons, arithmetic, bit counts, shifts, width changes |
| float instructions | `interpreter.c`, `utils.c` | operand stack | arithmetic, rounding, conversions |
| memory instructions | `interpreter.c` | `memory.bytes`, `cur_size` | loads, stores, `memory.size`, `memory.grow` |
| utilities | `utils.c` | none | LEB128, type masks, block types, allocation, export lookup, argument parsing, `dlsym` |
| session | `cli.c` | the module, for the life of the process | read a line, reset three indexes, look up an export, push arguments, invoke, print |

How they interact: `main` loads a module once. `load_module` calls `find_blocks`
after the last section, and calls back into the virtual machine for initialiser
expressions (`run_init_expr`) and the start function (`invoke`). From then on
`main` alternates between reading a line and `invoke`, which runs `interpret`
until the frame of the exported function is popped, or an instruction fails. All
of it is one thread; the components share `struct Module` and nothing in it is
ever erased between invocations: a reset means `sp = fp = csp = -1`.

Hard behaviours, in a program without concurrency:

* **Untested assumptions between passes.** `interpret` never validates. `br`,
  `return`, `else` and `end` index the call stack by what `find_blocks` computed
  and by what a validator would have promised.
* **Frames skipped.** A branch or a return decrements `csp`; the `sp` and `fp`
  that the discarded frames saved are never restored. Only the frame it lands on
  restores them, maybe much later.
* **Stale contents.** Slots above `sp`, frames above `csp`, `blockstack` and
  `opcode` in `find_blocks` and the `exception` buffer keep what was there.
* **Limits.** Three fixed arrays, one guard (`csp`), checked at some of the
  places that push.
* **Numbers.** Two widths, casts, shifts, `0x80000000`; sums and products of
  32-bit page counts; bounds of truncations that are themselves rounded.
* **Index spaces.** Sections refer to each other by index, some before what they
  refer to is read, and imports come first in every space: each section has to
  add them, or not.
* **Trust in the file.** No address, segment or length is compared with what was
  allocated for it.

What makes each component correct: the VM's call stack mirrors the block
structure of the code around `pc`; each activation keeps to its own part of the
operand stack; a block is left with the height it was entered with plus its
result; a call leaves its result only; limits are errors, not overruns. Block
discovery accepts exactly the balanced bodies and computes the addresses the VM
presumes. Integer and float instructions compute what WebAssembly defines. Memory
reads what was last written and grows by zeros. A number is decoded to what its
bytes stand for. The loader builds the instance WebAssembly specifies, in an order
in which each part finds what it depends on, and runs the start function on the
whole of it. The hazards are listed one by one,
with their lines, in `PROJECT.json`.

## 2. The modules

| module | stands for |
|---|---|
| `WasmModule` | what `load_module` fills in and `interpret` only reads; `WellNested`, `WellTyped` |
| `Numbers` | the integer instructions as functions of their operands |
| `Interpreter` (extends both) | the virtual machine; `InvokeExport` is one round of `main` |
| `InterpreterProperties` | its type invariant, safety, action and liveness properties |
| `InterpreterProofs` (extends it and `NumbersProofs`) | theorems about the call stack, the operand stack, the types of operands and of variables |
| `WebAssemblyStack` | abstract specification: a stack of blocks, each with its operands, not translated from code |
| `StackRefinement` (extends `InterpreterProperties`) | the refinement mapping to it, `ImplementsStack` |
| `StackProofs` (extends it and `InterpreterProofs`) | the refinement as a theorem |
| `IntegerSemantics` (extends `Numbers`) | one integer instruction, and WebAssembly's definition of it |
| `FloatSemantics` (extends `IntegerSemantics`) | truncations, conversions, min, max and signs of floats, and WebAssembly's definitions |
| `NumbersProofs` | lemmas on powers, division and bits of numbers of any width |
| `SemanticsProofs` (extends `FloatSemantics`, `NumbersProofs`) | theorems: the instructions on numbers are WebAssembly's |
| `FindBlocks` (extends `WasmModule`) | `find_blocks` with `skip_immediate` |
| `FindBlocksProofs` | theorems about it |
| `Leb128`, `Leb128Proofs` | `read_LEB`, its properties; theorems |
| `TypeMask` | `get_type_mask`; when masks tell types apart |
| `MemoryType` | `parse_memory_type` and the allocation of `load_module` |
| `LinearMemory` (extends `MemoryType`) | the memory instructions and their invariants |
| `WebAssemblyMemory` | abstract specification: a memory of pages, not translated from code |
| `LawfulMemory` (extends `LinearMemory`) | history variables and the refinement of `WebAssemblyMemory` |
| `LinearMemoryProofs` | theorems about the memory, the refinement included |
| `Loader` (extends `MemoryType`, `TypeMask`) | `load_module` with `run_init_expr` |
| `LoaderProperties`, `LoaderProofs` | the instance a binary specifies, properties; theorems, those on masks included |
| `Assembler` | readable programs to `WasmModule` records, for TLC only |
| `MCInterpreter`, `MCPrograms`, `MCFindBlocks`, `MCNumbers`, `MCMemory`, `MCLeb128`, `MCLoader` | instances for TLC |

### Interpreter

Variables are the fields of `struct Module` under their own names; `status` is
what `interpret` returned or how the process ended and `exception` the message
buffer. Each step is one turn of the loop in `interpret`: there is one action per
opcode, or per family that the code handles in one `case` (`Compare`, `Arith`,
`Count`, `Convert`). `PushBlock`, `SetupCall` and `PoppedSp` are `push_block`,
`setup_call` and the middle part of `pop_block`. `InvokeExport` is the rest of
the program: reset, `get_export`, `parse_args`, `invoke`. It is enabled whenever
the machine is not running, so sequences of calls, also after failures, on the
same stack and globals are behaviours of the model.

Three kinds of undefined behaviour are modelled by what follows from them:

* a write past `stack` and a read past `table.entries` end a behaviour in the
  status `overrun` or `overread`, of which nothing more is said;
* `callstack[CALLSTACK_SIZE]`, which the guards do let the code use, lies over
  the start of `br_table`, the next field of `struct Module`. It works as a frame
  until a `br_table` instruction writes there: the frame is then lost. A jump to
  it (depth 0) is undefined (`overrun`); a jump further out drops it, and what
  was overwritten is never read;
* the least number divided by -1, where no test catches it, either kills the
  process or wraps, as processors differ. Shift counts of the width and more are
  taken modulo the width, as the shift instructions of x86-64 and ARM64 do.

`WasmModule` has five fields the program has not: `nest`, `owner`, `labels`,
`height` and `operands`, the last with the type of each operand at each reachable
instruction. They are the typing derivation of validation. wasmc does not validate;
its README restricts it to files compiled from wat, by a tool that does.
`WellNested` and `WellTyped` say what the interpreter takes for granted, and
`Interpreter` assumes them of its constant `Modules`. Two conditions of `WellTyped`
are stronger than validation and are there because of the code: equal type masks
mean equal signatures (`get_type_mask` keeps this for 14 parameters: `MaskIdentifiesType`), and an
imported function has no more results than parameters (calls of imports are
skipped, `interpreter.c:382`). That a label is at most as high as the branch to
it, and a block's entry as what is inside, is part of validation: no instruction
reaches below the operands of its own block.

Abstractions: an instruction is `[op, imm, next]` with decoded immediates. A
slot holds a type tag and one number. The upper half that an i32 write leaves in
the union is not kept: every i32 instruction reads the lower half, and this is
what `Operand` does. Widths are the constant `BITS`. Float and memory
instructions have modules of their own (`unsupported` is an opcode outside of
WebAssembly, for the `default` case).

### WebAssemblyStack and StackRefinement

`WebAssemblyStack` is the machine as the WebAssembly specification has it: a
sequence of entries, one for each block that was entered, with the operands of this
block and, for a function, its parameters and locals. It has no `sp`, `fp`, `csp`
or saved copies of them, and a branch replaces the entries it leaves by the operands
its label takes. So it says by its shape what the C code has to achieve with
three indexes and one shared array: an instruction sees the operands of its own block
and the locals of its own function, and the rest stays as it is. Which number is
calculated is a parameter (`Calculated`), and so are the operands that make it fail:
`MustTrap` are the traps of the code, `MayTrap` has in addition the division that may
kill the process. How much room there is, is left open, too: what takes room or looks
something up may fail.

`StackRefinement` reads the entries off the arrays. The part of frame i begins at the
`sp` its function saved, for a block where its operands begin (`Floor`: the saved `sp`,
for an `if` without the condition), and reaches to where the part of the next frame
begins, or to `sp`. `pc` is 0 when nothing runs; a failed invocation leaves an empty
stack and no answer, one that returns its result. `ImplementsStack` is claimed where
`Exact` holds: no branch leaves operands behind, nothing is imported. Elsewhere it
is wrong, for the reasons at the end of section 3.

### FindBlocks

A step is one turn of the inner loop, with the `skip_immediate` that ends it, or
the end of a function. The code is given as the map from addresses to
instructions at which a pass from `start_addr` arrives; decoding immediates is
the subject of `Leb128`. Inputs are what `load_module` can have recorded:
the last byte of each function is `0x0b`, not necessarily an instruction, and the
range may be empty. `InputsAssumption` says so: each instruction takes a byte or
more, those of a range are the ones the loop arrives at, and each is in one
function. `LoadedModule` turns the result into a `WasmModule` record,
so that `LoadedIsWellNested` is the very predicate that `Interpreter` assumes; that
branches and calls have a target (`Targeted`) is its hypothesis, as nothing in
wasmc looks.

### Numbers and IntegerSemantics

`Numbers` follows the C expressions: casts (`Signed`, `Unsigned`), truncating
division, masked shifts, rotations out of shifts. `IntegerSemantics` chooses an
instruction and operands, executes it, and compares with definitions that use
none of `Numbers`: bit by bit, or by `CHOOSE` of the number that has the property.

### FloatSemantics

A step of the same machine, for the instructions on floats in which wasmc adds
something to C. Floats are a sign and a magnitude in units of the finer format,
with infinity and one NaN; the significand's bits and the range of exponents are
constants for each format. What C does (casts, rounding to nearest, `fmax`,
`fmin`) is modelled from its standard and marked as external; where C leaves the
result open, as for `fmax` of two zeros, the model has both. `RMin` and `RMax` are
the literals of `utils.h` as functions of the widths. That is a reading of 16
literals: for the widths of C, `-2147483904` is `-(2^31 + 2^(32-24))`,
`-9223373136366403584` is `-(2^63 + 2^(64-24))`, `-9223372036854777856` is
`-(2^63 + 2^(64-53))`, and the others are one below the least integer.

### LinearMemory, LawfulMemory, WebAssemblyMemory

`memory` has the bytes that are really allocated: `load_module` asks `calloc` for
four bytes for each byte of the pages (the element size is that of `uint32_t`),
`memory.grow` reallocates to exactly the pages. An access outside of the bytes
ends the behaviour in `wild`; one behind the last page but inside the allocation
works, as it does in the program. A step is one instruction with what it pops.
An instruction's answer replaces the operand stack.

`WebAssemblyMemory` says what a memory promises: a load answers the bytes last
stored, extended; growth appends zeros; the size counts pages. It promises
nothing (`kept` is FALSE) once a program has done what WebAssembly answers with
a trap or with -1, since wasmc has neither. `LawfulMemory` records the
instruction and whether that has happened, and maps the allocated bytes to those
of the pages.

### Leb128 and TypeMask

One step of `Leb128` is one turn of the loop of `read_LEB`, on a byte chosen from
`Payloads`. Results are sets of bits, so widths of 64 bits cost nothing. Two
shifts are undefined in C - of the byte too many of a 64-bit number, and of the
`int` 1 by 32 and more in the sign extension - and modelled by what shift
instructions do. `Number` is the number the bytes stand for, `Permitted` the
limits WebAssembly has on length and unused bits. A mask of `TypeMask` is its
nibbles.

### Loader

The input is a sequence of sections with their items decoded; that the bytes are
decoded right is `Leb128`'s part. There is one action per section, and one per
item where items depend on what is loaded before them (imports, globals, exports,
elements, code, data). Function indexes count from 0 and TLA+ sequences from 1:
`At` translates. An import carries as `host` the object that `dlsym` finds;
`Unresolved` is that it finds none. A failed `ASSERT` or `FATAL` is `exited`
with a word for the message, and an access outside of what is allocated `wild`: a
segment that does not fit, code of more functions than are declared, more locals
than the `uint32_t` that counts them (`Holds`), or a start index that no function
has.
`Finish` is what follows the sections; the start function's effect is not
modelled, so that `m` is what the start function finds.

`LoaderProperties` reads from the whole binary, in no order, the instance
WebAssembly specifies (`Instantiated`), and says when a binary is `Valid`, its
imports `Linked` and its segments fit. `Fits` also asks for less than 4 GiB of
memory: for 65,536 pages the product in `load_module` is 0, and a segment that
WebAssembly allows is written behind what was allocated. `ValidIsAccepted` names what valid modules
are refused for: an unresolved import, a section that is not implemented (such
as DataCount), an empty table or memory section, an imported start function, and a
start function that fails.

## 3. The runs

| run | instance | shows | size |
|---|---|---|---|
| `bodies` | every valid body of at most 7 control instructions with an i32 result | `FramesMirrorNesting`, `NoUnderflow`, `ExactHeight`, `BlockExitHeight` | 28,246 states |
| `programs` | 11 modules written by hand | `TypeOK`, `ReturnAddresses`, `FpDiscipline`, `ResultOnly`, `NoTypeMismatch`, `WritesStayInActivation`, `Terminates`, `ImplementsStack` | 30,349 states |
| `findblocks` | every body of at most 4 instructions before the last, and pairs of at most 2 | `TypeOK`, `StackHoldsOpenBlocks`, `AcceptsExactlyBalanced`, `LoadedIsWellNested` | 79,338 states |
| `numbers` | all 4-bit i32 operands, 17 8-bit i64 ones; all floats with 3 and 6 bits of significand for conversions, 17 each for pairs | `TypeOK`, `IntegersAgree`, `TruncationsAgree`, `ConversionsAgree`, `MinMaxAgrees` | 46,144 states |
| `memory` | 4 limits, 3 instructions, pages of 4 bytes, a 4-bit `uint32_t` | `TypeOK`, `PagesAreAllocated`, `GrownPagesAreZero`, `ImplementsMemory` | 65,873 states |
| `leb128` | the code's widths; 3 or 5 payloads for each byte | `TypeOK`, `DecodesAgree` | 1,141,433 states |
| `loader` | 5,390 binaries | `TypeOK`, `InstanceAsSpecified`, `StartSeesInstance`, `ValidIsAccepted`, `ExportsRunThemselves`, `MasksTellTypesApart` | 36,433 states |

Why the bounds are enough. Seven instructions hold two nested blocks with a
branch out of both and operands left behind, an `if` with `else` inside a loop,
and three nested blocks with a `br`; the bodies are all there are, so the
interactions are not of our choosing. `MCPrograms` adds what bodies cannot have:
recursion that waits inside an `if`, runaway recursion with and without locals,
branches from inside a block that waits for an indirect call, imports, a table
that may grow, and arrays so small (8 slots, 4 frames, a `br_table` of 2) that
every limit is met. Numbers of 2 and 3 bits wrap there. The bound of `findblocks`
is above `BLOCKSTACK_SIZE` = 3, so blockstack is full and overrun; a pair of
functions is needed and enough for what outlives a function. An i64 of 8 bits
keeps the code's constant apart from both ends, and `RotateCount` has two widths
to take apart.

The formats of `numbers` relate to the integers as those of C do: f32 has fewer
bits of significand than i32, f64 more than i32 and fewer than i64. So there are
bounds that a format has and bounds that it has not, ties, overflow to infinity
and subnormals; and every float is tried. In `memory` a page has 2^(w/2) bytes and
a memory grows to 2^(w/2-1) pages, w being the bits of `uint32_t`, as in the code;
one limit is the memory of 2^(w/2) pages whose bytes are counted as 0. The 3
instructions are a store behind the last page, a growth over it and a load.
Addresses hit the pages, the slack and nothing. `leb128` uses 7, 32 and 64 bits as
the code does; a payload of each kind (none, the lowest bit, the sign bit, all, those a last
byte may have) is enough as groups do not interact. `loader` combines, with
and without, imports of each kind that match or not, two functions, overlapping
segments, initialisers that look up a global, a start function and custom
sections; malformed and empty sections, tables of other elements than functions,
start indexes out of range, too many locals for their count; and pairs
of types, up to the number of
parameters at which masks of 6 nibbles lose the result.

`Terminates` is checked under `FairSpec`, weak fairness of `Step`: `interpret`
is a loop in the only thread, so a step that can be taken is taken. Nothing is
assumed of `InvokeExport`: the user may leave. It is stated for modules without
backward branches; recursion in them ends by itself or in `call stack exhausted`.
A run may deadlock only where `find_blocks`, the instruction under test, the
program of a few memory instructions, the number read or the module loaded is done
(`CHECK_DEADLOCK FALSE` in those); `interpret` may not, and both interpreter
runs check it.

Runs that find what the code does against what the repository says of it:

| run | property | what it shows |
|---|---|---|
| `if_leaves_operand` | `IfExitHeight` | the frame of an `if` saves `sp` with the condition still on the stack (`interpreter.c:220`); a branch that leaves operands behind lets one of them through the end |
| `runaway_frames` | `CallStackInBounds` | the guard `csp >= CALLSTACK_SIZE` (`interpreter.c:187`) is off by one |
| `runaway_operands` | `OperandStackInBounds` | locals are pushed with no bound (`interpreter.c:126`) |
| `stale_opcode` | `LoadedFunctionsEnd` | the assertion of `module.c:205` reads the opcode of an earlier function |
| `signed_relations` | `SignedRelationsAgree` | signed comparisons compare unsigned numbers (`interpreter.c:870`) |

`IntegersAgree` leaves out one more: `i64.div_s` and `i64.rem_s` compare with the
least i32 (`MisjudgedOverflow`). `MinMaxAgrees` leaves out `IgnoresNaN`: C's `fmax`
and `fmin` prefer a number to a NaN. `DecodesAgree` leaves out `Misextended`: a
negative number of 64 bits in five to nine bytes is extended by a shifted `int`.
`PagesAreAllocated` leaves out memories whose bytes a `uint32_t` cannot count.
`NoTypeMismatch` and `ExactHeight` are about modules
without imports, because calls of imports are skipped, and whose branches leave
nothing behind, because of the `if` above and because a branch to a loop does not
reset `sp`. Both conditions are needed: `Leftover` of `MCPrograms` has a valid
function with an i64 below an `if` that a `br` leaves with an operand too many. The
leftover takes the place of the i64, and the function ends in `call_type_mismatch`.

Definitions called faults (`PoppedSpRegrown`, `RoomLate`, ...) stand before the
definition they are a wrong variant of. No specification uses them; each breaks a
property of a run when it replaces the right one.

## 4. The proofs

### The call stack

For all `Modules` that are well nested, all sizes of the
arrays and all arguments:

| theorem | property |
|---|---|
| `ControlInvariant` | the inductive invariant `ControlInv` |
| `FramesAlwaysMirrorNesting` | `FramesMirrorNesting` |
| `CallsReturnToTheirCaller` | `ReturnAddresses` |
| `FpIsAlwaysTheActivationBase` | `FpDiscipline` |

Assumptions: `SizesAssumption`, `NestingAssumption`, `BitsAssumption`;
`TypingAssumption` is not needed by these. `NestingAssumption` is what
`LoadedModuleIsWellNested`, below, proves of `find_blocks`.

The argument. None of the three properties is inductive alone, since a branch
uncovers frames about which it says nothing, and `end` restores `fp` from one of
them. `ControlInv` therefore speaks of all frames up to `csp`: `Mirrors` (the
frames below a frame are the blocks around its block, down to its function),
`Returns` (each function's frame has an address behind a call of the block below)
and `SavedFps` (each block's frame saved the base of its own activation, each
function's that of its caller). These three only ever look down, so they hold of
a shorter call stack as soon as they hold of a longer one: this is what makes
dropping frames without `pop_block` right. `InterpreterProofs` proves that, and what
pushing a frame preserves; it then has a lemma per effect on the
call stack (`AfterStop`, `AfterAdvance`, `AfterSetupCall`, ...) and one per action,
and `ControlNext` puts them together. `ControlInv` says nothing when the machine
is not running: after a failure anything may be on the stacks, and `InvokeStep`
shows that the next invocation starts from `csp = -1` whatever is there.
`fp` and `csp` are numbers in these proofs; what `sp` is does not matter to them.

### The operand stack

For all `Modules` that are also well typed (`TypingAssumption`):

| theorem | property |
|---|---|
| `OperandInvariant` | the inductive invariant, `OperandInv` with `ControlInv` |
| `OperandsNeverUnderflow` | `NoUnderflow` |
| `HeightsAreExact` | `ExactHeight` |
| `BlocksRestoreTheStack` | `BlockExitHeight` |
| `StackInvariant` | `Inv`: `ControlInv`, `OperandInv` and that pointers lie in `m->stack` |
| `TypesAreCorrect` | `TypeOK` |
| `StepsWriteTheirOwnOperands` | `WritesStayInActivation` |
| `InvocationsLeaveTheirResult` | `ResultOnly` |
| `TypesInvariant` | the inductive invariant `TypesInv` |
| `ValidCodePassesTypeTests` | `NoTypeMismatch` |

`NoUnderflow` is not inductive, as `end` sets `sp` from a frame of which it says
nothing. Nor are exact heights: branches leave operands behind, a loop's pile up
with every turn, and an `if` gets one too many back. `OperandInv` therefore gives
each frame a `Slack`, the `sp` its block was entered with (for an `if`, without the
condition) less the height that validation derives there, and says that from a frame to
the one above it in the same activation the slack never shrinks. A branch that
leaves operands behind raises `sp` and so what frames pushed later find; nothing
lowers it below the frame's own. `Covers` states this with an equality where
`Exact` (no branch leaves operands behind, nothing is imported), so one proof
gives both `NoUnderflow` and `ExactHeight`. Where a function waits in a call,
`OperandInv` knows the height at which it goes on. `StackInvariant` adds that
the pointers lie in `m->stack`, also those in frames that a branch has yet to
uncover; with it a write above `OperandBase` is a write above all that callers
own, and the result of a function goes to its own first slot.

`TypesInv` says under `Exact` of all activations what `TypedInstr` says of one:
the slots from `fp` on are the parameters and locals, and above them the operands,
with the types derived at `pc` or, for one that waits (`Suspended`), at its return
address. It has to be said of all of them at once, because a return uncovers
what the caller left there, and it is kept because a step writes to the running
activation only. Globals keep their type through `global.set`.

`TypesAreCorrect` needs no such condition on the module. That a slot always holds a
number of its type is inductive only next to `Inv`: a handler reads `stack[sp]`,
which is a slot if `sp` is in `m->stack`. What an instruction on numbers writes is
in range by the lemmas on numbers. `OpcodeAssumption` says that the opcodes of such
instructions are those of `opcode.h`.

### The refinement of the abstract stack

For all `Modules` that are well typed and all sizes of the arrays:

| theorem | property |
|---|---|
| `PartsOfFramesAreApart` | the inductive invariant `StepsInv` |
| `TheArraysAreAStack` | `ImplementsStack` |
| `SpecImplementsStack` | - (`Spec /\ Exact(wasm) => Abstract!Spec`) |

`ControlInv`, `OperandInv` and `TypesInv` say how the arrays look. What they do not say
is that the parts of the frames do not overlap: with `Stepped` - what a frame has
below its operands ends where the part of any later frame begins - every slot up to
`sp` belongs to one entry. `Live` is all of this together, at an instruction.

The proof has three layers. Of slices: what is taken off and put on a slice, and
that a slice does not change when slots outside of it do. Of entries: `NewView` says
what the entries after a step are as soon as it is known where the parts begin and
end; entries below the running one keep blocks, locals and operands, because a step
writes its own part only. Of instructions: one lemma for each action, which says
that the step is the abstract one of the same instruction and that the parts stay apart.
Three cases carry the weight. A branch drops d frames without `pop_block` and goes to
the `end` of its target, or to the head of the loop: the entries above the
target's are gone at once in the abstract step, so the operands the label
takes must be where the C code finds them after `csp -= d`, which is `Stepped` and
the exact heights. An `end` moves the result down to the `sp` its frame saved, where
the operands of the entry below end. And a call turns the operands under `sp` into
the locals of a new entry without moving them. What fails in the code, fails in
the abstract step.

The number of a value, what an instruction calculates and when it traps are the same
operators on both sides. The theorems on numbers are about them.

### Numbers

For all widths, operands and formats:

| theorem | property |
|---|---|
| `IntegersAreDefined` | `IntegersAgree` |
| `OutcomesAreInRange` | `TypeOK` (of `IntegerSemantics`) |
| `TruncationsAreDefined` | `TruncationsAgree` |
| `ConversionsAreNearest` | `ConversionsAgree` |
| `MinimaAreDefined` | `MinMaxAgrees` |

The run has integers of 4 and 8 bits and significands of 3 and 6; here they are any.
Assumptions: operands are numbers of their type (`OperandAssumption`,
`FloatOperandAssumption`); both widths divide the power of two that the
rotations cast to (`RotationAssumption`: 32 and 64 divide 2^32); and of the formats
(`RangeAssumption`) that both have fractions of 1, that 1 is a power of two times
their unit, and that infinity is beyond all integers. This holds for 24 and 53
binary digits with 32 and 64 bit integers.

Machines that run one instruction need no inductive invariant to speak of. What is
hard is the arithmetic, of which the provers know little: a power with a variable
exponent is nothing to them but, by the library, the number of subsets of a set, and
its induction rules they cannot use. `NumbersProofs` therefore starts with
`PowerOfNext`, 2^(n+1) = 2 * 2^n, by a bijection of subsets, and with `Induct`: a set
that has 0 and with each number the next is all of Nat, because the rest has a least
member otherwise (`Least`). From these follow the bits of a number: they determine it
(`SameBits`), and each set of bits is that of a number (`BitsExist`), so what the
definitions `CHOOSE` exists and is unique. Then each instruction is a lemma: which
bits it gives (`BitOfShiftLeft`, `BitOfRotateRight`, ...) and, in `SemanticsProofs`,
that they are the ones WebAssembly defines. `OnlyOverflow` shows that the quotient of
signed numbers is out of range for the least by -1 only; hence `MisjudgedOverflow` is
all that the wrong constant in the test of `i64.div_s` does.

For truncations the bounds of `utils.h` are the matter: `RMin` is not one below the
least integer where the significand has fewer digits than the integer.
`GapBelowLeast` shows that no number of the format lies between that bound and the
least integer, so the comparison with the bound decides as one with the least
integer less 1 would. For conversions, `StepOfNumber` finds the distance of the numbers
of the format around the operand, `NearestMultiple` is rounding to multiples of it, and
`PlacesOfNumbers` says that numbers that are no such multiples are below half of the
digits, so further away than one that is.

### Block discovery

For all inputs of any length and any number of functions
(`InputsAssumption`, `BlockStackSizeAssumption`):

| theorem | property |
|---|---|
| `FindBlocksInvariant` | the inductive invariant `FindBlocksInv` |
| `FindBlocksTypes` | `TypeOK` |
| `StackIsTheOpenBlocks` | `StackHoldsOpenBlocks` |
| `AssertsTellBalancedBodies` | `AcceptsExactlyBalanced` |
| `NestingInvariant` | the inductive invariant `NestingInv` |
| `LoadedModuleIsWellNested` | `LoadedIsWellNested` |

The reference counts openers and ends (`Excess`), the code pushes and pops. They
are tied by `Levels`: counted from the opener at index i of `blockstack`, the excess
is the number of blocks from there to `top`. One instruction changes all of these
counts alike, so an end closes exactly the block whose count it brings to zero,
and a body is balanced if and only if `top` is -1 at its last end. `PastEnd` says
what `opcode` tells when the loop is left. `NestingInv` keeps for every block found
so far, of this function and of those before, the addresses that the nesting
prescribes. `LoadedModuleIsWellNested` needs in addition that the blocks around an
instruction form a chain, each the innermost around the next (`Layout`): then the
label of depth k is the block k steps up the chain, and the labels of a block are
its own followed by those of the block it was opened in.

### The memory

For all page sizes, widths of `uint32_t`, bytes and operands
(`MemoryAssumption`: the largest memory that growth allows can be counted, as
0x8000 pages of 0x10000 bytes can in 32 bits):

| theorem | property |
|---|---|
| `MemoryTypes` | `TypeOK` |
| `ReportedPagesAreAllocated` | `PagesAreAllocated` |
| `GrowthAddsZeroes` | `GrownPagesAreZero` |
| `MemoryImplementsItsSpecification` | `ImplementsMemory` |

`MemoryInv` joins the first two to what makes them inductive: the allocated bytes
are an interval from 0, and a memory that can be counted has all its pages in it.
The third follows from `Reallocated` clearing from the old end on, also what an
access behind the last page left there. The refinement needs in addition that a
program that has been lawful has a memory that can be counted: then the bytes of
the pages are all allocated, an access inside the pages is never `wild`, a sum
that is allowed does not wrap, and `Visible` turns each handler into the action
of `WebAssemblyMemory` with the same `asked`.

### The loader, LEB128 and type masks

For every binary and every width. `LoaderAssumption` has the order of the sections
by their numbers, which load_module takes for granted, and value types in types;
`ItemsAssumption` has the ranges of what `read_LEB` and `dlsym` deliver: sizes and
constants are of `uint32_t`, and an imported table or memory has as many entries or
bytes as it says.

| theorem | property |
|---|---|
| `LoaderInvariant` | the inductive invariant `LoaderInv` |
| `ExportedFunctionsKeepTheirNumber` | `ExportsRunThemselves` |
| `LoadedMasksTellTypesApart` | `MasksTellTypesApart` |
| `LoaderTypes` | `TypeOK` |
| `BuildInvariant` | the inductive invariant `BuildInv` |
| `InstancesAreAsSpecified` | `InstanceAsSpecified` |
| `StartRunsOnTheInstance` | `StartSeesInstance` |
| `ValidModulesAreAccepted` | `ValidIsAccepted` |
| `MaskIdentifiesType` | - |
| `NumbersAreReadAsWritten` | `DecodesAgree` (of `Leb128`) |
| `ReadsAreBounded` | `TypeOK` (of `Leb128`) |

`LoaderInv` says of every block behind the imports that its number is its index.
An import read after the function section would shift those indexes: the
invariant therefore keeps the position in the binary, from which the order of the
sections tells that no import is to come. `MaskIdentifiesType` finds the number of
parameters back as the place of the lowest zero nibble, since the shift leaves a
zero above the parameters and no parameter is one, and then compares nibble by
nibble.

`BuildInv` is what makes the comparison with the whole binary inductive. `Read(id)`
is how many items of a section have been read: all of a section before the current
one, none of one behind it, and since sections come in the order of their numbers
the number alone decides which. `SoFar` gives each part of the module as a function
of these counts: the globals are the imported ones read and then the first
initialisers, an entry of the table is what the last of the first n segments over it
put there, a block has its code if that has been read. One lemma for each action
(`ImportedTableSoFar`, `ElemSoFar`, `CodeSoFar`, ...) shows that it moves one count
and the part that depends on it; what `Valid`, `Linked` and `Fits` say excludes the
branches that refuse a module or write outside of it. `StartDeclared` keeps that the
start function is the one its section names, so that at the end, when `SoFar` counts
all functions, it is one of them. The imports of each kind are
counted by `OfKind`; `ImportedAt` says that the next import of a kind is the next
element of its index space. When all is read, `SoFar` is `Instantiated`. The sums of
local counts and the types of locals are recursive functions, of which `Loop` and
`LocalTypesAre` show that they exist and what they give by least counterexamples
(`Least`), so that no induction theorem is needed.

`LebInv` says where the bits of `result` are (its `Placed`): those written so
far, below the width of the word, and after the last byte the sign above them.

### Model-checked only, and why

* `Terminates` is liveness.

All other properties of the passing runs are theorems.

`Assembler`, `MCInterpreter` and others for TLC use RECURSIVE operators and cannot
be reached from a module with proofs.

## 5. Not modelled

* +, -, *, /, sqrt, comparisons and rounding to an integer of floats, which are
  C's operators and library functions on whole operands, with one exception: a
  division by a zero traps. `f64.abs` stores into the member `f32` of the slot, and
  reinterpretations depend on the layout of the union likewise.
* Files that are not binaries of modules: a wrong magic number or version, lengths
  that contradict the contents, a file that ends too soon. wasmc's README restricts it to files compiled from wat.
* How `dlopen` and `dlsym` find a name; what becomes of an imported memory when
  its owner grows it, as there is no second module in the process.
* The session with a wrong number of arguments, and `get_export` returning a table,
  a memory or a global to `main`, which takes it for a function: what follows is
  what the compiler laid out there.
* File and terminal I/O, formatting, the spec test data and its script.
