---------------------------- MODULE LinearMemory ----------------------------
(***************************************************************************)
(* struct Memory and the memory instructions of interpret(): the 14 loads, *)
(* the 9 stores, memory.size and memory.grow.  An action is the case of an *)
(* instruction with the operands it pops as parameters; `answer` is what   *)
(* it leaves on top of the operand stack.                                  *)
(*                                                                         *)
(* m->memory.bytes is a function on the bytes that are really allocated.   *)
(* load_module asks calloc for four times the pages, and no instruction    *)
(* compares an address with anything, so an access may go wrong and still  *)
(* hit allocated bytes.  Outside of them the behaviour is undefined: the   *)
(* status "wild".                                                          *)
(***************************************************************************)
EXTENDS MemoryType

CONSTANTS
  Byte,         \* the values of a byte
  Negative,     \* those with the sign bit set
  FF,           \* 0xff
  Limits,       \* the memory types modules declare
  Addresses,    \* what programs pop as addresses, offsets and numbers of pages
  Offsets,
  Deltas,
  Values,       \* what programs store
  MAX_INSTRS    \* bound: memory instructions a program executes

ASSUME MemoryAssumption ==
  /\ PAGE_SIZE \in Nat \ {0} /\ MAX_PAGES \in Nat /\ U32 \in Nat
  /\ MAX_PAGES < U32 /\ MAX_PAGES * PAGE_SIZE < U32
  /\ 0 \in Byte /\ FF \in Byte /\ Negative \subseteq Byte
  /\ Limits \subseteq [flags : {0, 1}, min : Nat, max : Nat]
  /\ \A l \in Limits : l.min < U32
  /\ Addresses \subseteq Nat /\ Offsets \subseteq Nat
  /\ Deltas \subseteq {d \in Nat : d < U32}
  /\ Values \subseteq [0 .. 7 -> Byte]
  /\ MAX_INSTRS \in Nat

VARIABLES
  memory,     \* m->memory
  answer,     \* the top of the operand stack after the last instruction
  status,     \* "running", "wild", or "exited" by FATAL
  executed    \* counts instructions, for MAX_INSTRS

vars == <<memory, answer, status, executed>>

(* The union in a slot of the operand stack, byte by byte.                 *)
SlotBytes == 0 .. 7
NoAnswer == [type |-> "none", value |-> [i \in SlotBytes |-> 0]]

(* The bytes of a type; a load has n of them in memory and extends them    *)
(* with the sign or with zeros.                                            *)
Width(type) == IF type \in {"i32", "f32"} THEN 4 ELSE 8

LoadOps ==
  {[type |-> t, n |-> Width(t), ext |-> "u"] : t \in {"i32", "i64", "f32", "f64"}}
    \cup {[type |-> "i32", n |-> n, ext |-> e] : n \in {1, 2}, e \in {"s", "u"}}
    \cup {[type |-> "i64", n |-> n, ext |-> e] : n \in {1, 2, 4}, e \in {"s", "u"}}

(* The type of the operand makes no difference to a store.                 *)
StoreSizes == {1, 2, 4, 8}

-----------------------------------------------------------------------------
Init ==
  /\ \E limits \in Limits : memory = DefinedMemory(limits)
  /\ answer = NoAnswer
  /\ status = "running"
  /\ executed = 0

-----------------------------------------------------------------------------
Ready ==
  /\ status = "running"
  /\ executed < MAX_INSTRS
  /\ executed' = executed + 1

(* bytes + offset + addr is a pointer: the sum does not wrap at 32 bits.   *)
Effective(offset, addr) == offset + addr
Accessed(ea, n) == ea .. ea + n - 1
Allocated == DOMAIN memory.bytes

Wild ==
  /\ status' = "wild"
  /\ UNCHANGED <<memory, answer>>

(* The slot is zeroed, n bytes are copied into it, and the sext_ function  *)
(* of a signed load fills the rest of the type.                            *)
Copied(bytes, ea, n) == [i \in SlotBytes |-> IF i < n THEN bytes[ea + i] ELSE 0]

SignFilled(value, n, width) ==
  [i \in SlotBytes |-> IF value[n - 1] \in Negative /\ n <= i /\ i < width
                         THEN FF ELSE value[i]]

LoadedUnfilled(op, bytes, ea) ==    \* fault: sext_ left out
  Copied(bytes, ea, op.n)

Loaded(op, bytes, ea) ==
  IF op.ext = "s" THEN SignFilled(Copied(bytes, ea, op.n), op.n, Width(op.type))
               ELSE Copied(bytes, ea, op.n)

Load(op, offset, addr) ==
  LET ea == Effective(offset, addr) IN
  /\ Ready
  /\ \/ ~(Accessed(ea, op.n) \subseteq Allocated) /\ Wild
     \/ /\ Accessed(ea, op.n) \subseteq Allocated
        /\ answer' = [type |-> op.type, value |-> Loaded(op, memory.bytes, ea)]
        /\ UNCHANGED <<memory, status>>

Stored(bytes, ea, n, value) ==
  [i \in DOMAIN bytes |-> IF i \in Accessed(ea, n) THEN value[i - ea] ELSE bytes[i]]

Store(n, offset, addr, value) ==
  LET ea == Effective(offset, addr) IN
  /\ Ready
  /\ \/ ~(Accessed(ea, n) \subseteq Allocated) /\ Wild
     \/ /\ Accessed(ea, n) \subseteq Allocated
        /\ memory' = [memory EXCEPT !.bytes = Stored(@, ea, n, value)]
        /\ answer' = NoAnswer
        /\ UNCHANGED status

Pages(number) == [type |-> "i32", pages |-> number]

MemorySize ==
  /\ Ready
  /\ answer' = Pages(memory.cur_size)
  /\ UNCHANGED <<memory, status>>

-----------------------------------------------------------------------------
(***************************************************************************)
(* memory.grow.                                                            *)
(***************************************************************************)
SumOfPages(delta) == (memory.cur_size + delta) % U32
Refused(delta) == delta # 0 /\ SumOfPages(delta) > memory.max_size

(* arecalloc: realloc keeps what fits, memset clears from the old end on.  *)
ReallocatedDirty(bytes, old, new) ==     \* fault: no memset
  [i \in 0 .. new - 1 |-> IF i \in DOMAIN bytes THEN bytes[i] ELSE 0]
Reallocated(bytes, old, new) ==
  [i \in 0 .. new - 1 |-> IF i < old /\ i \in DOMAIN bytes THEN bytes[i] ELSE 0]

GrownByDelta(delta) ==     \* fault: reallocates the new pages only
  [memory EXCEPT !.cur_size = @ + delta,
                 !.bytes = Reallocated(@, 0, delta * PAGE_SIZE)]

Grown(delta) ==
  LET pages == memory.cur_size + delta IN
  [memory EXCEPT !.cur_size = pages,
                 !.bytes = Reallocated(@, memory.cur_size * PAGE_SIZE, pages * PAGE_SIZE)]

(* A sum that wrapped passes the test as a smaller number of pages: memset *)
(* is told to clear a negative number of bytes, or realloc to keep none.   *)
WrappedSum(delta) == SumOfPages(delta) < memory.cur_size

MemoryGrow(delta) ==
  /\ Ready
  /\ \/ /\ delta = 0 \/ Refused(delta)
        /\ answer' = Pages(memory.cur_size)
        /\ UNCHANGED <<memory, status>>
     \/ /\ delta # 0 /\ ~Refused(delta) /\ WrappedSum(delta)
        /\ Wild
     \/ /\ delta # 0 /\ ~Refused(delta) /\ ~WrappedSum(delta)
        /\ memory' = Grown(delta)
        /\ answer' = Pages(memory.cur_size)
        /\ UNCHANGED status
     \/ /\ delta # 0 /\ ~Refused(delta)      \* realloc fails
        /\ status' = "exited"
        /\ UNCHANGED <<memory, answer>>

Next ==
  \/ \E op \in LoadOps, offset \in Offsets, addr \in Addresses : Load(op, offset, addr)
  \/ \E n \in StoreSizes, offset \in Offsets, addr \in Addresses, value \in Values :
       Store(n, offset, addr, value)
  \/ MemorySize
  \/ \E delta \in Deltas : MemoryGrow(delta)

Spec == Init /\ [][Next]_vars

-----------------------------------------------------------------------------
TypeOK ==
  /\ memory \in [cur_size : 0 .. U32 - 1, max_size : 0 .. MAX_PAGES, bytes : [Allocated -> Byte]]
  /\ answer \in [type : {"none", "i32", "i64", "f32", "f64"}, value : [SlotBytes -> Byte]]
                \cup [type : {"i32"}, pages : Nat]
  /\ status \in {"running", "wild", "exited"}
  /\ executed \in 0 .. MAX_INSTRS

(* Every byte of the pages memory.size reports is allocated, whichever     *)
(* of calloc and realloc provided it - unless the declared minimum is so   *)
(* large that its bytes cannot be counted in 32 bits (module.c:622).       *)
PagesAreAllocated ==
  memory.cur_size * PAGE_SIZE < U32 =>
    0 .. memory.cur_size * PAGE_SIZE - 1 \subseteq Allocated

(* A page that memory.grow adds is zero, and the pages before it are as    *)
(* they were, even when the program has written past its last page before: *)
(* the first allocation leaves room there (interpreter.c:786).             *)
GrownPagesAreZero ==
  [][memory'.cur_size # memory.cur_size =>
       LET old == memory.cur_size * PAGE_SIZE IN
       /\ memory'.cur_size > memory.cur_size
       /\ \A i \in 0 .. old - 1 : memory'.bytes[i] = memory.bytes[i]
       /\ \A i \in old .. memory'.cur_size * PAGE_SIZE - 1 : memory'.bytes[i] = 0]_vars

=============================================================================
