---------------------------- MODULE LawfulMemory ----------------------------
(***************************************************************************)
(* LinearMemory implements WebAssemblyMemory for programs that stay inside *)
(* their memory.  Both variables are history: `asked` is the instruction   *)
(* last executed, and `lawful` is TRUE until a program does what           *)
(* WebAssembly answers with a trap or with -1, which the interpreter does  *)
(* not do.                                                                 *)
(***************************************************************************)
EXTENDS LinearMemory

VARIABLES lawful, asked

Size == memory.cur_size * PAGE_SIZE
Inside(offset, addr, n) == offset + addr + n <= Size

(* The bytes of such a memory cannot be counted in 32 bits.                *)
Countable(pages) == pages * PAGE_SIZE < U32

LawfulInit ==
  /\ Init
  /\ lawful = Countable(memory.cur_size)
  /\ asked = [op |-> "none"]

LawfulLoad(op, offset, addr) ==
  /\ Load(op, offset, addr)
  /\ lawful' = (lawful /\ Inside(offset, addr, op.n))
  /\ asked' = [op |-> "load", type |-> op.type, n |-> op.n, ext |-> op.ext,
               address |-> offset + addr]

LawfulStore(n, offset, addr, value) ==
  /\ Store(n, offset, addr, value)
  /\ lawful' = (lawful /\ Inside(offset, addr, n))
  /\ asked' = [op |-> "store", n |-> n, address |-> offset + addr, value |-> value]

LawfulSize ==
  /\ MemorySize
  /\ UNCHANGED lawful
  /\ asked' = [op |-> "size"]

LawfulGrow(delta) ==
  /\ MemoryGrow(delta)
  /\ lawful' = (lawful /\ (memory.cur_size + delta <= memory.max_size /\ status' # "exited"))
  /\ asked' = [op |-> "grow", delta |-> delta]

LawfulNext ==
  \/ \E op \in LoadOps, offset \in Offsets, addr \in Addresses : LawfulLoad(op, offset, addr)
  \/ \E n \in StoreSizes, offset \in Offsets, addr \in Addresses, value \in Values :
       LawfulStore(n, offset, addr, value)
  \/ LawfulSize
  \/ \E delta \in Deltas : LawfulGrow(delta)

lawfulVars == <<vars, lawful, asked>>

LawfulSpec == LawfulInit /\ [][LawfulNext]_lawfulVars

(* Only the pages count: what lies allocated behind them is invisible.     *)
Visible == [i \in 0 .. Size - 1 |-> IF i \in Allocated THEN memory.bytes[i] ELSE 0]

Abstract == INSTANCE WebAssemblyMemory WITH
  mem <- Visible,
  pages <- memory.cur_size,
  limit <- memory.max_size,
  kept <- lawful

(* Loads return what was last stored, extended as their type says, growing *)
(* adds zeros and keeps the rest, and memory.size counts the pages: up to  *)
(* the first trespass the handlers at interpreter.c:564 behave as          *)
(* WebAssembly promises.                                                   *)
ImplementsMemory == Abstract!Spec

=============================================================================
