----------------------------- MODULE MemoryType ------------------------------
(***************************************************************************)
(* The memory a module declares: parse_memory_type and what load_module    *)
(* allocates for it.                                                       *)
(***************************************************************************)
EXTENDS Integers

CONSTANTS
  PAGE_SIZE,    \* bytes of a page, 0x10000 in the code
  MAX_PAGES,    \* the most pages a memory may grow to, 0x8000 in the code
  U32           \* 2 ^ 32, where the arithmetic of uint32_t wraps

ZeroBytes(count) == [i \in 0 .. count - 1 |-> 0]

MaxSizeUnclamped(limits) ==    \* fault: the bound of 2 GB left out
  IF limits.flags = 1 THEN limits.max ELSE MAX_PAGES

MaxSize(limits) ==
  IF limits.flags = 1 /\ limits.max < MAX_PAGES THEN limits.max ELSE MAX_PAGES

(* The number of elements is a product of uint32_t; each has four bytes.   *)
AllocatedAtFirst(pages) == 4 * ((pages * PAGE_SIZE) % U32)

DefinedMemory(limits) ==
  [cur_size |-> limits.min, max_size |-> MaxSize(limits),
   bytes |-> ZeroBytes(AllocatedAtFirst(limits.min))]

=============================================================================
