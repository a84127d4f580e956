------------------------- MODULE LinearMemoryProofs -------------------------
(***************************************************************************)
(* The invariants of LinearMemory, and that it implements                  *)
(* WebAssemblyMemory for lawful programs, whatever the size of a page, the *)
(* width of a number and the limits of the memory.                         *)
(***************************************************************************)
EXTENDS LawfulMemory, TLAPS

(* What is allocated is a row of bytes from address 0 on.                  *)
Contiguous == \E count \in Nat : Allocated = 0 .. count - 1

MemoryInv == TypeOK /\ Contiguous /\ PagesAreAllocated

(***************************************************************************)
(* Arithmetic of sizes.                                                    *)
(***************************************************************************)
LEMMA ProductMonotone ==
  ASSUME NEW a \in Nat, NEW b \in Nat, NEW c \in Nat, a <= b
  PROVE  a * c <= b * c
  OBVIOUS

LEMMA ProductNat ==
  ASSUME NEW a \in Nat, NEW b \in Nat
  PROVE  a * b \in Nat
  OBVIOUS

LEMMA ModSmall ==
  ASSUME NEW a \in Nat, NEW m \in Nat, a < m
  PROVE  a % m = a
  OBVIOUS

LEMMA ModWrapped ==
  ASSUME NEW a \in Nat, NEW m \in Nat, m <= a, a < 2 * m
  PROVE  a % m = a - m
  <1>1. a = 1 * m + (a - m) /\ a - m \in 0 .. m - 1 /\ m > 0
    OBVIOUS
  <1>2. QED
    BY <1>1

(***************************************************************************)
(* The memory section and the instructions keep the invariant.             *)
(***************************************************************************)
LEMMA InitMemoryInv == Init => MemoryInv
  <1> SUFFICES ASSUME Init PROVE MemoryInv
    OBVIOUS
  <1>1. PICK limits \in Limits : memory = DefinedMemory(limits)
    BY DEF Init
  <1> DEFINE pages == limits.min
             count == AllocatedAtFirst(pages)
  <1>2. pages \in Nat /\ pages < U32 /\ MaxSize(limits) \in 0 .. MAX_PAGES
    BY MemoryAssumption DEF MaxSize
  <1>3. pages * PAGE_SIZE \in Nat
    BY <1>2, ProductNat, MemoryAssumption
  <1>4. count \in Nat /\ (pages * PAGE_SIZE < U32 => count = 4 * (pages * PAGE_SIZE))
    <2> DEFINE product == pages * PAGE_SIZE
    <2> HIDE DEF product
    <2>1. product \in Nat /\ U32 \in Nat \ {0}
      BY <1>3, MemoryAssumption DEF product
    <2>2. product % U32 \in Nat
      BY <2>1
    <2>3. product < U32 => product % U32 = product
      BY <2>1, ModSmall
    <2>4. AllocatedAtFirst(pages) = 4 * (product % U32)
      BY DEF AllocatedAtFirst, product
    <2>5. QED
      BY <2>1, <2>2, <2>3, <2>4 DEF product
  <1>5. memory.cur_size = pages /\ memory.max_size = MaxSize(limits)
        /\ memory.bytes = [i \in 0 .. count - 1 |-> 0]
    BY <1>1 DEF DefinedMemory, ZeroBytes
  <1> HIDE DEF pages, count
  <1>6. memory.bytes \in [DOMAIN memory.bytes -> Byte] /\ Allocated = 0 .. count - 1
    BY <1>5, MemoryAssumption DEF Allocated
  <1>7. TypeOK
    <2>1. memory = [cur_size |-> pages, max_size |-> MaxSize(limits), bytes |-> memory.bytes]
      BY <1>1 DEF DefinedMemory, pages
    <2>2. memory \in [cur_size : 0 .. U32 - 1, max_size : 0 .. MAX_PAGES,
                      bytes : [Allocated -> Byte]]
      BY <1>2, <1>6, <2>1, MemoryAssumption DEF Allocated, pages
    <2>3. QED
      BY <2>2, MemoryAssumption DEF Init, NoAnswer, TypeOK
  <1>8. PagesAreAllocated
    <2>1. pages * PAGE_SIZE < U32 => pages * PAGE_SIZE <= count
      BY <1>3, <1>4 DEF pages, count
    <2>2. QED
      BY <1>3, <1>4, <1>5, <1>6, <2>1 DEF PagesAreAllocated, pages, count
  <1>9. QED
    BY <1>4, <1>6, <1>7, <1>8 DEF MemoryInv, Contiguous, count

LEMMA CopiedType ==
  ASSUME TypeOK, NEW op \in LoadOps, NEW ea \in Nat, Accessed(ea, op.n) \subseteq Allocated
  PROVE  /\ op.n \in {1, 2, 4, 8}
         /\ Loaded(op, memory.bytes, ea) \in [SlotBytes -> Byte]
  <1>1. op.n \in {1, 2, 4, 8}
    BY DEF LoadOps, Width
  <1>2. \A i \in SlotBytes : i < op.n => memory.bytes[ea + i] \in Byte
    BY <1>1 DEF TypeOK, Accessed, Allocated, SlotBytes
  <1>3. Copied(memory.bytes, ea, op.n) \in [SlotBytes -> Byte]
    BY <1>2, MemoryAssumption DEF Copied
  <1>4. QED
    BY <1>1, <1>3, MemoryAssumption DEF Loaded, SignFilled

LEMMA LoadInv ==
  ASSUME MemoryInv, NEW op \in LoadOps, NEW offset \in Offsets, NEW addr \in Addresses,
         Load(op, offset, addr)
  PROVE  MemoryInv'
  <1> DEFINE ea == offset + addr
  <1>1. ea \in Nat
    BY MemoryAssumption
  <1>2. UNCHANGED memory
    BY DEF Load, Wild
  <1>3. executed' \in 0 .. MAX_INSTRS /\ status' \in {"running", "wild", "exited"}
    BY MemoryAssumption DEF MemoryInv, TypeOK, Load, Ready, Wild
  <1>4. op.type \in {"i32", "i64", "f32", "f64"}
    BY DEF LoadOps
  <1>5. answer' \in [type : {"none", "i32", "i64", "f32", "f64"}, value : [SlotBytes -> Byte]]
                   \cup [type : {"i32"}, pages : Nat]
    <2>1. CASE Accessed(ea, op.n) \subseteq Allocated
      BY <1>1, <1>4, <2>1, CopiedType DEF Load, MemoryInv, Effective
    <2>2. CASE ~(Accessed(ea, op.n) \subseteq Allocated)
      BY <2>2 DEF Load, MemoryInv, TypeOK, Wild, Effective
    <2>3. QED
      BY <2>1, <2>2
  <1>6. TypeOK'
    BY <1>2, <1>3, <1>5 DEF MemoryInv, TypeOK, Allocated
  <1>7. QED
    BY <1>2, <1>6 DEF MemoryInv, Contiguous, PagesAreAllocated, Allocated

LEMMA StoredType ==
  ASSUME TypeOK, NEW n \in StoreSizes, NEW ea \in Nat, NEW value \in Values
  PROVE  /\ DOMAIN Stored(memory.bytes, ea, n, value) = Allocated
         /\ Stored(memory.bytes, ea, n, value) \in [Allocated -> Byte]
  <1>1. \A i \in Accessed(ea, n) : i - ea \in 0 .. 7
    BY DEF Accessed, StoreSizes
  <1>2. value \in [0 .. 7 -> Byte]
    BY MemoryAssumption
  <1>3. QED
    BY <1>1, <1>2 DEF Stored, Allocated, TypeOK

LEMMA StoreInv ==
  ASSUME MemoryInv, NEW n \in StoreSizes, NEW offset \in Offsets, NEW addr \in Addresses,
         NEW value \in Values, Store(n, offset, addr, value)
  PROVE  MemoryInv'
  <1> DEFINE ea == offset + addr
             bytes == Stored(memory.bytes, ea, n, value)
  <1>1. ea \in Nat
    BY MemoryAssumption
  <1>2. executed' \in 0 .. MAX_INSTRS /\ status' \in {"running", "wild", "exited"}
    BY MemoryAssumption DEF MemoryInv, TypeOK, Store, Ready, Wild
  <1>3. \/ UNCHANGED <<memory, answer>>
        \/ memory' = [memory EXCEPT !.bytes = bytes] /\ answer' = NoAnswer
    BY DEF Store, Wild, Effective
  <1>4. CASE UNCHANGED <<memory, answer>>
    BY <1>2, <1>4 DEF MemoryInv, TypeOK, Contiguous, PagesAreAllocated, Allocated
  <1>5. CASE memory' = [memory EXCEPT !.bytes = bytes] /\ answer' = NoAnswer
    <2>1. DOMAIN bytes = Allocated /\ bytes \in [Allocated -> Byte]
      BY <1>1, StoredType DEF MemoryInv
    <2> HIDE DEF bytes
    <2>2. memory \in [cur_size : 0 .. U32 - 1, max_size : 0 .. MAX_PAGES, bytes : [Allocated -> Byte]]
      BY DEF MemoryInv, TypeOK
    <2>3. /\ memory'.bytes = bytes
          /\ memory' \in [cur_size : 0 .. U32 - 1, max_size : 0 .. MAX_PAGES,
                          bytes : [Allocated -> Byte]]
          /\ UNCHANGED <<memory.cur_size, memory.max_size>>
      BY <1>5, <2>1, <2>2
    <2>4. Allocated' = Allocated
      BY <2>1, <2>3 DEF Allocated
    <2>5. TypeOK'
      BY <1>2, <1>5, <2>3, <2>4, MemoryAssumption DEF TypeOK, NoAnswer
    <2>6. QED
      BY <2>3, <2>4, <2>5 DEF MemoryInv, Contiguous, PagesAreAllocated
  <1>6. QED
    BY <1>3, <1>4, <1>5

(* What memory.grow knows when its test has let a number of pages pass.    *)
LEMMA GrowthIsBounded ==
  ASSUME MemoryInv, NEW delta \in Deltas, delta # 0, ~Refused(delta), ~WrappedSum(delta)
  PROVE  /\ delta \in Nat
         /\ memory.cur_size + delta <= memory.max_size
         /\ memory.cur_size + delta < U32
         /\ (memory.cur_size + delta) * PAGE_SIZE \in Nat
         /\ (memory.cur_size + delta) * PAGE_SIZE < U32
         /\ memory.cur_size * PAGE_SIZE \in Nat
         /\ memory.cur_size * PAGE_SIZE <= (memory.cur_size + delta) * PAGE_SIZE
  <1> DEFINE cur == memory.cur_size
             pages == cur + delta
  <1>1. /\ delta \in Nat \ {0} /\ delta < U32 /\ U32 \in Nat
        /\ cur \in Nat /\ cur < U32 /\ memory.max_size \in 0 .. MAX_PAGES
        /\ MAX_PAGES \in Nat /\ MAX_PAGES < U32
        /\ PAGE_SIZE \in Nat /\ MAX_PAGES * PAGE_SIZE < U32
    BY MemoryAssumption DEF MemoryInv, TypeOK
  <1>2. pages % U32 >= cur /\ pages % U32 <= memory.max_size
    <2>1. pages % U32 \in Nat
      BY <1>1
    <2>2. QED
      BY <1>1, <2>1 DEF Refused, WrappedSum, SumOfPages
  <1>3. pages < U32
    <2>1. SUFFICES ASSUME pages >= U32 PROVE FALSE
      BY <1>1
    <2>2. pages \in Nat /\ U32 \in Nat /\ U32 <= pages /\ pages < 2 * U32
      BY <1>1, <2>1
    <2> HIDE DEF pages
    <2>3. pages % U32 = pages - U32
      BY <2>2, ModWrapped
    <2>4. pages - U32 < cur
      BY <1>1 DEF pages
    <2>5. QED
      BY <1>1, <1>2, <2>2, <2>3, <2>4
  <1>4. pages % U32 = pages
    BY <1>1, <1>3, ModSmall
  <1>5. pages <= memory.max_size /\ pages <= MAX_PAGES
    BY <1>1, <1>2, <1>4
  <1>6. pages * PAGE_SIZE <= MAX_PAGES * PAGE_SIZE
    BY <1>1, <1>5, ProductMonotone
  <1>7. cur * PAGE_SIZE <= pages * PAGE_SIZE
    BY <1>1, ProductMonotone
  <1>8. cur * PAGE_SIZE \in Nat /\ pages * PAGE_SIZE \in Nat /\ MAX_PAGES * PAGE_SIZE \in Nat
    BY <1>1, ProductNat
  <1>9. QED
    <2>1. pages * PAGE_SIZE < U32
      BY <1>1, <1>6, <1>8
    <2>2. QED
      BY <1>1, <1>3, <1>5, <1>7, <1>8, <2>1

(* The bytes after memory.grow.                                            *)
LEMMA GrownBytes ==
  ASSUME MemoryInv, NEW delta \in Deltas, delta # 0, ~Refused(delta), ~WrappedSum(delta)
  PROVE  LET old == memory.cur_size * PAGE_SIZE
             new == (memory.cur_size + delta) * PAGE_SIZE
             grown == Grown(delta) IN
         /\ grown.cur_size = memory.cur_size + delta
         /\ grown.max_size = memory.max_size
         /\ DOMAIN grown.bytes = 0 .. new - 1
         /\ \A i \in 0 .. new - 1 :
              grown.bytes[i] = IF i < old /\ i \in Allocated THEN memory.bytes[i] ELSE 0
         /\ grown.bytes \in [0 .. new - 1 -> Byte]
  <1> DEFINE old == memory.cur_size * PAGE_SIZE
             new == (memory.cur_size + delta) * PAGE_SIZE
             grown == Grown(delta)
  <1>1. memory \in [cur_size : 0 .. U32 - 1, max_size : 0 .. MAX_PAGES, bytes : [Allocated -> Byte]]
    BY DEF MemoryInv, TypeOK
  <1>2. /\ delta \in Nat /\ new \in Nat /\ old \in Nat
    BY GrowthIsBounded
  <1> HIDE DEF old, new
  <1>3. grown = [memory EXCEPT !.cur_size = memory.cur_size + delta,
                               !.bytes = Reallocated(memory.bytes, old, new)]
    BY <1>1 DEF Grown, old, new
  <1>4. /\ grown.cur_size = memory.cur_size + delta
        /\ grown.max_size = memory.max_size
        /\ grown.bytes = Reallocated(memory.bytes, old, new)
    BY <1>1, <1>3
  <1>5. \A i \in Allocated : memory.bytes[i] \in Byte
    BY <1>1
  <1>6. 0 \in Byte
    BY MemoryAssumption
  <1> HIDE DEF grown
  <1>7. /\ DOMAIN grown.bytes = 0 .. new - 1
        /\ \A i \in 0 .. new - 1 :
             grown.bytes[i] = IF i < old /\ i \in Allocated THEN memory.bytes[i] ELSE 0
        /\ grown.bytes \in [0 .. new - 1 -> Byte]
    BY <1>4, <1>5, <1>6 DEF Reallocated, Allocated
  <1>8. QED
    BY <1>4, <1>7 DEF grown, old, new

LEMMA GrowInv ==
  ASSUME MemoryInv, NEW delta \in Deltas, MemoryGrow(delta)
  PROVE  MemoryInv'
  <1>1. executed' \in 0 .. MAX_INSTRS /\ status' \in {"running", "wild", "exited"}
    BY MemoryAssumption DEF MemoryInv, TypeOK, MemoryGrow, Ready, Wild
  <1>2. answer' \in [type : {"none", "i32", "i64", "f32", "f64"}, value : [SlotBytes -> Byte]]
                   \cup [type : {"i32"}, pages : Nat]
    BY MemoryAssumption DEF MemoryInv, TypeOK, MemoryGrow, Wild, Pages
  <1>3. CASE UNCHANGED memory
    BY <1>1, <1>2, <1>3 DEF MemoryInv, TypeOK, Contiguous, PagesAreAllocated, Allocated
  <1>4. CASE delta # 0 /\ ~Refused(delta) /\ ~WrappedSum(delta) /\ memory' = Grown(delta)
    <2> DEFINE new == (memory.cur_size + delta) * PAGE_SIZE
    <2>1. /\ memory'.cur_size = memory.cur_size + delta
          /\ memory'.max_size = memory.max_size
          /\ DOMAIN memory'.bytes = 0 .. new - 1
          /\ memory'.bytes \in [0 .. new - 1 -> Byte]
      BY <1>4, GrownBytes
    <2>2. new \in Nat /\ delta \in Nat /\ memory.cur_size + delta < U32
      BY <1>4, GrowthIsBounded
    <2>3. memory.cur_size \in 0 .. U32 - 1 /\ memory.max_size \in 0 .. MAX_PAGES
      BY DEF MemoryInv, TypeOK
    <2>4. memory' \in [cur_size : 0 .. U32 - 1, max_size : 0 .. MAX_PAGES, bytes : [Allocated' -> Byte]]
      <3>1. memory.cur_size + delta \in 0 .. U32 - 1
        BY <2>2, <2>3, MemoryAssumption
      <3>2. memory' = [cur_size |-> memory'.cur_size, max_size |-> memory'.max_size,
                       bytes |-> memory'.bytes]
        BY <1>4 DEF Grown, MemoryInv, TypeOK
      <3>3. memory'.bytes \in [Allocated' -> Byte]
        BY <2>1 DEF Allocated
      <3>4. QED
        BY <2>1, <2>3, <3>1, <3>2, <3>3
    <2>5. TypeOK'
      BY <1>1, <1>2, <2>4 DEF TypeOK
    <2>6. Allocated' = 0 .. new - 1 /\ memory'.cur_size * PAGE_SIZE = new
      BY <2>1 DEF Allocated
    <2>7. Contiguous' /\ PagesAreAllocated'
      <3> HIDE DEF new
      <3>1. QED
        BY <2>2, <2>6 DEF Contiguous, PagesAreAllocated
    <2>8. QED
      BY <2>5, <2>7 DEF MemoryInv
  <1>5. QED
    BY <1>3, <1>4 DEF MemoryGrow, Wild

(***************************************************************************)
(* The invariant, and the theorems about LinearMemory alone.               *)
(***************************************************************************)
LEMMA NextMemoryInv == MemoryInv /\ [Next]_vars => MemoryInv'
  <1> SUFFICES ASSUME MemoryInv, [Next]_vars PROVE MemoryInv'
    OBVIOUS
  <1>1. CASE \E op \in LoadOps, offset \in Offsets, addr \in Addresses : Load(op, offset, addr)
    BY <1>1, LoadInv
  <1>2. CASE \E n \in StoreSizes, offset \in Offsets, addr \in Addresses, value \in Values :
               Store(n, offset, addr, value)
    BY <1>2, StoreInv
  <1>3. CASE MemorySize
    <2>1. executed' \in 0 .. MAX_INSTRS
      BY <1>3, MemoryAssumption DEF MemorySize, Ready, MemoryInv, TypeOK
    <2>2. QED
      <3>1. memory' = memory /\ status' = status /\ answer' = Pages(memory.cur_size)
        BY <1>3 DEF MemorySize
      <3>2. memory.cur_size \in Nat /\ Allocated' = Allocated
        BY <3>1, MemoryAssumption DEF MemoryInv, TypeOK, Allocated
      <3>3. answer' \in [type : {"i32"}, pages : Nat]
        BY <3>1, <3>2 DEF Pages
      <3>4. TypeOK'
        BY <2>1, <3>1, <3>2, <3>3 DEF MemoryInv, TypeOK
      <3>5. Contiguous' /\ PagesAreAllocated'
        BY <3>1, <3>2 DEF MemoryInv, Contiguous, PagesAreAllocated
      <3>6. QED
        BY <3>4, <3>5 DEF MemoryInv
  <1>4. CASE \E delta \in Deltas : MemoryGrow(delta)
    BY <1>4, GrowInv
  <1>5. CASE UNCHANGED vars
    BY <1>5 DEF vars, MemoryInv, TypeOK, Contiguous, PagesAreAllocated, Allocated
  <1>6. QED
    BY <1>1, <1>2, <1>3, <1>4, <1>5 DEF Next

LEMMA MemoryInvariant == Spec => []MemoryInv
  BY InitMemoryInv, NextMemoryInv, PTL DEF Spec

(* The fields of struct Memory keep their types: the size stays a 32-bit   *)
(* number, whatever deltas a program asks for.                             *)
THEOREM MemoryTypes == Spec => []TypeOK
  <1>1. MemoryInv => TypeOK
    BY DEF MemoryInv
  <1>2. QED
    BY <1>1, MemoryInvariant, PTL

(* The pages that memory.size reports are always allocated, if their bytes *)
(* can be counted in 32 bits.                                              *)
THEOREM ReportedPagesAreAllocated == Spec => []PagesAreAllocated
  <1>1. MemoryInv => PagesAreAllocated
    BY DEF MemoryInv
  <1>2. QED
    BY <1>1, MemoryInvariant, PTL

GrowthStep ==
  memory'.cur_size # memory.cur_size =>
    LET old == memory.cur_size * PAGE_SIZE IN
    /\ memory'.cur_size > memory.cur_size
    /\ \A i \in 0 .. old - 1 : memory'.bytes[i] = memory.bytes[i]
    /\ \A i \in old .. memory'.cur_size * PAGE_SIZE - 1 : memory'.bytes[i] = 0

LEMMA GrowStepZeroes ==
  ASSUME MemoryInv, NEW delta \in Deltas, MemoryGrow(delta)
  PROVE  GrowthStep
  <1>1. CASE UNCHANGED memory
    BY <1>1 DEF GrowthStep
  <1>2. CASE delta # 0 /\ ~Refused(delta) /\ ~WrappedSum(delta) /\ memory' = Grown(delta)
    <2> DEFINE old == memory.cur_size * PAGE_SIZE
               new == (memory.cur_size + delta) * PAGE_SIZE
    <2>1. /\ memory'.cur_size = memory.cur_size + delta
          /\ \A i \in 0 .. new - 1 :
               memory'.bytes[i] = IF i < old /\ i \in Allocated THEN memory.bytes[i] ELSE 0
      BY <1>2, GrownBytes
    <2>2. /\ delta \in Nat /\ memory.cur_size + delta < U32
          /\ old \in Nat /\ new \in Nat /\ old <= new /\ new < U32
      BY <1>2, GrowthIsBounded
    <2>3. memory.cur_size \in Nat /\ U32 \in Nat
      BY MemoryAssumption DEF MemoryInv, TypeOK
    <2>4. old < U32 => 0 .. old - 1 \subseteq Allocated
      BY DEF MemoryInv, PagesAreAllocated
    <2>5. memory'.cur_size * PAGE_SIZE = new
      BY <2>1
    <2> HIDE DEF old, new
    <2>6. 0 .. old - 1 \subseteq Allocated
      BY <2>2, <2>3, <2>4
    <2>7. \A i \in 0 .. old - 1 : memory'.bytes[i] = memory.bytes[i]
      BY <2>1, <2>2, <2>6
    <2>8. \A i \in old .. new - 1 : memory'.bytes[i] = 0
      BY <2>1, <2>2
    <2>9. memory'.cur_size > memory.cur_size
      BY <1>2, <2>1, <2>2, <2>3
    <2>10. QED
      BY <2>5, <2>7, <2>8, <2>9 DEF GrowthStep, old
  <1>3. QED
    BY <1>1, <1>2 DEF MemoryGrow, Wild

(* memory.grow adds pages of zeros and keeps the others, also after a      *)
(* program has stored behind its last page.                                *)
THEOREM GrowthAddsZeroes == Spec => GrownPagesAreZero
  <1>1. MemoryInv /\ [Next]_vars => [GrowthStep]_vars
    <2> SUFFICES ASSUME MemoryInv, Next PROVE GrowthStep
      OBVIOUS
    <2>1. CASE \E op \in LoadOps, offset \in Offsets, addr \in Addresses : Load(op, offset, addr)
      BY <2>1 DEF Load, Wild, GrowthStep
    <2>2. CASE \E n \in StoreSizes, offset \in Offsets, addr \in Addresses, value \in Values :
                 Store(n, offset, addr, value)
      BY <2>2 DEF Store, Wild, GrowthStep, MemoryInv, TypeOK
    <2>3. CASE MemorySize
      BY <2>3 DEF MemorySize, GrowthStep
    <2>4. CASE \E delta \in Deltas : MemoryGrow(delta)
      BY <2>4, GrowStepZeroes
    <2>5. QED
      BY <2>1, <2>2, <2>3, <2>4 DEF Next
  <1>2. QED
    BY <1>1, MemoryInvariant, PTL DEF Spec, GrownPagesAreZero, GrowthStep

(***************************************************************************)
(* The refinement.                                                         *)
(***************************************************************************)
LawfulInv == /\ MemoryInv
             /\ lawful \in BOOLEAN
             /\ lawful => Countable(memory.cur_size)

(* As long as a program is lawful, its memory is what is allocated.        *)
LEMMA LawfulBytes ==
  ASSUME LawfulInv, lawful
  PROVE  /\ Size \in Nat
         /\ 0 .. Size - 1 \subseteq Allocated
         /\ DOMAIN Visible = 0 .. Size - 1
         /\ \A i \in 0 .. Size - 1 : Visible[i] = memory.bytes[i]
  <1>1. memory.cur_size \in Nat /\ PAGE_SIZE \in Nat
    BY MemoryAssumption DEF LawfulInv, MemoryInv, TypeOK
  <1>2. Size \in Nat
    BY <1>1, ProductNat DEF Size
  <1>3. 0 .. Size - 1 \subseteq Allocated
    BY DEF LawfulInv, MemoryInv, PagesAreAllocated, Countable, Size
  <1>4. QED
    BY <1>2, <1>3 DEF Visible

LEMMA AbstractInit == LawfulInit => LawfulInv /\ Abstract!Init
  <1> SUFFICES ASSUME LawfulInit PROVE LawfulInv /\ Abstract!Init
    OBVIOUS
  <1>1. PICK limits \in Limits : memory = DefinedMemory(limits)
    BY DEF LawfulInit, Init
  <1>2. MemoryInv
    BY InitMemoryInv DEF LawfulInit
  <1>3. LawfulInv
    <2>1. Countable(memory.cur_size) \in BOOLEAN
      BY DEF Countable
    <2>2. lawful = Countable(memory.cur_size)
      BY DEF LawfulInit
    <2>3. lawful \in BOOLEAN /\ (lawful => Countable(memory.cur_size))
      BY <2>1, <2>2, Zenon
    <2>4. QED
      BY <1>2, <2>3 DEF LawfulInv
  <1>4. /\ memory.cur_size = limits.min
        /\ limits.flags = 1 => memory.max_size <= limits.max
        /\ memory.max_size \in Nat
    BY <1>1, MemoryAssumption DEF DefinedMemory, MaxSize
  <1>5. Visible = [i \in 0 .. memory.cur_size * PAGE_SIZE - 1 |-> 0]
    BY <1>1 DEF DefinedMemory, ZeroBytes, Visible, Allocated, Size
  <1>6. answer = [type |-> "none", value |-> [i \in 0 .. 7 |-> 0]]
    BY DEF LawfulInit, Init, NoAnswer, SlotBytes
  <1>7. lawful \in BOOLEAN
    BY <1>3 DEF LawfulInv
  <1>8. QED
    BY <1>3, <1>4, <1>5, <1>6, <1>7 DEF Abstract!Init, Abstract!Nothing

LEMMA LoadRefines ==
  ASSUME LawfulInv, lawful, NEW op \in LoadOps, NEW offset \in Offsets, NEW addr \in Addresses,
         LawfulLoad(op, offset, addr), lawful'
  PROVE  Abstract!Next
  <1> DEFINE ea == offset + addr
  <1>0. /\ Load(op, offset, addr) /\ Inside(offset, addr, op.n)
        /\ asked' = [op |-> "load", type |-> op.type, n |-> op.n, ext |-> op.ext, address |-> ea]
    <2>1. lawful' = (lawful /\ Inside(offset, addr, op.n))
      BY DEF LawfulLoad
    <2>2. Inside(offset, addr, op.n)
      BY <2>1, Zenon
    <2>3. QED
      BY <2>2 DEF LawfulLoad
  <1>1. ea \in Nat
    BY MemoryAssumption
  <1>2. /\ op.n \in {1, 2, 4, 8} /\ op.ext \in {"s", "u"}
        /\ op.type \in {"i32", "i64", "f32", "f64"}
        /\ Width(op.type) \in {4, 8} /\ op.n <= Width(op.type)
    <2>1. CASE op \in {[type |-> t, n |-> Width(t), ext |-> "u"] : t \in {"i32", "i64", "f32", "f64"}}
      BY <2>1 DEF Width
    <2>2. CASE op \in {[type |-> "i32", n |-> n, ext |-> e] : n \in {1, 2}, e \in {"s", "u"}}
      BY <2>2 DEF Width
    <2>3. CASE op \in {[type |-> "i64", n |-> n, ext |-> e] : n \in {1, 2, 4}, e \in {"s", "u"}}
      BY <2>3 DEF Width
    <2>4. QED
      BY <2>1, <2>2, <2>3 DEF LoadOps
  <1>3. ea + op.n <= Size /\ Size \in Nat
    BY <1>0, LawfulBytes DEF Inside
  <1> HIDE DEF ea
  <1>4. Accessed(ea, op.n) \subseteq 0 .. Size - 1
    BY <1>1, <1>2, <1>3 DEF Accessed
  <1>5. Accessed(ea, op.n) \subseteq Allocated
    BY <1>4, LawfulBytes
  <1>6. /\ answer' = [type |-> op.type, value |-> Loaded(op, memory.bytes, ea)]
        /\ UNCHANGED memory
    BY <1>0, <1>5 DEF Load, Effective, ea
  <1>7. \A i \in 0 .. op.n - 1 : Visible[ea + i] = memory.bytes[ea + i]
    BY <1>1, <1>2, <1>3, LawfulBytes
  <1>8. Loaded(op, memory.bytes, ea)
          = [i \in 0 .. 7 |-> Abstract!ByteOf(op.type, op.n, op.ext, ea, i)]
    <2>1. \A i \in 0 .. 7 :
            Loaded(op, memory.bytes, ea)[i] = Abstract!ByteOf(op.type, op.n, op.ext, ea, i)
      <3> SUFFICES ASSUME NEW i \in 0 .. 7
                   PROVE Loaded(op, memory.bytes, ea)[i]
                           = Abstract!ByteOf(op.type, op.n, op.ext, ea, i)
        OBVIOUS
      <3>1. Abstract!WidthOf(op.type) = Width(op.type)
        BY DEF Abstract!WidthOf, Width
      <3>2. Visible[ea + (op.n - 1)] = memory.bytes[ea + (op.n - 1)]
        BY <1>2, <1>7
      <3>3. ea + op.n - 1 = ea + (op.n - 1)
        BY <1>1, <1>2
      <3>4. CASE i < op.n
        BY <1>2, <1>7, <3>4
        DEF Loaded, Copied, SignFilled, SlotBytes, Abstract!ByteOf, Abstract!Extension
      <3>5. CASE ~(i < op.n)
        BY <1>2, <3>1, <3>2, <3>3, <3>5
        DEF Loaded, Copied, SignFilled, SlotBytes, Abstract!ByteOf, Abstract!Extension
      <3>6. QED
        BY <3>4, <3>5
    <2>2. QED
      BY <2>1 DEF Loaded, Copied, SignFilled, SlotBytes
  <1>9. UNCHANGED <<Visible, memory.cur_size, memory.max_size, lawful>>
    BY <1>6 DEF Visible, Size, Allocated
  <1>10. Abstract!Load(op.type, op.n, op.ext, ea)
    BY <1>3, <1>6, <1>8, <1>9 DEF Abstract!Load, Abstract!Inside, Size
  <1>11. QED
    <2>1. asked' \in Abstract!Loads
      BY <1>0, <1>1, <1>2 DEF Abstract!Loads, Abstract!Types
    <2>2. QED
      BY <1>0, <1>10, <2>1 DEF Abstract!Next

LEMMA StoreRefines ==
  ASSUME LawfulInv, lawful, NEW n \in StoreSizes, NEW offset \in Offsets,
         NEW addr \in Addresses, NEW value \in Values,
         LawfulStore(n, offset, addr, value), lawful'
  PROVE  Abstract!Next
  <1> DEFINE ea == offset + addr
             bytes == Stored(memory.bytes, ea, n, value)
  <1>0. /\ Store(n, offset, addr, value) /\ Inside(offset, addr, n)
        /\ asked' = [op |-> "store", n |-> n, address |-> ea, value |-> value]
    <2>1. lawful' = (lawful /\ Inside(offset, addr, n))
      BY DEF LawfulStore
    <2>2. Inside(offset, addr, n)
      BY <2>1, Zenon
    <2>3. QED
      BY <2>2 DEF LawfulStore
  <1>1. ea \in Nat /\ value \in [0 .. 7 -> Byte]
    BY MemoryAssumption
  <1>2. n \in {1, 2, 4, 8} /\ ea + n <= Size /\ Size \in Nat
    BY <1>0, LawfulBytes DEF Inside, StoreSizes
  <1> HIDE DEF ea
  <1>3. Accessed(ea, n) \subseteq Allocated
    BY <1>1, <1>2, LawfulBytes DEF Accessed
  <1>4. /\ memory' = [memory EXCEPT !.bytes = bytes]
        /\ answer' = NoAnswer
    BY <1>0, <1>3 DEF Store, Effective, ea
  <1>5. memory \in [cur_size : 0 .. U32 - 1, max_size : 0 .. MAX_PAGES, bytes : [Allocated -> Byte]]
    BY DEF LawfulInv, MemoryInv, TypeOK
  <1>6. DOMAIN bytes = Allocated
    BY DEF Stored, Allocated
  <1> HIDE DEF bytes
  <1>7. /\ memory'.bytes = bytes /\ Allocated' = Allocated
        /\ UNCHANGED <<memory.cur_size, memory.max_size>>
    BY <1>4, <1>5, <1>6 DEF Allocated
  <1>8. Size' = Size
    BY <1>7 DEF Size
  <1>9. /\ DOMAIN Visible = 0 .. Size - 1
        /\ 0 .. Size - 1 \subseteq Allocated
        /\ \A i \in 0 .. Size - 1 : Visible[i] = memory.bytes[i]
    BY LawfulBytes
  <1>10. Visible' = [i \in 0 .. Size - 1 |-> bytes[i]]
    BY <1>7, <1>8, <1>9 DEF Visible
  <1>11. Visible' = [i \in DOMAIN Visible |->
                      IF i - ea \in 0 .. n - 1 THEN value[i - ea] ELSE Visible[i]]
    <2>1. \A i \in 0 .. Size - 1 :
            bytes[i] = IF i - ea \in 0 .. n - 1 THEN value[i - ea] ELSE Visible[i]
      <3> SUFFICES ASSUME NEW i \in 0 .. Size - 1
                   PROVE bytes[i] = IF i - ea \in 0 .. n - 1 THEN value[i - ea] ELSE Visible[i]
        OBVIOUS
      <3>1. i \in Accessed(ea, n) <=> i - ea \in 0 .. n - 1
        BY <1>1, <1>2 DEF Accessed
      <3>2. i \in DOMAIN memory.bytes
        BY <1>9 DEF Allocated
      <3>3. QED
        BY <1>9, <3>1, <3>2 DEF Stored, bytes
    <2>2. QED
      BY <1>9, <1>10, <2>1
  <1>12. Abstract!Store(n, ea, value)
    BY <1>2, <1>4, <1>7, <1>11
    DEF Abstract!Store, Abstract!Inside, Abstract!Nothing, NoAnswer, SlotBytes, Size
  <1>13. QED
    <2>1. asked' \in Abstract!Stores
      BY <1>0, <1>1, <1>2 DEF Abstract!Stores
    <2>2. QED
      BY <1>0, <1>12, <2>1 DEF Abstract!Next

LEMMA SizeRefines ==
  ASSUME LawfulInv, lawful, LawfulSize
  PROVE  Abstract!Next
  <1>1. UNCHANGED <<Visible, memory.cur_size, memory.max_size>>
    BY DEF LawfulSize, MemorySize, Visible, Size, Allocated
  <1>2. Abstract!Size
    BY <1>1 DEF LawfulSize, MemorySize, Pages, Abstract!Size
  <1>3. QED
    BY <1>2 DEF LawfulSize, Abstract!Next

LEMMA GrowRefines ==
  ASSUME LawfulInv, lawful, NEW delta \in Deltas, LawfulGrow(delta), lawful'
  PROVE  Abstract!Next
  <1> DEFINE old == memory.cur_size * PAGE_SIZE
             new == (memory.cur_size + delta) * PAGE_SIZE
  <1>0. /\ MemoryGrow(delta) /\ memory.cur_size + delta <= memory.max_size
        /\ status' # "exited"
        /\ asked' = [op |-> "grow", delta |-> delta]
    <2>1. lawful' = (lawful /\ (memory.cur_size + delta <= memory.max_size /\ status' # "exited"))
      BY DEF LawfulGrow
    <2>2. memory.cur_size + delta <= memory.max_size /\ status' # "exited"
      BY <2>1, Zenon
    <2>3. QED
      BY <2>2 DEF LawfulGrow
  <1>1. /\ memory.cur_size \in Nat /\ memory.max_size \in Nat
        /\ delta \in Nat /\ delta < U32 /\ U32 \in Nat
        /\ memory.max_size < U32
    BY MemoryAssumption DEF LawfulInv, MemoryInv, TypeOK
  <1>2. /\ DOMAIN Visible = 0 .. old - 1 /\ old \in Nat
        /\ 0 .. old - 1 \subseteq Allocated
        /\ \A i \in 0 .. old - 1 : Visible[i] = memory.bytes[i]
    BY LawfulBytes DEF Size
  <1>3. ~Refused(delta) /\ ~WrappedSum(delta)
    <2>1. (memory.cur_size + delta) % U32 = memory.cur_size + delta
      <3> DEFINE sum == memory.cur_size + delta
      <3>1. sum \in Nat /\ sum < U32
        BY <1>0, <1>1
      <3> HIDE DEF sum
      <3>2. sum % U32 = sum
        BY <1>1, <3>1, ModSmall
      <3>3. QED
        BY <3>2 DEF sum
    <2>2. QED
      BY <1>0, <1>1, <2>1 DEF Refused, WrappedSum, SumOfPages
  <1>4. asked' \in Abstract!Growths
    BY <1>0, <1>1 DEF Abstract!Growths
  <1>5. CASE delta = 0 /\ answer' = Pages(memory.cur_size) /\ UNCHANGED memory
    <2>1. Size' = Size /\ UNCHANGED <<Visible, memory.cur_size, memory.max_size>>
      BY <1>5 DEF Visible, Size, Allocated
    <2>2. Size = old
      BY DEF Size
    <2> HIDE DEF old
    <2>3. Visible' = [i \in 0 .. old - 1 |-> IF i \in DOMAIN Visible THEN Visible[i] ELSE 0]
      BY <1>2, <2>1, <2>2 DEF Visible
    <2>4. memory'.cur_size * PAGE_SIZE = old
      BY <2>1, <2>2 DEF Size
    <2>5. Abstract!Grow(delta)
      BY <1>1, <1>5, <2>1, <2>3, <2>4 DEF Pages, Abstract!Grow
    <2>6. QED
      BY <1>0, <1>4, <2>5 DEF Abstract!Next
  <1>6. CASE delta # 0 /\ memory' = Grown(delta) /\ answer' = Pages(memory.cur_size)
    <2>1. /\ memory'.cur_size = memory.cur_size + delta
          /\ memory'.max_size = memory.max_size
          /\ DOMAIN memory'.bytes = 0 .. new - 1
          /\ \A i \in 0 .. new - 1 :
               memory'.bytes[i] = IF i < old /\ i \in Allocated THEN memory.bytes[i] ELSE 0
      BY <1>3, <1>6, GrownBytes DEF LawfulInv
    <2>2. Size' = new /\ Allocated' = 0 .. new - 1
      BY <2>1 DEF Size, Allocated
    <2>3. new \in Nat
      BY <1>3, <1>6, GrowthIsBounded DEF LawfulInv
    <2> HIDE DEF old, new
    <2>4. Visible' = [i \in 0 .. new - 1 |-> memory'.bytes[i]]
      BY <2>2 DEF Visible
    <2>5. Visible' = [i \in 0 .. new - 1 |-> IF i \in DOMAIN Visible THEN Visible[i] ELSE 0]
      BY <1>2, <2>1, <2>3, <2>4
    <2>6. Abstract!Grow(delta)
      BY <1>0, <1>1, <1>6, <2>1, <2>5 DEF Abstract!Grow, Pages, new
    <2>7. QED
      BY <1>0, <1>4, <2>6 DEF Abstract!Next
  <1>7. QED
    BY <1>0, <1>3, <1>5, <1>6 DEF MemoryGrow, Wild

LEMMA AndBoolean ==
  ASSUME NEW b \in BOOLEAN, NEW c, (b /\ c) = lawful'
  PROVE  lawful' \in BOOLEAN /\ (lawful' => b)
  <1>1. CASE b = TRUE /\ c
    BY <1>1, Zenon
  <1>2. CASE ~(b /\ c)
    BY <1>2, Zenon
  <1>3. QED
    BY <1>1, <1>2, Zenon

LEMMA LawfulKept ==
  ASSUME LawfulInv, [LawfulNext]_lawfulVars
  PROVE  lawful' \in BOOLEAN /\ (lawful' => lawful)
  <1>1. CASE \E op \in LoadOps, offset \in Offsets, addr \in Addresses :
               lawful' = (lawful /\ Inside(offset, addr, op.n))
    <2>1. PICK op \in LoadOps, offset \in Offsets, addr \in Addresses :
               lawful' = (lawful /\ Inside(offset, addr, op.n))
      BY <1>1
    <2>2. QED
      BY <2>1, AndBoolean DEF LawfulInv
  <1>2. CASE \E n \in StoreSizes, offset \in Offsets, addr \in Addresses :
               lawful' = (lawful /\ Inside(offset, addr, n))
    <2>1. PICK n \in StoreSizes, offset \in Offsets, addr \in Addresses :
               lawful' = (lawful /\ Inside(offset, addr, n))
      BY <1>2
    <2>2. QED
      BY <2>1, AndBoolean DEF LawfulInv
  <1>3. CASE \E delta \in Deltas : 
               lawful' = (lawful /\ (memory.cur_size + delta <= memory.max_size /\ status' # "exited"))
    <2>1. PICK delta \in Deltas :
               lawful' = (lawful /\ (memory.cur_size + delta <= memory.max_size /\ status' # "exited"))
      BY <1>3
    <2>2. QED
      BY <2>1, AndBoolean DEF LawfulInv
  <1>4. CASE UNCHANGED lawful
    BY <1>4 DEF LawfulInv
  <1>5. QED
    BY <1>1, <1>2, <1>3, <1>4
    DEF LawfulNext, LawfulLoad, LawfulStore, LawfulSize, LawfulGrow, lawfulVars

LEMMA LawfulNextInv == LawfulInv /\ [LawfulNext]_lawfulVars => LawfulInv'
  <1> SUFFICES ASSUME LawfulInv, [LawfulNext]_lawfulVars PROVE LawfulInv'
    OBVIOUS
  <1>1. MemoryInv'
    <2>1. LawfulNext => Next
      BY DEF LawfulNext, LawfulLoad, LawfulStore, LawfulSize, LawfulGrow, Next
    <2>2. QED
      BY <2>1, NextMemoryInv DEF LawfulInv, lawfulVars
  <1>2. lawful' \in BOOLEAN /\ (lawful' => lawful)
    BY LawfulKept
  <1>3. lawful /\ lawful' => Countable(memory'.cur_size)
    <2>1. CASE \E delta \in Deltas : MemoryGrow(delta)
      <3>1. PICK delta \in Deltas : MemoryGrow(delta)
        BY <2>1
      <3>2. CASE delta # 0 /\ ~Refused(delta) /\ ~WrappedSum(delta) /\ memory' = Grown(delta)
        BY <3>2, GrownBytes, GrowthIsBounded DEF LawfulInv, Countable
      <3>3. CASE UNCHANGED memory
        BY <3>3 DEF LawfulInv, Countable
      <3>4. QED
        BY <3>1, <3>2, <3>3 DEF MemoryGrow, Wild
    <2>2. CASE UNCHANGED memory.cur_size
      BY <2>2 DEF LawfulInv, Countable
    <2>3. QED
      <3>1. memory \in [cur_size : 0 .. U32 - 1, max_size : 0 .. MAX_PAGES,
                        bytes : [Allocated -> Byte]]
        BY DEF LawfulInv, MemoryInv, TypeOK
      <3>2. QED
        BY <2>1, <2>2, <3>1
        DEF LawfulNext, LawfulLoad, LawfulStore, LawfulSize, LawfulGrow,
            Load, Store, MemorySize, Wild, lawfulVars, vars
  <1>4. QED
    BY <1>1, <1>2, <1>3 DEF LawfulInv, Countable

LEMMA LawfulStepRefines ==
  ASSUME LawfulInv, LawfulInv', [LawfulNext]_lawfulVars
  PROVE  [Abstract!Next]_Abstract!vars
  <1>1. CASE ~lawful'
    BY <1>1 DEF Abstract!Next, Abstract!End
  <1>2. CASE UNCHANGED lawfulVars
    BY <1>2 DEF lawfulVars, vars, Abstract!vars, Visible, Size, Allocated
  <1>3. CASE lawful' /\ LawfulNext
    <2>1. lawful
      BY <1>3, LawfulKept
    <2>2. CASE \E op \in LoadOps, offset \in Offsets, addr \in Addresses :
                 LawfulLoad(op, offset, addr)
      BY <1>3, <2>1, <2>2, LoadRefines
    <2>3. CASE \E n \in StoreSizes, offset \in Offsets, addr \in Addresses, value \in Values :
                 LawfulStore(n, offset, addr, value)
      BY <1>3, <2>1, <2>3, StoreRefines
    <2>4. CASE LawfulSize
      BY <1>3, <2>1, <2>4, SizeRefines
    <2>5. CASE \E delta \in Deltas : LawfulGrow(delta)
      BY <1>3, <2>1, <2>5, GrowRefines
    <2>6. QED
      BY <1>3, <2>2, <2>3, <2>4, <2>5 DEF LawfulNext
  <1>4. QED
    BY <1>1, <1>2, <1>3

(* Up to its first trespass, a program cannot tell the interpreter's       *)
(* memory from the one WebAssembly specifies.                              *)
THEOREM MemoryImplementsItsSpecification == LawfulSpec => ImplementsMemory
  <1>1. LawfulInit => LawfulInv /\ Abstract!Init
    BY AbstractInit
  <1>2. LawfulInv /\ [LawfulNext]_lawfulVars => LawfulInv'
    BY LawfulNextInv
  <1>3. LawfulInv /\ LawfulInv' /\ [LawfulNext]_lawfulVars => [Abstract!Next]_Abstract!vars
    BY LawfulStepRefines
  <1>4. QED
    BY <1>1, <1>2, <1>3, PTL DEF LawfulSpec, ImplementsMemory, Abstract!Spec

=============================================================================
