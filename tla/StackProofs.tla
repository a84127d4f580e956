----------------------------- MODULE StackProofs -----------------------------
(***************************************************************************)
(* The virtual machine keeps what WebAssembly promises of blocks, branches *)
(* and calls: for every valid module in which branches leave nothing       *)
(* behind and nothing is imported, and for every size of the stacks, each  *)
(* step of it is a step of WebAssemblyStack.tla.                           *)
(***************************************************************************)
EXTENDS InterpreterProofs, StackRefinement

-----------------------------------------------------------------------------
(***************************************************************************)
(* Slices of the operand stack.                                            *)
(***************************************************************************)
Values(s, low, high) == {s[x] : x \in low + 1 .. high}

LEMMA SliceIsSequence ==
  ASSUME NEW s, NEW low \in Int, NEW high \in Int, low <= high
  PROVE  /\ Slice(s, low, high) \in Seq(Values(s, low, high))
         /\ Len(Slice(s, low, high)) = high - low
         /\ \A k \in 1 .. high - low : Slice(s, low, high)[k] = s[low + k]
<1> DEFINE S == Values(s, low, high)
<1>1. high - low \in Nat
  OBVIOUS
<1>2. Slice(s, low, high) \in [1 .. high - low -> S]
  <2>1. \A k \in 1 .. high - low : low + k \in low + 1 .. high
    OBVIOUS
  <2>2. \A k \in 1 .. high - low : s[low + k] \in S
    BY <2>1 DEF Values
  <2> QED
    BY <2>2 DEF Slice
<1>3. Slice(s, low, high) \in Seq(S)
  BY <1>1, <1>2, SeqDef
<1>4. DOMAIN Slice(s, low, high) = 1 .. high - low
  BY DEF Slice
<1>5. Len(Slice(s, low, high)) = high - low
  BY <1>1, <1>3, <1>4, LenProperties
<1> QED
  BY <1>3, <1>5 DEF Slice

(* What n slots at the other end of a slice leave, and they themselves.    *)
LEMMA SliceSplits ==
  ASSUME NEW s, NEW low \in Int, NEW high \in Int, low <= high, NEW n \in 0 .. high - low
  PROVE  LET slice == Slice(s, low, high) IN
         /\ SubSeq(slice, 1, Len(slice) - n) = Slice(s, low, high - n)
         /\ SubSeq(slice, Len(slice) - n + 1, Len(slice)) = Slice(s, high - n, high)
<1> DEFINE slice == Slice(s, low, high)
           size == high - low
           S == Values(s, low, high)
<1>1. /\ slice \in Seq(S) /\ Len(slice) = size /\ size \in Nat /\ n \in 0 .. size
      /\ \A k \in 1 .. size : slice[k] = s[low + k] /\ slice[k] \in S
  <2>1. slice \in Seq(S) /\ Len(slice) = size /\ \A k \in 1 .. size : slice[k] = s[low + k]
    BY SliceIsSequence
  <2> QED
    BY <2>1, ElementOfSeq
<1>2. SubSeq(slice, 1, size - n) = Slice(s, low, high - n)
  <2> DEFINE sub == SubSeq(slice, 1, size - n)
             part == Slice(s, low, high - n)
  <2>1. \A i \in 1 .. size - n : i \in 1 .. size /\ 1 + i - 1 = i
    BY <1>1
  <2>2. \A i \in 1 .. size - n : slice[i] \in S
    BY <1>1, <2>1
  <2>3. 1 \in Int /\ size - n \in Int /\ (size - n) - 1 + 1 = size - n
    BY <1>1
  <2> HIDE DEF slice, S, size
  <2>4. /\ sub \in Seq(S)
        /\ Len(sub) = IF 1 <= size - n THEN (size - n) - 1 + 1 ELSE 0
        /\ \A i \in 1 .. (size - n) - 1 + 1 : sub[i] = slice[1 + i - 1]
    BY <2>2, <2>3, SubSeqProperties
  <2>5. Len(sub) = size - n
    BY <1>1, <2>3, <2>4
  <2>6. sub \in [1 .. size - n -> S]
    BY <2>4, <2>5, LenProperties
  <2>7. \A i \in 1 .. size - n : sub[i] = s[low + i]
    BY <1>1, <2>1, <2>3, <2>4
  <2>8. (high - n) - low = size - n
    BY DEF size
  <2> QED
    BY <2>6, <2>7, <2>8 DEF Slice
<1>3. SubSeq(slice, size - n + 1, size) = Slice(s, high - n, high)
  <2> DEFINE sub == SubSeq(slice, size - n + 1, size)
  <2>1. \A i \in size - n + 1 .. size : i \in 1 .. size
    BY <1>1
  <2>2. \A i \in size - n + 1 .. size : slice[i] \in S
    BY <1>1, <2>1
  <2>3. size - n + 1 \in Int /\ size \in Int /\ size - (size - n + 1) + 1 = n
    BY <1>1
  <2>4. \A i \in 1 .. n : /\ (size - n + 1) + i - 1 \in 1 .. size
                          /\ low + ((size - n + 1) + i - 1) = (high - n) + i
    BY <1>1
  <2> HIDE DEF slice, S, size
  <2>5. /\ sub \in Seq(S)
        /\ Len(sub) = IF size - n + 1 <= size THEN size - (size - n + 1) + 1 ELSE 0
        /\ \A i \in 1 .. size - (size - n + 1) + 1 : sub[i] = slice[(size - n + 1) + i - 1]
    BY <2>2, <2>3, SubSeqProperties
  <2>6. Len(sub) = n
    BY <1>1, <2>3, <2>5
  <2>7. sub \in [1 .. n -> S]
    BY <2>5, <2>6, LenProperties
  <2>8. \A i \in 1 .. n : sub[i] = s[(high - n) + i]
    BY <1>1, <2>3, <2>4, <2>5
  <2>9. high - (high - n) = n
    OBVIOUS
  <2> QED
    BY <2>7, <2>8, <2>9 DEF Slice
<1> QED
  BY <1>1, <1>2, <1>3

LEMMA SliceJoins ==
  ASSUME NEW s, NEW low \in Int, NEW mid \in Int, NEW high \in Int, low <= mid, mid <= high
  PROVE  Slice(s, low, mid) \o Slice(s, mid, high) = Slice(s, low, high)
<1> DEFINE a == Slice(s, low, mid)
           b == Slice(s, mid, high)
           c == Slice(s, low, high)
           S == Values(s, low, high)
<1>1. Values(s, low, mid) \subseteq S /\ Values(s, mid, high) \subseteq S
  <2>1. low + 1 .. mid \subseteq low + 1 .. high /\ mid + 1 .. high \subseteq low + 1 .. high
    OBVIOUS
  <2> QED
    BY <2>1 DEF Values
<1>2. /\ a \in Seq(Values(s, low, mid)) /\ Len(a) = mid - low
      /\ b \in Seq(Values(s, mid, high)) /\ Len(b) = high - mid
      /\ \A k \in 1 .. mid - low : a[k] = s[low + k]
      /\ \A k \in 1 .. high - mid : b[k] = s[mid + k]
  BY SliceIsSequence
<1>3. /\ c \in Seq(S) /\ Len(c) = high - low
      /\ \A k \in 1 .. high - low : c[k] = s[low + k]
  <2>1. low <= high
    OBVIOUS
  <2> QED
    BY <2>1, SliceIsSequence
<1>4. a \in Seq(S) /\ b \in Seq(S)
  <2> HIDE DEF a, b, S
  <2> QED
    BY <1>1, <1>2, SeqMonotonic
<1> HIDE DEF a, b, c, S
<1>5. /\ a \o b \in Seq(S)
      /\ Len(a \o b) = Len(a) + Len(b)
      /\ \A i \in 1 .. Len(a) + Len(b) : (a \o b)[i] = IF i <= Len(a) THEN a[i] ELSE b[i - Len(a)]
  BY <1>4, ConcatProperties
<1>6. Len(a \o b) = Len(c)
  BY <1>2, <1>3, <1>5
<1>7. \A i \in 1 .. Len(c) : (a \o b)[i] = c[i]
  <2> SUFFICES ASSUME NEW i \in 1 .. high - low
               PROVE  (a \o b)[i] = s[low + i]
    BY <1>3
  <2>1. i \in 1 .. Len(a) + Len(b)
    BY <1>2
  <2>2. CASE i <= mid - low
    <3>1. i \in 1 .. mid - low
      BY <2>2
    <3> QED
      BY <1>2, <1>5, <2>1, <2>2, <3>1
  <2>3. CASE ~(i <= mid - low)
    <3>1. i - (mid - low) \in 1 .. high - mid /\ mid + (i - (mid - low)) = low + i
      BY <2>3
    <3> QED
      BY <1>2, <1>5, <2>1, <2>3, <3>1
  <2> QED
    BY <2>2, <2>3
<1> QED
  BY <1>3, <1>5, <1>6, <1>7, SeqEqual DEF a, b, c

(* The same values in other slots, or of another array.                    *)
LEMMA SliceMoves ==
  ASSUME NEW s, NEW new, NEW low \in Int, NEW base \in Int, NEW n \in Int,
         \A k \in 1 .. n : new[base + k] = s[low + k]
  PROVE  Slice(new, base, base + n) = Slice(s, low, low + n)
<1>1. (base + n) - base = n /\ (low + n) - low = n
  OBVIOUS
<1> QED
  BY <1>1 DEF Slice

LEMMA SliceStays ==
  ASSUME NEW s, NEW new, NEW low \in Int, NEW high \in Int,
         \A x \in low + 1 .. high : new[x] = s[x]
  PROVE  Slice(new, low, high) = Slice(s, low, high)
<1>1. \A k \in 1 .. high - low : low + k \in low + 1 .. high
  OBVIOUS
<1> QED
  BY <1>1 DEF Slice

(* The entries up to the n-th, the last of them changed.                   *)
LEMMA LowestAndOne ==
  ASSUME NEW s, NEW top \in Nat, DOMAIN s = 1 .. top, NEW n \in 1 .. top + 1, NEW e
  PROVE  Append(SubSeq(s, 1, n - 1), e) = [m \in 1 .. n |-> IF m = n THEN e ELSE s[m]]
<1> DEFINE S == {s[m] : m \in 1 .. top} \cup {e}
           sub == SubSeq(s, 1, n - 1)
           new == [m \in 1 .. n |-> IF m = n THEN e ELSE s[m]]
<1>1. \A m \in 1 .. n - 1 : m \in 1 .. top /\ 1 + m - 1 = m
  OBVIOUS
<1>2. \A m \in 1 .. n - 1 : s[m] \in S
  BY <1>1
<1>3. 1 \in Int /\ n - 1 \in Int /\ (n - 1) - 1 + 1 = n - 1
  OBVIOUS
<1> HIDE DEF S
<1>4. /\ sub \in Seq(S)
      /\ Len(sub) = IF 1 <= n - 1 THEN (n - 1) - 1 + 1 ELSE 0
      /\ \A i \in 1 .. (n - 1) - 1 + 1 : sub[i] = s[1 + i - 1]
  BY <1>2, <1>3, SubSeqProperties
<1>5. Len(sub) = n - 1 /\ \A i \in 1 .. n - 1 : sub[i] = s[i]
  BY <1>1, <1>3, <1>4
<1>6. e \in S
  BY DEF S
<1> HIDE DEF sub
<1>7. Append(sub, e) \in Seq(S) /\ Len(Append(sub, e)) = n
  BY <1>4, <1>5, <1>6, AppendProperties
<1>8. Append(sub, e) \in [1 .. n -> S]
  BY <1>7, LenProperties
<1>9. \A m \in 1 .. n : Append(sub, e)[m] = new[m]
  <2> SUFFICES ASSUME NEW m \in 1 .. n
               PROVE  Append(sub, e)[m] = IF m = n THEN e ELSE s[m]
    OBVIOUS
  <2>1. /\ Append(sub, e)[Len(sub) + 1] = e
        /\ \A i \in 1 .. Len(sub) : Append(sub, e)[i] = sub[i]
    BY <1>4, <1>6, AppendProperties
  <2>2. m = n \/ m \in 1 .. n - 1
    OBVIOUS
  <2> QED
    BY <1>5, <2>1, <2>2
<1> QED
  BY <1>8, <1>9 DEF sub

-----------------------------------------------------------------------------
(***************************************************************************)
(* The parts of the frames on the operand stack.  The inductive invariant: *)
(* what a frame has below its operands ends where the next one begins.     *)
(***************************************************************************)
Stepped(w, frames, top) ==
  \A i, j \in 0 .. top : i < j => Floor(w, frames, i) <= Below(w, frames, j)

StepsInv == Exact(wasm) /\ Running => Stepped(wasm, callstack, csp)

Live == Inv /\ Running /\ Exact(wasm) /\ TypedStack /\ Stepped(wasm, callstack, csp)

BelowOf(i) == Below(wasm, callstack, i)
FloorOf(i) == Floor(wasm, callstack, i)

(* The function of a frame, and how its own operands begin.                *)
LEMMA FrameFunction ==
  ASSUME Inv, Running, Exact(wasm), NEW i \in 0 .. csp
  PROVE  LET f == i - wasm.nest[BlockAt(i)] IN
         /\ f \in 0 .. i
         /\ BlockAt(f) = FunctionOf(wasm, BlockAt(i))
         /\ BlockAt(f) \in DOMAIN wasm.labels /\ BlockAt(i) \in DOMAIN wasm.labels
         /\ IsFunction(wasm, BlockAt(f))
         /\ callstack[f].sp \in Int /\ callstack[f].sp >= -1
         /\ SlotCount(wasm, BlockAt(f)) \in Nat /\ EntryHeight(wasm, BlockAt(i)) \in Nat
         /\ FloorOf(i) = callstack[f].sp + SlotCount(wasm, BlockAt(f))
                            + EntryHeight(wasm, BlockAt(i))
<1> DEFINE f == i - wasm.nest[BlockAt(i)]
<1>1. ControlInv /\ Operands /\ wasm \in Modules /\ csp \in Nat
  BY Takes, TypedAtPc
<1>2. Mirrors(wasm, callstack, csp) /\ Stacked(wasm, callstack, csp)
  BY <1>1 DEF ControlInv, Control, Framed, Operands
<1>3. wasm.nest[BlockAt(i)] \in 0 .. i /\ i \in Nat /\ BlockAt(i) \in DOMAIN wasm.labels
  BY <1>2 DEF Mirrors, BlockAt
<1>4. Mirrors(wasm, callstack, i)
  <2>1. \A j \in 0 .. i : j \in 0 .. csp
    BY <1>1
  <2> QED
    BY <1>2, <2>1 DEF Mirrors
<1>5. f \in 0 .. i /\ f \in 0 .. csp /\ wasm.nest[BlockAt(i)] \in 0 .. wasm.nest[BlockAt(i)]
  BY <1>1, <1>3
<1>6. BlockAt(f) \in DOMAIN wasm.labels /\ wasm.nest[BlockAt(f)] = 0
  <2>1. wasm.nest[callstack[i].block] \in 0 .. wasm.nest[callstack[i].block]
    BY <1>5 DEF BlockAt
  <2>2. /\ callstack[f].block \in DOMAIN wasm.labels
        /\ wasm.nest[callstack[f].block]
             = wasm.nest[callstack[i].block] - wasm.nest[callstack[i].block]
    BY <1>1, <1>3, <1>4, <2>1, LabelAtDepth DEF BlockAt
  <2> QED
    BY <1>3, <2>2 DEF BlockAt
<1>7. IsFunction(wasm, BlockAt(f)) /\ EntryHeight(wasm, BlockAt(f)) = 0
  <2>1. NestedBlock(wasm, BlockAt(f))
    BY <1>1, <1>6, BlockFacts
  <2>2. IsFunction(wasm, BlockAt(f))
    BY <1>6, <2>1 DEF NestedBlock
  <2> QED
    BY <2>2 DEF EntryHeight
<1>8. BlockAt(f) = FunctionOf(wasm, BlockAt(i))
  BY <1>3, <1>4, <1>5 DEF Mirrors, FunctionOf, BlockAt
<1>9. /\ callstack[f].sp \in Int /\ callstack[f].sp >= -1
      /\ EntryHeight(wasm, BlockAt(i)) \in Nat
  BY <1>2, <1>5, <1>7 DEF Stacked, Entered, BlockAt
<1>10. SlotCount(wasm, BlockAt(f)) \in Nat
  BY <1>1, <1>6, BlockCounts
<1>11. Slack(wasm, callstack, i) = Slack(wasm, callstack, f)
  BY <1>2, <1>5 DEF Stacked, Layered, Covers, BlockAt
<1>12. FloorOf(f) = callstack[f].sp + SlotCount(wasm, BlockAt(f))
  BY <1>7 DEF FloorOf, Floor, IsFunction, BlockAt
<1>13. FloorOf(i) \in Int
  <2>1. SlotCount(wasm, BlockAt(i)) \in Nat /\ callstack[i].sp \in Int
    BY <1>1, <1>2, <1>3, BlockCounts DEF Stacked, Entered
  <2> QED
    BY <2>1 DEF FloorOf, Floor, BlockAt
<1>14. FloorOf(i) - EntryHeight(wasm, BlockAt(i)) = FloorOf(f)
  <2>1. Slack(wasm, callstack, i) = FloorOf(i) - EntryHeight(wasm, BlockAt(i))
    BY DEF Slack, FloorOf, BlockAt
  <2>2. Slack(wasm, callstack, f) = FloorOf(f) - 0
    BY <1>7 DEF Slack, FloorOf, BlockAt
  <2>3. FloorOf(f) \in Int
    BY <1>9, <1>10, <1>12
  <2> QED
    BY <1>11, <2>1, <2>2, <2>3
<1>15. FloorOf(i) = callstack[f].sp + SlotCount(wasm, BlockAt(f)) + EntryHeight(wasm, BlockAt(i))
  BY <1>9, <1>10, <1>12, <1>13, <1>14
<1> QED
  BY <1>3, <1>5, <1>6, <1>7, <1>8, <1>9, <1>10, <1>15

LEMMA FramePart ==
  ASSUME Inv, Running, Exact(wasm), NEW i \in 0 .. csp
  PROVE  /\ BelowOf(i) \in Int /\ FloorOf(i) \in Int
         /\ -1 <= BelowOf(i) /\ BelowOf(i) <= FloorOf(i)
         /\ ~IsFunction(wasm, BlockAt(i)) => BelowOf(i) = FloorOf(i)
         /\ IsFunction(wasm, BlockAt(i)) =>
              /\ BelowOf(i) = callstack[i].sp
              /\ FloorOf(i) = callstack[i].sp + SlotCount(wasm, BlockAt(i))
<1> DEFINE f == i - wasm.nest[BlockAt(i)]
           b == BlockAt(i)
<1>1. /\ BlockAt(i) \in DOMAIN wasm.labels
      /\ callstack[f].sp \in Int /\ callstack[f].sp >= -1
      /\ SlotCount(wasm, BlockAt(f)) \in Nat /\ EntryHeight(wasm, BlockAt(i)) \in Nat
      /\ FloorOf(i) = callstack[f].sp + SlotCount(wasm, BlockAt(f))
                            + EntryHeight(wasm, BlockAt(i))
  BY FrameFunction
<1>2. FloorOf(i) \in Int /\ FloorOf(i) >= -1
  <2> HIDE DEF f
  <2> QED
    BY <1>1
<1>3. CASE ~IsFunction(wasm, BlockAt(i))
  BY <1>2, <1>3 DEF BelowOf, FloorOf, Below, BlockAt
<1>4. CASE IsFunction(wasm, BlockAt(i))
  <2>1. BelowOf(i) = callstack[i].sp
    BY <1>4 DEF BelowOf, Below, BlockAt
  <2>2. FloorOf(i) = callstack[i].sp + SlotCount(wasm, BlockAt(i))
    BY <1>4 DEF FloorOf, Floor, IsFunction, BlockAt
  <2>3. csp \in Nat /\ wasm \in Modules /\ Operands
    BY Takes, TypedAtPc
  <2>4. callstack[i].sp \in Int /\ callstack[i].sp >= -1
    BY <1>4, <2>3 DEF Operands, Stacked, Entered, BlockAt
  <2>5. SlotCount(wasm, BlockAt(i)) \in Nat
    BY <1>1, <2>3, BlockCounts
  <2> QED
    BY <1>2, <1>4, <2>1, <2>2, <2>4, <2>5
<1> QED
  BY <1>3, <1>4

(* The part of the running block, and of the function it belongs to.       *)
OwnFrame == csp - wasm.nest[BlockAt(csp)]

LEMMA TopPart ==
  ASSUME Live
  PROVE  /\ csp \in Nat /\ csp + 1 \in Nat /\ csp \in 0 .. csp
         /\ wasm \in Modules /\ sp \in Tops /\ sp \in Int
         /\ Pops(wasm, Instr) \in Nat /\ sp - Pops(wasm, Instr) \in Tops
         /\ FloorOf(csp) = OperandBase + EntryHeight(wasm, BlockAt(csp))
         /\ EntryHeight(wasm, BlockAt(csp)) \in Nat
         /\ FloorOf(csp) <= sp - Pops(wasm, Instr)
         /\ FloorOf(csp) \in Int
         /\ OperandBase \in Int /\ OperandBase >= -1
<1>1. /\ wasm \in Modules /\ csp \in Nat /\ sp \in Tops /\ Height \in Nat
      /\ TypedInstr(wasm, pc) /\ Instr = wasm.code[pc] /\ wasm.owner[pc] = BlockAt(csp)
      /\ OperandBase = fp - 1 + SlotCount(wasm, Own) /\ sp = OperandBase + Height
      /\ ControlInv /\ Operands /\ fp \in Nat
  BY TypedPc DEF Live
<1>2. /\ Pops(wasm, Instr) \in Nat /\ OperandBase \in Int /\ OperandBase >= -1
      /\ \A n \in 0 .. Pops(wasm, Instr) : sp - n \in Tops
  BY Takes DEF Live
<1>3. csp \in 0 .. csp /\ sp \in Int /\ Pops(wasm, Instr) \in 0 .. Pops(wasm, Instr)
  BY <1>1, <1>2, SizesAreNumbers DEF Tops
<1>4. /\ fp = callstack[OwnFrame].sp + 1
      /\ FunctionOf(wasm, BlockAt(csp)) = BlockAt(OwnFrame)
  BY <1>1, ActivationSlack DEF Live, OwnFrame, BlockAt
<1>5. /\ FloorOf(csp) = callstack[OwnFrame].sp + SlotCount(wasm, BlockAt(OwnFrame))
                           + EntryHeight(wasm, BlockAt(csp))
      /\ callstack[OwnFrame].sp \in Int /\ SlotCount(wasm, BlockAt(OwnFrame)) \in Nat
      /\ EntryHeight(wasm, BlockAt(csp)) \in Nat
  BY <1>3, FrameFunction DEF Live, OwnFrame
<1>6. FloorOf(csp) = OperandBase + EntryHeight(wasm, BlockAt(csp))
  BY <1>1, <1>4, <1>5 DEF Own
<1>7. EntryHeight(wasm, BlockAt(csp)) <= Height - Pops(wasm, Instr)
  BY <1>1 DEF TypedInstr, Height
<1> QED
  BY <1>1, <1>2, <1>3, <1>5, <1>6, <1>7

LEMMA OwnPart ==
  ASSUME Live
  PROVE  /\ OwnFrame \in 0 .. csp
         /\ BlockAt(OwnFrame) = Own /\ IsFunction(wasm, Own)
         /\ callstack[OwnFrame].sp = fp - 1 /\ fp \in Nat
         /\ BelowOf(OwnFrame) = fp - 1 /\ FloorOf(OwnFrame) = OperandBase
         /\ OperandBase = fp - 1 + SlotCount(wasm, Own) /\ SlotCount(wasm, Own) \in Nat
<1>1. csp \in Nat /\ csp \in 0 .. csp
  BY TopPart
<1>2. /\ OwnFrame \in 0 .. csp /\ BlockAt(OwnFrame) = Own
      /\ IsFunction(wasm, BlockAt(OwnFrame))
  BY <1>1, FrameFunction DEF Live, OwnFrame, Own
<1>3. /\ fp = callstack[OwnFrame].sp + 1 /\ fp \in Nat
  BY TypedPc, ActivationSlack DEF Live, OwnFrame
<1>4. /\ BelowOf(OwnFrame) = callstack[OwnFrame].sp
      /\ FloorOf(OwnFrame) = callstack[OwnFrame].sp + SlotCount(wasm, Own)
      /\ BelowOf(OwnFrame) \in Int
  BY <1>2, FramePart DEF Live
<1>5. OperandBase = fp - 1 + SlotCount(wasm, Own) /\ SlotCount(wasm, Own) \in Nat
  BY TypedPc DEF Live
<1> QED
  BY <1>2, <1>3, <1>4, <1>5

(* Parts of different frames are apart.                                    *)
LEMMA PartsApart ==
  ASSUME Live, NEW i \in 0 .. csp
  PROVE  /\ Above(i) \in Int /\ FloorOf(i) <= Above(i) /\ Above(i) \in Tops
         /\ \A j \in 0 .. csp : i < j => Above(i) <= BelowOf(j)
<1>1. csp \in Nat /\ sp \in Int /\ sp \in Tops
  BY TopPart
<1>2. \A j \in 0 .. csp : /\ BelowOf(j) \in Int /\ FloorOf(j) \in Int
                            /\ BelowOf(j) <= FloorOf(j) /\ -1 <= BelowOf(j)
  BY FramePart DEF Live
<1>3. FloorOf(csp) <= sp
  BY TopPart
<1>4. CASE i = csp
  BY <1>1, <1>2, <1>3, <1>4 DEF Above
<1>5. CASE i # csp
  <2>1. i + 1 \in 0 .. csp /\ i < i + 1 /\ csp \in 0 .. csp
    BY <1>1, <1>5
  <2>2. \A k, j \in 0 .. csp : k < j => FloorOf(k) <= BelowOf(j)
    BY DEF Live, Stepped, FloorOf, BelowOf
  <2>3. Above(i) = BelowOf(i + 1)
    BY <1>5 DEF Above, BelowOf
  <2>4. FloorOf(i) <= BelowOf(i + 1) /\ BelowOf(i + 1) \in Int
    BY <1>2, <2>1, <2>2
  <2>5. \A j \in 0 .. csp : i < j => BelowOf(i + 1) <= BelowOf(j)
    <3> SUFFICES ASSUME NEW j \in 0 .. csp, i < j
                 PROVE  BelowOf(i + 1) <= BelowOf(j)
      OBVIOUS
    <3>1. CASE j = i + 1
      BY <1>2, <2>1, <3>1
    <3>2. CASE j # i + 1
      <4>1. i + 1 < j
        BY <3>2
      <4>2. BelowOf(i + 1) <= FloorOf(i + 1) /\ FloorOf(i + 1) <= BelowOf(j)
        BY <1>2, <2>1, <2>2, <4>1
      <4> QED
        BY <1>2, <2>1, <4>2
    <3> QED
      BY <3>1, <3>2
  <2>6. BelowOf(i + 1) <= sp
    <3>1. BelowOf(i + 1) <= BelowOf(csp)
      <4>1. i < csp
        BY <1>1, <1>5
      <4> QED
        BY <2>1, <2>5, <4>1
    <3> QED
      BY <1>1, <1>2, <1>3, <2>1, <3>1
  <2>7. BelowOf(i + 1) \in Tops
    BY <1>1, <1>2, <2>1, <2>6, SizesAreNumbers DEF Tops
  <2> QED
    BY <2>3, <2>4, <2>5, <2>7
<1> QED
  BY <1>4, <1>5

-----------------------------------------------------------------------------
(***************************************************************************)
(* The abstract stack at an instruction.                                   *)
(***************************************************************************)
LEMMA SameOperators ==
  /\ \A w, i : Abstract!Pops(w, i) = Pops(w, i)
  /\ \A w, b : /\ Abstract!LocalCount(w, b) = LocalCount(w, b)
               /\ Abstract!ResultCount(w, b) = ResultCount(w, b)
               /\ Abstract!IsFunction(w, b) = IsFunction(w, b)
               /\ Abstract!LabelArity(w, b) = LabelArity(w, b)
  /\ Abstract!PlainOps = PlainOps
<1>1. \A w, b : /\ Abstract!LocalCount(w, b) = LocalCount(w, b)
                /\ Abstract!ResultCount(w, b) = ResultCount(w, b)
                /\ Abstract!ParamCount(w, b) = ParamCount(w, b)
                /\ Abstract!IsFunction(w, b) = IsFunction(w, b)
  BY DEF Abstract!LocalCount, LocalCount, Abstract!ResultCount, ResultCount,
         Abstract!IsFunction, IsFunction, Abstract!ParamCount, ParamCount
<1>2. \A w, b : Abstract!LabelArity(w, b) = LabelArity(w, b)
  BY <1>1 DEF Abstract!LabelArity, LabelArity
<1>3. \A w, i : Abstract!Pops(w, i) = Pops(w, i)
  BY <1>1 DEF Abstract!Pops, Pops
<1>4. Abstract!PlainOps = PlainOps
  BY DEF Abstract!PlainOps, PlainOps
<1> QED
  BY <1>1, <1>2, <1>3, <1>4

ReturnTo(i) == IF IsFunction(wasm, BlockAt(i)) /\ i > 0 THEN callstack[i].ra ELSE 0

(* What frame i stands for, but with these operands.                       *)
EntryWith(i, operands) ==
  [block |-> BlockAt(i), locals |-> Slice(stack, BelowOf(i), FloorOf(i)),
   operands |-> operands, return_to |-> ReturnTo(i)]

LEMMA EntryOfFrame ==
  ASSUME NEW i, NEW high, NEW operands
  PROVE  /\ Part(wasm, stack, callstack, i, high)
              = EntryWith(i, Slice(stack, FloorOf(i), high))
         /\ [Part(wasm, stack, callstack, i, high) EXCEPT !.operands = operands]
              = EntryWith(i, operands)
BY DEF Part, EntryWith, BelowOf, FloorOf, ReturnTo, BlockAt

LEMMA View ==
  ASSUME Live
  PROVE  /\ NextAddress = pc /\ Stack = Entries /\ Phase = "running" /\ Answer = <<>>
         /\ DOMAIN Stack = 1 .. csp + 1
         /\ \A i \in 0 .. csp : Stack[i + 1] = Part(wasm, stack, callstack, i, Above(i))
         /\ Abstract!Instr = Instr
         /\ Abstract!Last = csp + 1
         /\ Abstract!Innermost = Part(wasm, stack, callstack, csp, sp)
         /\ Abstract!OwnFunction = OwnFrame + 1
<1>1. Running /\ csp \in Nat /\ csp \in 0 .. csp
  BY TopPart DEF Live
<1>2. NextAddress = pc /\ Stack = Entries /\ Phase = "running" /\ Answer = <<>>
  BY <1>1 DEF NextAddress, Stack, Phase, Answer, Running
<1>3. DOMAIN Stack = 1 .. csp + 1
  BY <1>2 DEF Entries
<1>4. \A i \in 0 .. csp : Stack[i + 1] = Part(wasm, stack, callstack, i, Above(i))
  <2>1. \A i \in 0 .. csp : i + 1 \in 1 .. csp + 1 /\ (i + 1) - 1 = i
    BY <1>1
  <2> QED
    BY <1>2, <2>1 DEF Entries
<1>5. Abstract!Instr = Instr
  BY <1>2 DEF Abstract!Instr, Instr
<1>6. Abstract!Last = csp + 1
  <2> DEFINE S == {Stack[n] : n \in 1 .. csp + 1}
  <2>1. Stack \in [1 .. csp + 1 -> S]
    BY <1>2, <1>3 DEF Entries
  <2>2. csp + 1 \in Nat
    BY <1>1
  <2>3. Stack \in Seq(S)
    BY <2>1, <2>2, SeqDef
  <2> HIDE DEF S
  <2>4. Len(Stack) \in Nat /\ DOMAIN Stack = 1 .. Len(Stack)
    BY <2>3, LenProperties
  <2>5. Len(Stack) = csp + 1
    BY <1>3, <2>2, <2>4
  <2> QED
    BY <2>5 DEF Abstract!Last
<1>7. Above(csp) = sp
  BY DEF Above
<1>8. Abstract!Innermost = Part(wasm, stack, callstack, csp, sp)
  BY <1>1, <1>4, <1>6, <1>7 DEF Abstract!Innermost
<1>9. Abstract!OwnFunction = OwnFrame + 1
  <2>1. Abstract!Innermost.block = BlockAt(csp)
    BY <1>8 DEF Part, BlockAt
  <2>2. OwnFrame \in 0 .. csp /\ wasm.nest[BlockAt(csp)] \in 0 .. csp
    BY OwnPart, TypedPc, TypedAtPc DEF Live
  <2>3. (csp + 1) - wasm.nest[BlockAt(csp)] = OwnFrame + 1
    BY <1>1, <2>2 DEF OwnFrame
  <2> QED
    BY <1>6, <2>1, <2>3 DEF Abstract!OwnFunction
<1> QED
  BY <1>2, <1>3, <1>4, <1>5, <1>6, <1>8, <1>9

(* What the instruction takes, and what it leaves.                         *)
Taken == Slice(stack, sp - Pops(wasm, Instr), sp)
Remaining == Slice(stack, FloorOf(csp), sp - Pops(wasm, Instr))

LEMMA OperandView ==
  ASSUME Live
  PROVE  /\ Abstract!Innermost.operands = Slice(stack, FloorOf(csp), sp)
         /\ Abstract!Popped = Taken
         /\ Abstract!Left = Remaining
<1> DEFINE pops == Pops(wasm, Instr)
           operands == Slice(stack, FloorOf(csp), sp)
<1>1. /\ sp \in Int /\ FloorOf(csp) \in Int /\ pops \in Nat
      /\ FloorOf(csp) <= sp - pops
  BY TopPart
<1>2. Abstract!Innermost.operands = operands /\ Abstract!Pops(wasm, Abstract!Instr) = pops
  <2>1. /\ Abstract!Instr = Instr
        /\ Abstract!Innermost = Part(wasm, stack, callstack, csp, sp)
    BY View
  <2>2. Part(wasm, stack, callstack, csp, sp) = EntryWith(csp, operands)
    BY EntryOfFrame
  <2>3. EntryWith(csp, operands).operands = operands
    BY DEF EntryWith
  <2>4. Abstract!Pops(wasm, Instr) = pops
    BY SameOperators
  <2> QED
    BY <2>1, <2>2, <2>3, <2>4
<1>3. pops \in 0 .. sp - FloorOf(csp) /\ FloorOf(csp) <= sp
  BY <1>1
<1>4. /\ SubSeq(operands, 1, Len(operands) - pops) = Slice(stack, FloorOf(csp), sp - pops)
      /\ SubSeq(operands, Len(operands) - pops + 1, Len(operands)) = Slice(stack, sp - pops, sp)
  <2> HIDE DEF pops
  <2> QED
    BY <1>1, <1>3, SliceSplits
<1>5. Abstract!Popped = Taken
  BY <1>2, <1>4 DEF Abstract!Popped, Abstract!Topmost, Taken
<1>6. Abstract!Left = Remaining
  BY <1>2, <1>4 DEF Abstract!Left, Abstract!Without, Remaining
<1> QED
  BY <1>2, <1>5, <1>6

(* The first operand taken, or the only one.                               *)
LEMMA TakenOperands ==
  ASSUME Live
  PROVE  /\ \A k \in 1 .. Pops(wasm, Instr) : Taken[k] = stack[sp - Pops(wasm, Instr) + k]
         /\ Pops(wasm, Instr) > 0 => Taken[Pops(wasm, Instr)] = Top
         /\ Len(Taken) = Pops(wasm, Instr)
         /\ Len(Remaining) = sp - Pops(wasm, Instr) - FloorOf(csp)
<1> DEFINE pops == Pops(wasm, Instr)
<1>1. sp \in Int /\ pops \in Nat /\ FloorOf(csp) \in Int /\ FloorOf(csp) <= sp - pops
  BY TopPart
<1>2. sp - (sp - pops) = pops /\ sp - pops + pops = sp /\ sp - pops \in Int /\ sp - pops <= sp
  BY <1>1
<1>3. /\ \A k \in 1 .. sp - (sp - pops) : Taken[k] = stack[sp - pops + k]
      /\ Len(Taken) = sp - (sp - pops)
  <2> HIDE DEF pops
  <2> QED
    BY <1>1, <1>2, SliceIsSequence DEF Taken, pops
<1>4. Len(Remaining) = (sp - pops) - FloorOf(csp)
  <2> HIDE DEF pops
  <2> QED
    BY <1>1, <1>2, SliceIsSequence DEF Remaining, pops
<1>5. pops > 0 => Taken[pops] = Top
  <2>1. pops > 0 => pops \in 1 .. pops
    BY <1>1
  <2> HIDE DEF pops
  <2> QED
    BY <1>2, <1>3, <2>1 DEF Top
<1> QED
  BY <1>2, <1>3, <1>4, <1>5

(* The lowest entries, the last of them with other operands.               *)
LEMMA LoweredView ==
  ASSUME Live, NEW n \in 0 .. csp, NEW operands
  PROVE  Abstract!Lowered(n + 1, operands)
           = [m \in 1 .. n + 1 |-> IF m = n + 1 THEN EntryWith(n, operands) ELSE Stack[m]]
<1>1. csp \in Nat /\ csp + 1 \in Nat
  BY TopPart
<1>2. n + 1 \in 1 .. (csp + 1) + 1
  BY <1>1
<1>3. DOMAIN Stack = 1 .. csp + 1 /\ Stack[n + 1] = Part(wasm, stack, callstack, n, Above(n))
  BY View
<1>4. [Stack[n + 1] EXCEPT !.operands = operands] = EntryWith(n, operands)
  <2>1. [Part(wasm, stack, callstack, n, Above(n)) EXCEPT !.operands = operands]
          = EntryWith(n, operands)
    BY EntryOfFrame
  <2> QED
    BY <1>3, <2>1
<1>5. Append(SubSeq(Stack, 1, (n + 1) - 1), EntryWith(n, operands))
        = [m \in 1 .. n + 1 |-> IF m = n + 1 THEN EntryWith(n, operands) ELSE Stack[m]]
  BY <1>1, <1>2, <1>3, LowestAndOne
<1> QED
  BY <1>4, <1>5 DEF Abstract!Lowered, Abstract!Lowest

(* A frame that stays, on a stack that may be another one.                 *)
LEMMA FrameStays ==
  ASSUME NEW later, NEW new, NEW i, NEW high, later[i] = callstack[i]
  PROVE  /\ Below(wasm, later, i) = BelowOf(i) /\ Floor(wasm, later, i) = FloorOf(i)
         /\ Part(wasm, new, later, i, high)
              = [block |-> BlockAt(i), locals |-> Slice(new, BelowOf(i), FloorOf(i)),
                 operands |-> Slice(new, FloorOf(i), high), return_to |-> ReturnTo(i)]
<1>1. Floor(wasm, later, i) = FloorOf(i)
  BY DEF Floor, FloorOf
<1>2. Below(wasm, later, i) = BelowOf(i)
  BY <1>1 DEF Below, BelowOf, FloorOf
<1> QED
  BY <1>1, <1>2 DEF Part, ReturnTo, BlockAt

LEMMA LocalsStay ==
  ASSUME NEW later, NEW new, NEW i, NEW high, later[i] = callstack[i],
         BelowOf(i) \in Int, FloorOf(i) \in Int,
         \A x \in BelowOf(i) + 1 .. FloorOf(i) : new[x] = stack[x]
  PROVE  Part(wasm, new, later, i, high) = EntryWith(i, Slice(new, FloorOf(i), high))
<1>1. Slice(new, BelowOf(i), FloorOf(i)) = Slice(stack, BelowOf(i), FloorOf(i))
  BY SliceStays
<1> QED
  BY <1>1, FrameStays DEF EntryWith

LEMMA PartStays ==
  ASSUME NEW later, NEW new, NEW i, NEW high \in Int, later[i] = callstack[i],
         BelowOf(i) \in Int, FloorOf(i) \in Int, BelowOf(i) <= FloorOf(i), FloorOf(i) <= high,
         \A x \in BelowOf(i) + 1 .. high : new[x] = stack[x]
  PROVE  Part(wasm, new, later, i, high) = Part(wasm, stack, callstack, i, high)
<1>1. \A x \in BelowOf(i) + 1 .. FloorOf(i) : new[x] = stack[x]
  OBVIOUS
<1>2. \A x \in FloorOf(i) + 1 .. high : new[x] = stack[x]
  OBVIOUS
<1>3. Slice(new, FloorOf(i), high) = Slice(stack, FloorOf(i), high)
  BY <1>2, SliceStays
<1>4. Part(wasm, new, later, i, high) = EntryWith(i, Slice(new, FloorOf(i), high))
  BY <1>1, LocalsStay
<1>5. Part(wasm, stack, callstack, i, high) = EntryWith(i, Slice(stack, FloorOf(i), high))
  BY EntryOfFrame
<1> QED
  BY <1>3, <1>4, <1>5

(* The stack after a step that goes on running.                            *)
LEMMA NewView ==
  ASSUME Running', csp' \in Nat
  PROVE  /\ NextAddress' = pc' /\ Phase' = "running" /\ Answer' = <<>>
         /\ DOMAIN Stack' = 1 .. csp' + 1
         /\ \A i \in 0 .. csp' : Stack'[i + 1] =
              Part(wasm', stack', callstack', i,
                   IF i = csp' THEN sp' ELSE Below(wasm', callstack', i + 1))
         /\ Stack' = [m \in 1 .. csp' + 1 |-> Stack'[m]]
<1>1. NextAddress' = pc' /\ Phase' = "running" /\ Answer' = <<>>
  BY DEF NextAddress, Phase, Answer, Running
<1>2. Stack' = [n \in 1 .. csp' + 1 |->
                 Part(wasm', stack', callstack', n - 1,
                      IF n - 1 = csp' THEN sp' ELSE Below(wasm', callstack', (n - 1) + 1))]
  BY DEF Stack, Entries, Above, Running
<1>3. \A c \in Nat : \A i \in 0 .. c : i + 1 \in 1 .. c + 1 /\ (i + 1) - 1 = i
  OBVIOUS
<1> QED
  BY <1>1, <1>2, <1>3

(* Frames are taken off, or none: the n-th is then the running one.        *)
LEMMA Uncovered ==
  ASSUME Live, Running', wasm' = wasm, NEW n \in 0 .. csp, csp' = n,
         \A i \in 0 .. n : callstack'[i] = callstack[i],
         sp' \in Int, FloorOf(n) <= sp',
         \A x \in 0 .. FloorOf(n) : stack'[x] = stack[x]
  PROVE  /\ Stack' = Abstract!Lowered(n + 1, Slice(stack', FloorOf(n), sp'))
         /\ Stepped(wasm', callstack', csp')
<1> DEFINE operands == Slice(stack', FloorOf(n), sp')
<1>1. /\ csp \in Nat /\ n \in Nat /\ n \in 0 .. csp /\ \A i \in 0 .. n : i \in 0 .. csp
  BY TopPart
<1>2. \A i \in 0 .. n :
        /\ Below(wasm, callstack', i) = BelowOf(i) /\ Floor(wasm, callstack', i) = FloorOf(i)
  BY FrameStays
<1>3. \A i \in 0 .. n : /\ BelowOf(i) \in Int /\ FloorOf(i) \in Int
                        /\ -1 <= BelowOf(i) /\ BelowOf(i) <= FloorOf(i)
  BY <1>1, FramePart DEF Live
<1>4. /\ DOMAIN Stack' = 1 .. n + 1 /\ Stack' = [m \in 1 .. n + 1 |-> Stack'[m]]
      /\ \A i \in 0 .. n : Stack'[i + 1] =
           Part(wasm, stack', callstack', i,
                IF i = n THEN sp' ELSE Below(wasm, callstack', i + 1))
  BY <1>1, NewView
<1>5. Stack'[n + 1] = EntryWith(n, operands)
  <2>1. n \in 0 .. n
    BY <1>1
  <2>2. \A x \in BelowOf(n) + 1 .. FloorOf(n) : stack'[x] = stack[x]
    BY <1>3, <2>1
  <2>3. Part(wasm, stack', callstack', n, sp') = EntryWith(n, operands)
    BY <1>3, <2>1, <2>2, LocalsStay
  <2> QED
    BY <1>4, <2>1, <2>3
<1>6. ASSUME NEW i \in 0 .. n, i # n
      PROVE  Stack'[i + 1] = Stack[i + 1]
  <2>1. i + 1 \in 0 .. n /\ i \in 0 .. csp /\ i < n /\ i # csp
    BY <1>1, <1>6
  <2>2. Stack'[i + 1] = Part(wasm, stack', callstack', i, BelowOf(i + 1))
    BY <1>2, <1>4, <1>6, <2>1
  <2>3. Above(i) = BelowOf(i + 1)
    BY <2>1 DEF Above, BelowOf
  <2>4. /\ Above(i) \in Int /\ FloorOf(i) <= Above(i) /\ Above(i) <= BelowOf(n)
    BY <1>1, <2>1, PartsApart
  <2>5. \A x \in BelowOf(i) + 1 .. Above(i) : stack'[x] = stack[x]
    <3>1. n \in 0 .. n
      BY <1>1
    <3>2. Above(i) <= FloorOf(n) /\ -1 <= BelowOf(i)
      BY <1>3, <2>4, <3>1
    <3> QED
      BY <1>3, <2>4, <3>1, <3>2
  <2>6. Part(wasm, stack', callstack', i, Above(i)) = Part(wasm, stack, callstack, i, Above(i))
    BY <1>3, <2>4, <2>5, PartStays
  <2>7. Stack[i + 1] = Part(wasm, stack, callstack, i, Above(i))
    BY <2>1, View
  <2> QED
    BY <2>2, <2>3, <2>6, <2>7
<1>7. \A m \in 1 .. n + 1 : Stack'[m] = IF m = n + 1 THEN EntryWith(n, operands) ELSE Stack[m]
  <2> SUFFICES ASSUME NEW m \in 1 .. n + 1
               PROVE  Stack'[m] = IF m = n + 1 THEN EntryWith(n, operands) ELSE Stack[m]
    OBVIOUS
  <2>1. m - 1 \in 0 .. n /\ (m - 1) + 1 = m /\ (m - 1 = n <=> m = n + 1)
    BY <1>1
  <2> HIDE DEF operands
  <2> QED
    BY <1>5, <1>6, <2>1
<1>8. Abstract!Lowered(n + 1, operands)
        = [m \in 1 .. n + 1 |-> IF m = n + 1 THEN EntryWith(n, operands) ELSE Stack[m]]
  BY LoweredView
<1>9. Stepped(wasm', callstack', csp')
  <2>1. \A i, j \in 0 .. csp : i < j => FloorOf(i) <= BelowOf(j)
    BY DEF Live, Stepped, FloorOf, BelowOf
  <2> QED
    BY <1>1, <1>2, <2>1 DEF Stepped
<1> HIDE DEF operands
<1>10. Stack' = Abstract!Lowered(n + 1, operands)
  BY <1>4, <1>7, <1>8
<1> QED
  BY <1>9, <1>10 DEF operands

LEMMA OneMore ==
  ASSUME NEW s, NEW top \in Nat, s = [m \in 1 .. top |-> s[m]], NEW e
  PROVE  Append(s, e) = [m \in 1 .. top + 1 |-> IF m = top + 1 THEN e ELSE s[m]]
<1> DEFINE S == {s[m] : m \in 1 .. top} \cup {e}
           new == [m \in 1 .. top + 1 |-> IF m = top + 1 THEN e ELSE s[m]]
<1>1. s \in [1 .. top -> S] /\ e \in S
  <2>1. \A m \in 1 .. top : s[m] \in S
    OBVIOUS
  <2> HIDE DEF S
  <2>2. [m \in 1 .. top |-> s[m]] \in [1 .. top -> S]
    BY <2>1
  <2> QED
    BY <2>2 DEF S
<1> HIDE DEF S
<1>2. s \in Seq(S)
  BY <1>1, SeqDef
<1>3. Len(s) = top
  <2>1. Len(s) \in Nat /\ DOMAIN s = 1 .. Len(s) /\ DOMAIN s = 1 .. top
    BY <1>1, <1>2, LenProperties
  <2> QED
    BY <2>1
<1>4. /\ Append(s, e) \in Seq(S) /\ Len(Append(s, e)) = top + 1
      /\ \A i \in 1 .. top : Append(s, e)[i] = s[i]
      /\ Append(s, e)[top + 1] = e
  BY <1>1, <1>2, <1>3, AppendProperties
<1>5. Append(s, e) \in [1 .. top + 1 -> S]
  BY <1>4, LenProperties
<1>6. \A m \in 1 .. top + 1 : Append(s, e)[m] = new[m]
  <2> SUFFICES ASSUME NEW m \in 1 .. top + 1
               PROVE  Append(s, e)[m] = IF m = top + 1 THEN e ELSE s[m]
    OBVIOUS
  <2>1. m = top + 1 \/ m \in 1 .. top
    OBVIOUS
  <2> QED
    BY <1>4, <2>1
<1> QED
  BY <1>5, <1>6

(* The running frame, and all below it, without what is popped.            *)
LEMMA RestView ==
  ASSUME Live
  PROVE  /\ Abstract!Rest = Abstract!Lowered(csp + 1, Remaining)
         /\ Abstract!Rest = [m \in 1 .. csp + 1 |-> IF m = csp + 1
                               THEN EntryWith(csp, Remaining) ELSE Stack[m]]
<1>1. csp \in 0 .. csp
  BY TopPart
<1>2. Abstract!Last = csp + 1 /\ Abstract!Left = Remaining
  BY View, OperandView
<1>3. Abstract!Rest = Abstract!Lowered(csp + 1, Remaining)
  BY <1>2 DEF Abstract!Rest
<1>4. Abstract!Lowered(csp + 1, Remaining)
        = [m \in 1 .. csp + 1 |-> IF m = csp + 1
             THEN EntryWith(csp, Remaining) ELSE Stack[m]]
  BY <1>1, LoweredView
<1> QED
  BY <1>3, <1>4

(* A frame is put on what the instruction leaves.                          *)
LEMMA Covered ==
  ASSUME Live, Running', wasm' = wasm, csp' = csp + 1,
         \A i \in 0 .. csp : callstack'[i] = callstack[i],
         Below(wasm, callstack', csp + 1) = sp - Pops(wasm, Instr),
         \A x \in 0 .. sp - Pops(wasm, Instr) : stack'[x] = stack[x]
  PROVE  /\ Stack' = Append(Abstract!Rest, Part(wasm, stack', callstack', csp + 1, sp'))
         /\ Stepped(wasm', callstack', csp')
<1> DEFINE base == sp - Pops(wasm, Instr)
           new == Part(wasm, stack', callstack', csp + 1, sp')
<1>1. /\ csp \in Nat /\ csp + 1 \in Nat /\ csp \in 0 .. csp /\ csp + 1 \in 0 .. csp + 1
      /\ base \in Int /\ FloorOf(csp) \in Int /\ FloorOf(csp) <= base
      /\ \A i \in 0 .. csp : i \in 0 .. csp + 1 /\ i # csp + 1
  BY TopPart DEF Tops
<1> HIDE DEF base
<1>2. \A i \in 0 .. csp :
        /\ Below(wasm, callstack', i) = BelowOf(i) /\ Floor(wasm, callstack', i) = FloorOf(i)
  BY FrameStays
<1>3. \A i \in 0 .. csp : /\ BelowOf(i) \in Int /\ FloorOf(i) \in Int
                          /\ -1 <= BelowOf(i) /\ BelowOf(i) <= FloorOf(i)
  BY FramePart DEF Live
<1>4. \A i, j \in 0 .. csp : i < j => FloorOf(i) <= BelowOf(j)
  BY DEF Live, Stepped, FloorOf, BelowOf
<1>5. /\ DOMAIN Stack' = 1 .. csp + 2 /\ Stack' = [m \in 1 .. csp + 2 |-> Stack'[m]]
      /\ \A i \in 0 .. csp + 1 : Stack'[i + 1] =
           Part(wasm, stack', callstack', i,
                IF i = csp + 1 THEN sp' ELSE Below(wasm, callstack', i + 1))
  <2>1. (csp + 1) + 1 = csp + 2
    BY <1>1
  <2> QED
    BY <1>1, <2>1, NewView
<1>6. Stack'[(csp + 1) + 1] = new
  BY <1>1, <1>5
<1>7. Stack'[csp + 1] = EntryWith(csp, Remaining)
  <2>1. \A x \in BelowOf(csp) + 1 .. FloorOf(csp) : stack'[x] = stack[x]
    BY <1>1, <1>3 DEF base
  <2>2. \A x \in FloorOf(csp) + 1 .. base : stack'[x] = stack[x]
    <3>1. FloorOf(csp) >= -1
      BY <1>1, <1>3
    <3> QED
      BY <1>1, <3>1 DEF base
  <2>3. Slice(stack', FloorOf(csp), base) = Remaining
    BY <1>1, <2>2, SliceStays DEF Remaining, base
  <2>4. Part(wasm, stack', callstack', csp, base) = EntryWith(csp, Slice(stack', FloorOf(csp), base))
    BY <1>1, <1>3, <2>1, LocalsStay
  <2>5. Stack'[csp + 1] = Part(wasm, stack', callstack', csp, base)
    BY <1>1, <1>5 DEF base
  <2> QED
    BY <2>3, <2>4, <2>5
<1>8. ASSUME NEW i \in 0 .. csp, i # csp
      PROVE  Stack'[i + 1] = Stack[i + 1]
  <2>1. i + 1 \in 0 .. csp /\ i < csp
    BY <1>1, <1>8
  <2>2. Stack'[i + 1] = Part(wasm, stack', callstack', i, BelowOf(i + 1))
    BY <1>1, <1>2, <1>5, <2>1
  <2>3. Above(i) = BelowOf(i + 1)
    BY <1>8 DEF Above, BelowOf
  <2>4. /\ Above(i) \in Int /\ FloorOf(i) <= Above(i) /\ Above(i) <= BelowOf(csp)
    BY <1>1, <2>1, PartsApart
  <2>5. \A x \in BelowOf(i) + 1 .. Above(i) : stack'[x] = stack[x]
    <3>1. Above(i) <= base /\ -1 <= BelowOf(i)
      BY <1>1, <1>3, <2>4
    <3> QED
      BY <1>1, <1>3, <2>4, <3>1 DEF base
  <2>6. Part(wasm, stack', callstack', i, Above(i)) = Part(wasm, stack, callstack, i, Above(i))
    BY <1>3, <2>4, <2>5, PartStays
  <2>7. Stack[i + 1] = Part(wasm, stack, callstack, i, Above(i))
    BY View
  <2> QED
    BY <2>2, <2>3, <2>6, <2>7
<1>9. Append(Abstract!Rest, new)
        = [m \in 1 .. csp + 2 |-> IF m = csp + 2 THEN new ELSE Abstract!Rest[m]]
  <2> DEFINE rest == Abstract!Rest
  <2>1. rest = [m \in 1 .. csp + 1 |-> rest[m]]
    BY RestView
  <2>2. (csp + 1) + 1 = csp + 2
    BY <1>1
  <2> HIDE DEF rest, new
  <2>3. Append(rest, new) = [m \in 1 .. (csp + 1) + 1 |-> IF m = (csp + 1) + 1 THEN new ELSE rest[m]]
    BY <1>1, <2>1, OneMore
  <2> QED
    BY <2>2, <2>3 DEF rest
<1>10. \A m \in 1 .. csp + 2 : Stack'[m] = IF m = csp + 2 THEN new ELSE Abstract!Rest[m]
  <2> SUFFICES ASSUME NEW m \in 1 .. csp + 2
               PROVE  Stack'[m] = IF m = csp + 2 THEN new ELSE Abstract!Rest[m]
    OBVIOUS
  <2> HIDE DEF new
  <2>1. CASE m = csp + 2
    BY <1>1, <1>6, <2>1
  <2>2. CASE m # csp + 2
    <3>1. m \in 1 .. csp + 1 /\ m - 1 \in 0 .. csp /\ (m - 1) + 1 = m /\ (m - 1 = csp <=> m = csp + 1)
      BY <1>1, <2>2
    <3>2. Abstract!Rest[m] = IF m = csp + 1 THEN EntryWith(csp, Remaining) ELSE Stack[m]
      BY <3>1, RestView
    <3> QED
      BY <1>7, <1>8, <2>2, <3>1, <3>2
  <2> QED
    BY <2>1, <2>2
<1>11. Stepped(wasm', callstack', csp')
  <2> SUFFICES ASSUME NEW i \in 0 .. csp + 1, NEW j \in 0 .. csp + 1, i < j
               PROVE  Floor(wasm, callstack', i) <= Below(wasm, callstack', j)
    BY DEF Stepped
  <2>1. i \in 0 .. csp
    BY <1>1
  <2>2. CASE j = csp + 1
    <3>1. FloorOf(i) <= FloorOf(csp)
      <4>1. i = csp \/ i < csp
        BY <1>1, <2>1
      <4>2. i < csp => FloorOf(i) <= BelowOf(csp)
        BY <1>1, <1>4, <2>1
      <4> QED
        BY <1>1, <1>3, <2>1, <4>1, <4>2
    <3> QED
      BY <1>1, <1>2, <1>3, <2>1, <2>2, <3>1 DEF base
  <2>3. CASE j # csp + 1
    <3>1. j \in 0 .. csp
      BY <1>1, <2>3
    <3> QED
      BY <1>2, <1>4, <2>1, <3>1
  <2> QED
    BY <2>2, <2>3
<1> HIDE DEF new
<1>12. Stack' = Append(Abstract!Rest, new)
  BY <1>5, <1>9, <1>10
<1> QED
  BY <1>11, <1>12 DEF new

-----------------------------------------------------------------------------
(***************************************************************************)
(* Each instruction.                                                       *)
(***************************************************************************)
Refined == Abstract!Next /\ (Running' => Stepped(wasm', callstack', csp'))

LEMMA EmptySlice ==
  ASSUME NEW s, NEW x \in Int
  PROVE  Slice(s, x, x) = <<>>
<1>1. x - x = 0 /\ x <= x
  OBVIOUS
<1>2. Slice(s, x, x) \in Seq(Values(s, x, x)) /\ Len(Slice(s, x, x)) = 0
  BY <1>1, SliceIsSequence
<1> QED
  BY <1>2, EmptySeq

LEMMA Fails ==
  ASSUME Live, status' \in {"false", "overrun", "overread", "exited", "killed"},
         wasm' = wasm, globals' = globals,
         Instr.op \in Abstract!CanFail \/ StopsOn(Instr, Taken)
  PROVE  Refined
<1>1. ~Running' /\ status' # "true" /\ status' # "running"
  BY DEF Running
<1>2. NextAddress' = 0 /\ Stack' = <<>> /\ Answer' = <<>>
  BY <1>1 DEF NextAddress, Stack, Answer
<1>3. Phase' \in {"idle", "gone"}
  BY <1>1 DEF Phase
<1>4. Phase = "running" /\ Abstract!Instr = Instr /\ Abstract!Popped = Taken
  BY View, OperandView
<1>5. Abstract!Fail
  BY <1>2, <1>3, <1>4 DEF Abstract!Fail
<1> QED
  BY <1>1, <1>5 DEF Refined, Abstract!Next

(* The only operand taken is the condition, the index or the new value.    *)
LEMMA OneTaken ==
  ASSUME Live, Pops(wasm, Instr) = 1
  PROVE  Abstract!Popped[1] = Top /\ I32Of(Abstract!Popped[1]) = TopI32
<1>1. Abstract!Popped[1] = Top
  BY OperandView, TakenOperands
<1> QED
  BY <1>1 DEF I32Of, TopI32

LEMMA StillRunning ==
  ASSUME Live, Running', csp' \in Nat
  PROVE  Phase = "running" /\ Phase' = Phase /\ Answer' = Answer /\ NextAddress' = pc'
BY View, NewView

LEMMA Opens ==
  ASSUME Live, Running', Instr.op \in BlockOps, ~CallStackExhausted,
         PushBlock(wasm.block_lookup[pc], sp, csp, fp, Instr.next),
         wasm' = wasm, stack' = stack, sp' = sp - Pops(wasm, Instr)
  PROVE  /\ csp' \in Nat
         /\ Abstract!Opened(wasm.block_lookup[pc], pc')
         /\ Stepped(wasm', callstack', csp')
<1> DEFINE b == wasm.block_lookup[pc]
           frame == [block |-> b, sp |-> sp, fp |-> fp, ra |-> Instr.next]
           base == sp - Pops(wasm, Instr)
<1>1. /\ wasm \in Modules /\ NestedInstr(wasm, pc) /\ Instr = wasm.code[pc]
      /\ csp \in Nat /\ sp \in Int /\ base \in Int /\ ControlInv
  BY TypedPc, TopPart DEF Live, Tops
<1>2. wasm.block[b].block_type = Instr.op /\ ~IsFunction(wasm, b)
  BY <1>1 DEF NestedInstr, IsFunction, BlockOps
<1>3. csp + 1 \in 0 .. CALLSTACK_SIZE
  BY <1>1, SizesAssumption DEF CallStackExhausted
<1>4. /\ csp' = csp + 1 /\ callstack'[csp + 1] = frame
      /\ \A i \in 0 .. csp : callstack'[i] = callstack[i]
  <2>1. csp' = csp + 1 /\ callstack' = [callstack EXCEPT ![csp + 1] = frame]
    BY DEF PushBlock
  <2> QED
    BY <1>1, <1>3, <2>1 DEF ControlInv, ControlTypes
<1>5. Floor(wasm, callstack', csp + 1) = base
  <2>1. CASE Instr.op = "if"
    <3>1. Pops(wasm, Instr) = 1
      BY <2>1 DEF Pops
    <3>2. Floor(wasm, callstack', csp + 1) = sp - 1
      BY <1>2, <1>4, <2>1 DEF Floor
    <3> QED
      BY <3>1, <3>2
  <2>2. CASE Instr.op # "if"
    <3>1. Pops(wasm, Instr) = 0
      BY <2>2 DEF Pops, BlockOps
    <3>2. Floor(wasm, callstack', csp + 1) = sp
      BY <1>2, <1>4, <2>2 DEF Floor, BlockOps
    <3> QED
      BY <1>1, <3>1, <3>2
  <2> QED
    BY <2>1, <2>2
<1>6. Below(wasm, callstack', csp + 1) = base
  BY <1>2, <1>4, <1>5 DEF Below
<1>7. Part(wasm, stack', callstack', csp + 1, sp') = Abstract!Entry(b, <<>>, 0)
  <2>1. Slice(stack', base, base) = <<>>
    BY <1>1, EmptySlice
  <2> QED
    BY <1>2, <1>4, <1>5, <1>6, <2>1 DEF Part, Abstract!Entry
<1>8. /\ Stack' = Append(Abstract!Rest, Part(wasm, stack', callstack', csp + 1, sp'))
      /\ Stepped(wasm', callstack', csp')
  BY <1>4, <1>6, Covered
<1>9. csp' \in Nat
  BY <1>1, <1>4
<1> QED
  BY <1>7, <1>8, <1>9, StillRunning DEF Abstract!Opened

LEMMA BlockRefines ==
  ASSUME Live, BlockOrLoop
  PROVE  Refined
<1>1. /\ Instr.op \in {"block", "loop"} /\ Pops(wasm, Instr) = 0 /\ Instr.op \in BlockOps
      /\ Instr.op \in Abstract!CanFail
  BY DEF BlockOrLoop, Fetch, Pops, BlockOps, Abstract!CanFail
<1>2. wasm' = wasm /\ globals' = globals /\ stack' = stack /\ sp' = sp /\ pc' = Instr.next
  BY DEF BlockOrLoop, Advance
<1>3. CASE Exhausted
  BY <1>1, <1>2, <1>3, Fails DEF Exhausted, Trap
<1>4. CASE ~Exhausted
  <2>1. /\ ~CallStackExhausted /\ PushBlock(wasm.block_lookup[pc], sp, csp, fp, Instr.next)
        /\ Running'
    BY <1>4 DEF BlockOrLoop, Running, Live
  <2>2. sp' = sp - Pops(wasm, Instr)
    BY <1>1, <1>2, TopPart
  <2>3. /\ csp' \in Nat /\ Abstract!Opened(wasm.block_lookup[pc], pc')
        /\ Stepped(wasm', callstack', csp')
    BY <1>1, <1>2, <2>1, <2>2, Opens
  <2>4. /\ Phase = "running" /\ Phase' = Phase /\ Answer' = Answer
        /\ Abstract!Instr = Instr /\ NextAddress = pc
    BY <2>1, <2>3, StillRunning, View
  <2>5. Abstract!Open
    BY <1>1, <1>2, <2>3, <2>4 DEF Abstract!Open, Abstract!Fetch
  <2> QED
    BY <2>3, <2>5 DEF Refined, Abstract!Next
<1> QED
  BY <1>3, <1>4

(* The operands that the instruction takes are taken off, nothing else.     *)
LEMMA OnlyPops ==
  ASSUME Live, Running', wasm' = wasm, stack' = stack, sp' = sp - Pops(wasm, Instr),
         csp' = csp, \A i \in 0 .. csp : callstack'[i] = callstack[i]
  PROVE  /\ Stack' = Abstract!Rest /\ Stepped(wasm', callstack', csp') /\ csp' \in Nat
         /\ Phase' = Phase /\ Answer' = Answer /\ NextAddress' = pc'
<1>1. /\ csp \in Nat /\ csp \in 0 .. csp /\ sp - Pops(wasm, Instr) \in Int
      /\ FloorOf(csp) <= sp - Pops(wasm, Instr)
  BY TopPart DEF Tops
<1>2. /\ sp' \in Int /\ FloorOf(csp) <= sp'
      /\ \A x \in 0 .. FloorOf(csp) : stack'[x] = stack[x]
  BY <1>1
<1>3. /\ Stack' = Abstract!Lowered(csp + 1, Slice(stack', FloorOf(csp), sp'))
      /\ Stepped(wasm', callstack', csp')
  BY <1>1, <1>2, Uncovered
<1>4. Slice(stack', FloorOf(csp), sp') = Remaining
  BY DEF Remaining
<1> QED
  BY <1>1, <1>3, <1>4, RestView, StillRunning

LEMMA IfRefines ==
  ASSUME Live, If
  PROVE  Refined
<1> DEFINE b == wasm.block_lookup[pc]
<1>1. /\ Instr.op = "if" /\ Pops(wasm, Instr) = 1 /\ Instr.op \in BlockOps
      /\ Instr.op \in Abstract!CanFail
  BY DEF If, Fetch, Pops, BlockOps, Abstract!CanFail
<1>2. wasm' = wasm /\ globals' = globals /\ stack' = stack
  BY DEF If
<1>3. CASE Exhausted
  <2>1. status' = "false"
    BY <1>3 DEF If, Exhausted, Trap
  <2> QED
    BY <1>1, <1>2, <2>1, Fails
<1>4. ASSUME ~Exhausted
      PROVE  ~CallStackExhausted /\ sp' = sp - 1 /\ Running'
  BY <1>4 DEF If, Running, Live
<1>5. /\ Phase = "running" /\ Abstract!Instr = Instr /\ NextAddress = pc
      /\ Cond <=> I32Of(Abstract!Popped[1]) # 0
  BY <1>1, View, OneTaken DEF Cond
<1>6. CASE ~Exhausted /\ (Cond \/ Block(b).else_addr # 0)
  <2>1. PushBlock(b, sp, csp, fp, Instr.next)
        /\ pc' = IF Cond THEN Instr.next ELSE Block(b).else_addr
    BY <1>6 DEF If, SavedSpOfIf
  <2>2. /\ csp' \in Nat /\ Abstract!Opened(b, pc') /\ Stepped(wasm', callstack', csp')
    BY <1>1, <1>2, <1>4, <1>6, <2>1, Opens
  <2>3. Phase' = Phase /\ Answer' = Answer
    BY <1>4, <1>6, <2>2, StillRunning
  <2>4. Abstract!Open
    BY <1>1, <1>2, <1>5, <1>6, <2>1, <2>2, <2>3 DEF Abstract!Open, Abstract!Fetch, Block
  <2> QED
    BY <2>2, <2>4 DEF Refined, Abstract!Next
<1>7. CASE ~Exhausted /\ ~Cond /\ Block(b).else_addr = 0
  <2> DEFINE frame == [block |-> b, sp |-> sp, fp |-> fp, ra |-> Instr.next]
  <2>1. /\ callstack' = [callstack EXCEPT ![csp + 1] = frame]
        /\ csp' = csp
        /\ pc' = Block(b).br_addr + 1
    BY <1>7 DEF If, SavedSpOfIf
  <2>2. csp \in Nat
    BY TopPart
  <2>3. \A i \in 0 .. csp : callstack'[i] = callstack[i]
    <3>1. ControlInv /\ Running
      BY Takes DEF Live
    <3>2. \A i \in 0 .. csp : i \in 0 .. CALLSTACK_SIZE /\ i # csp + 1
      BY <2>2, <3>1, SizesAssumption DEF ControlInv, Control
    <3> QED
      BY <2>1, <3>1, <3>2 DEF ControlInv, ControlTypes
  <2>4. sp' = sp - Pops(wasm, Instr) /\ Running'
    BY <1>1, <1>4, <1>7
  <2> HIDE DEF frame
  <2>5. /\ Stack' = Abstract!Rest /\ Stepped(wasm', callstack', csp')
        /\ Phase' = Phase /\ Answer' = Answer /\ NextAddress' = pc'
    BY <1>2, <2>1, <2>3, <2>4, OnlyPops
  <2>6. Abstract!Open
    BY <1>1, <1>2, <1>5, <1>7, <2>1, <2>5 DEF Abstract!Open, Abstract!Fetch, Block
  <2> QED
    BY <2>5, <2>6 DEF Refined, Abstract!Next
<1> QED
  BY <1>3, <1>6, <1>7

(* A block around the instruction, in the same function.                   *)
LEMMA Around ==
  ASSUME Live, NEW d \in 0 .. wasm.nest[BlockAt(csp)]
  PROVE  /\ csp - d \in 0 .. csp /\ csp - d \in Nat
         /\ BlockAt(csp - d) = wasm.labels[wasm.owner[pc]][d]
         /\ BlockAt(csp - d) \in DOMAIN wasm.labels
         /\ FloorOf(csp - d) = OperandBase + EntryHeight(wasm, BlockAt(csp - d))
         /\ EntryHeight(wasm, BlockAt(csp - d)) \in Nat
         /\ LabelArity(wasm, BlockAt(csp - d)) \in Nat
<1> DEFINE i == csp - d
<1>1. /\ wasm \in Modules /\ csp \in Nat /\ csp \in 0 .. csp /\ wasm.owner[pc] = BlockAt(csp)
      /\ Mirrors(wasm, callstack, csp)
  BY TypedPc DEF Live, ControlInv, Control, Framed
<1>2. /\ i \in 0 .. csp /\ wasm.nest[BlockAt(i)] = wasm.nest[BlockAt(csp)] - d
      /\ BlockAt(i) \in DOMAIN wasm.labels
  BY <1>1, LabelAtDepth DEF BlockAt
<1>3. BlockAt(i) = wasm.labels[wasm.owner[pc]][d]
  BY <1>1 DEF Mirrors, BlockAt
<1>4. wasm.nest[BlockAt(csp)] \in 0 .. csp
  BY <1>1 DEF Mirrors, BlockAt
<1>5. i - wasm.nest[BlockAt(i)] = OwnFrame
  BY <1>1, <1>2, <1>4 DEF OwnFrame
<1>6. /\ FloorOf(i) = callstack[OwnFrame].sp + SlotCount(wasm, BlockAt(OwnFrame))
                        + EntryHeight(wasm, BlockAt(i))
      /\ EntryHeight(wasm, BlockAt(i)) \in Nat
  <2> HIDE DEF i
  <2> QED
    BY <1>2, <1>5, FrameFunction DEF Live
<1>7. FloorOf(i) = OperandBase + EntryHeight(wasm, BlockAt(i))
  <2>1. /\ callstack[OwnFrame].sp = fp - 1 /\ BlockAt(OwnFrame) = Own
        /\ OperandBase = fp - 1 + SlotCount(wasm, Own)
    BY OwnPart
  <2> HIDE DEF i
  <2> QED
    BY <1>6, <2>1
<1>8. LabelArity(wasm, BlockAt(i)) \in Nat
  BY <1>1, <1>2, BlockCounts DEF LabelArity
<1>9. i \in Nat
  BY <1>1, <1>2
<1> QED
  BY <1>2, <1>3, <1>6, <1>7, <1>8, <1>9

(* To the d-th label, when the operands it takes are all there is.         *)
LEMMA Branches ==
  ASSUME Live, Running', NEW d \in 0 .. wasm.nest[BlockAt(csp)], csp' = csp - d,
         pc' = wasm.block[BlockAt(csp - d)].br_addr,
         wasm' = wasm, stack' = stack, callstack' = callstack, sp' = sp - Pops(wasm, Instr),
         sp' = FloorOf(csp - d) + LabelArity(wasm, BlockAt(csp - d)),
         FloorOf(csp) + LabelArity(wasm, BlockAt(csp - d)) <= sp'
  PROVE  Abstract!Branch(d) /\ Stepped(wasm', callstack', csp')
<1> DEFINE n == csp - d
           arity == LabelArity(wasm, BlockAt(csp - d))
           top == sp - Pops(wasm, Instr)
<1>1. /\ n \in 0 .. csp /\ n \in Nat /\ arity \in Nat
  BY Around
<1>2. /\ csp \in Nat /\ top \in Int /\ FloorOf(csp) \in Int /\ FloorOf(csp) <= top
      /\ FloorOf(n) \in Int /\ (csp + 1) - d = n + 1
  <2>1. csp \in Nat /\ top \in Tops /\ FloorOf(csp) \in Int /\ FloorOf(csp) <= top
    BY TopPart
  <2>2. FloorOf(n) \in Int
    BY <1>1, FramePart DEF Live
  <2>3. (csp + 1) - d = n + 1
    BY <1>1, <2>1
  <2> QED
    BY <2>1, <2>2, <2>3 DEF Tops
<1>3. top = FloorOf(n) + arity /\ FloorOf(csp) + arity <= top /\ sp' = top
  OBVIOUS
<1> HIDE DEF n, arity, top
<1>4. sp' \in Int /\ FloorOf(n) <= sp' /\ top - arity = FloorOf(n) /\ arity \in 0 .. top - FloorOf(csp)
  BY <1>1, <1>2, <1>3
<1>5. /\ Stack' = Abstract!Lowered(n + 1, Slice(stack', FloorOf(n), sp'))
      /\ Stepped(wasm', callstack', csp')
  BY <1>1, <1>2, <1>4, Uncovered DEF n
<1>6. Slice(stack', FloorOf(n), sp') = Abstract!Topmost(Remaining, arity)
  <2>1. SubSeq(Slice(stack, FloorOf(csp), top), Len(Slice(stack, FloorOf(csp), top)) - arity + 1,
               Len(Slice(stack, FloorOf(csp), top))) = Slice(stack, top - arity, top)
    BY <1>2, <1>4, SliceSplits
  <2>2. Remaining = Slice(stack, FloorOf(csp), top)
    BY DEF Remaining, top
  <2> QED
    BY <1>3, <1>4, <2>1, <2>2 DEF Abstract!Topmost
<1>7. Stack[n + 1].block = BlockAt(n)
  <2>1. Stack[n + 1] = Part(wasm, stack, callstack, n, Above(n))
    BY <1>1, View
  <2> QED
    BY <2>1 DEF Part, BlockAt
<1>8. /\ Abstract!Last - d = n + 1 /\ Abstract!Left = Remaining
      /\ Abstract!LabelArity(wasm, BlockAt(n)) = arity
  BY <1>2, View, OperandView, SameOperators DEF n, arity
<1>9. NextAddress' = wasm.block[BlockAt(n)].br_addr
  BY <1>1, StillRunning DEF n
<1> QED
  BY <1>5, <1>6, <1>7, <1>8, <1>9 DEF Abstract!Branch

LEMMA LabelRefines ==
  ASSUME Live, Running', NEW d \in Depths(Instr), Goto(d),
         wasm' = wasm, stack' = stack, callstack' = callstack, sp' = sp - Pops(wasm, Instr)
  PROVE  Abstract!Branch(d) /\ Stepped(wasm', callstack', csp') /\ csp' \in Nat
<1> DEFINE c == BlockAt(csp - d)
           h == Height - Pops(wasm, Instr)
<1>1. /\ wasm \in Modules /\ TypedInstr(wasm, pc) /\ Instr = wasm.code[pc]
      /\ Height \in Nat /\ wasm.owner[pc] = BlockAt(csp) /\ ControlInv /\ Operands
      /\ sp = OperandBase + Height /\ OperandBase \in Int
  BY TypedPc DEF Live
<1>2. d \in 0 .. wasm.nest[BlockAt(csp)]
  BY <1>1, InstrAtPc DEF Live
<1>3. /\ c = wasm.labels[wasm.owner[pc]][d] /\ csp - d \in Nat
      /\ FloorOf(csp - d) = OperandBase + EntryHeight(wasm, c)
      /\ EntryHeight(wasm, c) \in Nat /\ LabelArity(wasm, c) \in Nat
  BY <1>2, Around
<1>4. /\ FloorOf(csp) = OperandBase + EntryHeight(wasm, BlockAt(csp))
      /\ EntryHeight(wasm, BlockAt(csp)) \in Nat /\ Pops(wasm, Instr) \in Nat
  BY TopPart
<1>5. /\ wasm.height[wasm.block[c].br_addr] = EntryHeight(wasm, c) + LabelArity(wasm, c)
      /\ EntryHeight(wasm, BlockAt(csp)) + LabelArity(wasm, c) <= h
  BY <1>1, <1>3 DEF TypedInstr, Reached, Height
<1>6. wasm.height[wasm.block[c].br_addr] = h
  <2>1. pc \in DOMAIN wasm.height /\ Tidy(wasm)
    BY <1>1 DEF Operands, Exact, Live
  <2> QED
    BY <1>1, <1>3, <2>1 DEF Tidy, Height
<1>7. csp' = csp - d /\ pc' = wasm.block[c].br_addr
  BY DEF Goto, LabelFrame, Block, BlockAt
<1>8. /\ sp' = FloorOf(csp - d) + LabelArity(wasm, c)
      /\ FloorOf(csp) + LabelArity(wasm, c) <= sp'
  <2> HIDE DEF c
  <2> QED
    BY <1>1, <1>3, <1>4, <1>5, <1>6
<1> HIDE DEF h
<1> QED
  BY <1>2, <1>3, <1>7, <1>8, Branches

LEMMA JumpRefines ==
  ASSUME Live, Br \/ BrTable
  PROVE  Refined
<1>1. Phase = "running" /\ Abstract!Instr = Instr
  BY View
<1>2. CASE Br
  <2>1. /\ Instr.op = "br" /\ Imm \in Depths(Instr) /\ Goto(Imm) /\ Pops(wasm, Instr) = 0
        /\ wasm' = wasm /\ stack' = stack /\ callstack' = callstack /\ sp' = sp
        /\ globals' = globals /\ Running'
    BY <1>2 DEF Br, Fetch, Depths, Imm, Pops, Running, Live
  <2>2. sp' = sp - Pops(wasm, Instr)
    BY <2>1, TopPart
  <2>3. Abstract!Branch(Imm) /\ Stepped(wasm', callstack', csp') /\ csp' \in Nat
    BY <2>1, <2>2, LabelRefines
  <2>4. Phase' = Phase /\ Answer' = Answer
    BY <2>1, <2>3, StillRunning
  <2>5. Abstract!Jump
    BY <1>1, <2>1, <2>3, <2>4 DEF Abstract!Jump, Abstract!Fetch, Imm
  <2> QED
    BY <2>3, <2>5 DEF Refined, Abstract!Next
<1>3. CASE BrTable
  <2>1. /\ Instr.op = "br_table" /\ Pops(wasm, Instr) = 1
        /\ TableDepth(TopI32) \in Depths(Instr) /\ Instr.op \in Abstract!CanFail
        /\ wasm' = wasm /\ stack' = stack /\ callstack' = callstack /\ globals' = globals
    BY <1>3 DEF BrTable, Fetch, TableDepth, Depths, Imm, Pops, Abstract!CanFail
  <2>2. CASE status' \in {"false", "overrun"}
    BY <2>1, <2>2, Fails
  <2>3. CASE status' \notin {"false", "overrun"}
    <3>1. sp' = sp - 1 /\ Goto(TableDepth(TopI32)) /\ status' = status
      BY <1>3, <2>3 DEF BrTable, Trap
    <3>2. Running' /\ sp' = sp - Pops(wasm, Instr)
      BY <2>1, <3>1 DEF Running, Live
    <3>3. /\ Abstract!Branch(TableDepth(TopI32))
          /\ Stepped(wasm', callstack', csp') /\ csp' \in Nat
      BY <2>1, <3>1, <3>2, LabelRefines
    <3>4. Phase' = Phase /\ Answer' = Answer
      BY <3>2, <3>3, StillRunning
    <3>5. TableDepth(TopI32) =
            IF I32Of(Abstract!Popped[1]) + 1 \in DOMAIN Instr.imm.targets
              THEN Instr.imm.targets[I32Of(Abstract!Popped[1]) + 1] ELSE Instr.imm.default
      BY <2>1, OneTaken DEF TableDepth, Imm
    <3>6. Abstract!Jump
      BY <1>1, <2>1, <3>3, <3>4, <3>5 DEF Abstract!Jump, Abstract!Fetch
    <3> QED
      BY <3>3, <3>6 DEF Refined, Abstract!Next
  <2> QED
    BY <2>2, <2>3
<1> QED
  BY <1>2, <1>3

LEMMA BrIfRefines ==
  ASSUME Live, BrIf
  PROVE  Refined
<1>1. /\ Instr.op = "br_if" /\ Pops(wasm, Instr) = 1 /\ Imm \in Depths(Instr)
      /\ wasm' = wasm /\ stack' = stack /\ callstack' = callstack /\ sp' = sp - 1
      /\ globals' = globals /\ Running'
  BY DEF BrIf, Fetch, Depths, Imm, Pops, Running, Live
<1>2. /\ Phase = "running" /\ Abstract!Instr = Instr
      /\ Cond <=> I32Of(Abstract!Popped[1]) # 0
  BY <1>1, View, OneTaken DEF Cond
<1>3. CASE Cond
  <2>1. Goto(Imm)
    BY <1>3 DEF BrIf
  <2>2. Abstract!Branch(Imm) /\ Stepped(wasm', callstack', csp') /\ csp' \in Nat
    BY <1>1, <2>1, LabelRefines
  <2>3. Phase' = Phase /\ Answer' = Answer
    BY <1>1, <2>2, StillRunning
  <2>4. Abstract!Jump
    BY <1>1, <1>2, <1>3, <2>2, <2>3 DEF Abstract!Jump, Abstract!Fetch, Imm
  <2> QED
    BY <2>2, <2>4 DEF Refined, Abstract!Next
<1>4. CASE ~Cond
  <2>1. pc' = Instr.next /\ csp' = csp
    BY <1>4 DEF BrIf, Advance
  <2>2. /\ Stack' = Abstract!Rest /\ Stepped(wasm', callstack', csp')
        /\ Phase' = Phase /\ Answer' = Answer /\ NextAddress' = pc'
    BY <1>1, <2>1, OnlyPops
  <2>3. Abstract!Jump
    BY <1>1, <1>2, <1>4, <2>1, <2>2 DEF Abstract!Jump, Abstract!Fetch
  <2> QED
    BY <2>2, <2>3 DEF Refined, Abstract!Next
<1> QED
  BY <1>3, <1>4

LEMMA ReturnRefines ==
  ASSUME Live, Return
  PROVE  Refined
<1> DEFINE d == wasm.nest[BlockAt(csp)]
           h == Height - Pops(wasm, Instr)
           results == ResultCount(wasm, Own)
<1>1. /\ Instr.op = "return" /\ Pops(wasm, Instr) = 0
      /\ wasm' = wasm /\ stack' = stack /\ callstack' = callstack /\ sp' = sp
      /\ globals' = globals /\ Running'
  BY DEF Return, Fetch, Pops, Running, Live
<1>2. /\ wasm \in Modules /\ TypedInstr(wasm, pc) /\ Instr = wasm.code[pc]
      /\ Height \in Nat /\ wasm.owner[pc] = BlockAt(csp) /\ ControlInv /\ Operands
      /\ sp = OperandBase + Height /\ OperandBase \in Int
      /\ Own \in DOMAIN wasm.labels /\ h = Height
  BY <1>1, TypedPc DEF Live
<1>3. /\ d \in 0 .. csp /\ csp \in Nat /\ csp - d \in Nat /\ d \in 0 .. d
  BY <1>2, TypedAtPc, OwnPart DEF Live, OwnFrame
<1>4. /\ BlockAt(csp - d) = Own /\ IsFunction(wasm, Own) /\ FloorOf(csp - d) = OperandBase
  BY OwnPart DEF OwnFrame
<1>5. csp' = csp - d /\ pc' = wasm.block[Own].end_addr
  <2>1. callstack[csp - d].block = Own
    BY <1>4 DEF BlockAt
  <2>2. FunctionFrame = csp - d
    BY <1>2, FunctionFrameFound DEF Live
  <2> QED
    BY <2>1, <2>2 DEF Return, Block
<1>6. pc' = wasm.block[Own].br_addr /\ LabelArity(wasm, Own) = results
  <2>1. NestedBlock(wasm, Own) /\ wasm.block[Own].block_type # "loop"
    BY <1>2, <1>4, BlockFacts DEF IsFunction
  <2> QED
    BY <1>5, <2>1 DEF NestedBlock, LabelArity
<1>7. results = Height
  <2>1. pc \in DOMAIN wasm.height /\ Tidy(wasm)
    BY <1>2 DEF Operands, Exact, Live
  <2> QED
    BY <1>1, <1>2, <2>1 DEF Tidy, Height, Own
<1>8. EntryHeight(wasm, BlockAt(csp)) + results <= Height
  BY <1>1, <1>2 DEF TypedInstr, Height, Own
<1>9. /\ FloorOf(csp) = OperandBase + EntryHeight(wasm, BlockAt(csp))
      /\ EntryHeight(wasm, BlockAt(csp)) \in Nat /\ sp \in Int
  BY TopPart
<1>10. /\ sp' = FloorOf(csp - d) + LabelArity(wasm, BlockAt(csp - d))
       /\ FloorOf(csp) + LabelArity(wasm, BlockAt(csp - d)) <= sp'
       /\ sp' = sp - Pops(wasm, Instr)
  <2> HIDE DEF d, results
  <2> QED
    BY <1>1, <1>2, <1>4, <1>6, <1>7, <1>8, <1>9
<1>11. Abstract!Branch(d) /\ Stepped(wasm', callstack', csp')
  <2>1. d \in 0 .. wasm.nest[BlockAt(csp)] /\ pc' = wasm.block[BlockAt(csp - d)].br_addr
    BY <1>3, <1>4, <1>6
  <2> HIDE DEF d
  <2> QED
    BY <1>1, <1>5, <1>10, <2>1, Branches
<1>12. /\ Phase = "running" /\ Abstract!Instr = Instr /\ Phase' = Phase /\ Answer' = Answer
  BY <1>1, <1>3, <1>5, StillRunning, View
<1>13. Abstract!Innermost.block = BlockAt(csp)
  BY View DEF Part, BlockAt
<1>14. Abstract!Jump
  BY <1>1, <1>11, <1>12, <1>13 DEF Abstract!Jump, Abstract!Fetch
<1> QED
  BY <1>11, <1>14 DEF Refined, Abstract!Next

LEMMA ElseRefines ==
  ASSUME Live, Else
  PROVE  Refined
<1>1. /\ Instr.op = "else" /\ pc' = wasm.block[BlockAt(csp)].br_addr
      /\ wasm' = wasm /\ stack' = stack /\ callstack' = callstack /\ sp' = sp
      /\ csp' = csp /\ globals' = globals /\ Running'
  BY DEF Else, Fetch, Running, Live, Block, BlockAt
<1>2. csp' \in Nat /\ Stepped(wasm', callstack', csp')
  BY <1>1, TopPart DEF Live
<1>3. Stack' = Stack
  BY <1>1 DEF Stack, Entries, Above, Running, Live
<1>4. /\ Phase = "running" /\ Abstract!Instr = Instr
      /\ Phase' = Phase /\ Answer' = Answer /\ NextAddress' = pc'
      /\ Abstract!Innermost.block = BlockAt(csp)
  BY <1>1, <1>2, StillRunning, View DEF Part, BlockAt
<1>5. Abstract!Jump
  BY <1>1, <1>3, <1>4 DEF Abstract!Jump, Abstract!Fetch
<1> QED
  BY <1>2, <1>5 DEF Refined, Abstract!Next

LEMMA StopRefines ==
  ASSUME Live, Unreachable \/ Unsupported
  PROVE  Refined
<1>1. /\ Instr.op \in Abstract!CanFail /\ wasm' = wasm /\ globals' = globals
      /\ status' = "false"
  BY DEF Unreachable, Unsupported, Fetch, Trap, Abstract!CanFail
<1> QED
  BY <1>1, Fails

-----------------------------------------------------------------------------
(***************************************************************************)
(* The end of a block or function: its results, and nothing else, are its  *)
(* operands, and pop_block moves them to where its part began.             *)
(***************************************************************************)
LEMMA Results ==
  ASSUME Live, Instr.op = "end", ~ResultMismatch(BlockAt(csp))
  PROVE  LET b == BlockAt(csp)
             results == ResultCount(wasm, b) IN
         /\ results \in 0 .. 1 /\ sp = FloorOf(csp) + results
         /\ Abstract!Innermost.operands = Slice(stack, FloorOf(csp), FloorOf(csp) + results)
         /\ Abstract!Fulfilled(b, Abstract!Innermost.operands)
         /\ results = 1 => stack[FloorOf(csp) + 1] = Top
<1> DEFINE b == BlockAt(csp)
           results == ResultCount(wasm, b)
           operands == Slice(stack, FloorOf(csp), FloorOf(csp) + results)
<1>1. /\ wasm \in Modules /\ Height \in Nat /\ ControlInv /\ Operands
      /\ sp = OperandBase + Height /\ OperandBase \in Int
  BY TypedPc DEF Live
<1>2. /\ FloorOf(csp) = OperandBase + EntryHeight(wasm, b) /\ FloorOf(csp) \in Int
      /\ EntryHeight(wasm, b) \in Nat
  BY TopPart
<1>3. results \in 0 .. 1 /\ Height = EntryHeight(wasm, b) + results
  BY <1>1, Popped DEF Live, Height
<1>4. sp = FloorOf(csp) + results
  <2> HIDE DEF b, results
  <2> QED
    BY <1>1, <1>2, <1>3
<1>5. Abstract!Innermost.operands = operands
  BY <1>4, OperandView
<1>6. results = 1 => stack[FloorOf(csp) + 1] = Top
  BY <1>4 DEF Top
<1>7. /\ Len(operands) = results
      /\ \A k \in 1 .. results : operands[k] = stack[FloorOf(csp) + k]
      /\ DOMAIN operands = 1 .. results
  <2> HIDE DEF b, results
  <2>1. (FloorOf(csp) + results) - FloorOf(csp) = results /\ FloorOf(csp) + results \in Int
        /\ FloorOf(csp) <= FloorOf(csp) + results
    BY <1>2, <1>3
  <2> QED
    BY <1>2, <2>1, SliceIsSequence DEF Slice
<1>8. \A k \in 1 .. results : operands[k].value_type = wasm.block[b].type.results[k]
  <2> SUFFICES ASSUME NEW k \in 1 .. results
               PROVE  operands[k].value_type = wasm.block[b].type.results[k]
    OBVIOUS
  <2>1. results = 1 /\ k = 1
    BY <1>3
  <2>2. operands[k] = Top
    BY <1>6, <1>7, <2>1
  <2>3. Top.value_type = wasm.block[b].type.results[1]
    BY <2>1 DEF ResultMismatch, HasResult, Block
  <2> QED
    BY <2>1, <2>2, <2>3
<1>9. Abstract!ResultCount(wasm, b) = results
  BY SameOperators
<1> HIDE DEF operands
<1>10. Abstract!Fulfilled(b, operands)
  BY <1>7, <1>8, <1>9 DEF Abstract!Fulfilled
<1> QED
  BY <1>3, <1>4, <1>5, <1>6, <1>10 DEF operands

LEMMA ResultsMove ==
  ASSUME Live, Instr.op = "end", ~ResultMismatch(BlockAt(csp)),
         sp' = PoppedSp(callstack[csp]), stack' = PoppedStack(callstack[csp])
  PROVE  LET results == ResultCount(wasm, BlockAt(csp)) IN
         /\ sp' = BelowOf(csp) + results
         /\ \A x \in 0 .. BelowOf(csp) : stack'[x] = stack[x]
         /\ \A k \in 1 .. results : stack'[BelowOf(csp) + k] = stack[FloorOf(csp) + k]
<1> DEFINE b == BlockAt(csp)
           results == ResultCount(wasm, b)
           low == BelowOf(csp)
<1>1. /\ csp \in 0 .. csp /\ sp \in Tops /\ sp \in Int /\ ControlInv /\ Operands
      /\ DOMAIN stack = Slots
  BY TopPart, Takes DEF Live, Inv, Pointers
<1>2. /\ results \in 0 .. 1 /\ sp = FloorOf(csp) + results
      /\ results = 1 => stack[FloorOf(csp) + 1] = Top
  BY Results
<1>3. /\ low \in Int /\ FloorOf(csp) \in Int /\ -1 <= low /\ low <= FloorOf(csp)
      /\ ~IsFunction(wasm, b) => low = FloorOf(csp)
      /\ IsFunction(wasm, b) => low = callstack[csp].sp
  BY <1>1, FramePart DEF Live
<1>4. CASE ~IsFunction(wasm, b)
  <2>1. sp' = sp /\ \A x \in Slots : stack'[x] = stack[x]
    BY <1>4, BlockKeepsItsResult, BlockKeepsItsSlots DEF Live
  <2>2. \A x \in 0 .. sp : x \in Slots
    BY <1>1, SizesAreNumbers DEF Tops, Slots
  <2>3. \A x \in 0 .. low : x \in 0 .. sp
    <3> HIDE DEF low, results
    <3> QED
      BY <1>1, <1>2, <1>3
  <2>4. \A k \in 1 .. results : low + k \in 0 .. sp /\ low + k = FloorOf(csp) + k
    <3> HIDE DEF low, results
    <3> QED
      BY <1>1, <1>2, <1>3, <1>4
  <2> HIDE DEF low, results
  <2> QED
    BY <1>2, <1>3, <1>4, <2>1, <2>2, <2>3, <2>4 DEF low, results
<1>5. CASE IsFunction(wasm, b)
  <2>1. sp' = low + results
    <3>1. PoppedSp(callstack[csp]) = callstack[csp].sp + results
      BY <1>1, <1>5, Popped DEF IsFunction, Live
    <3> QED
      BY <1>3, <1>5, <3>1
  <2>2. CASE results = 0
    <3>1. stack' = stack
      BY <2>2 DEF PoppedStack, HasResult, BlockAt
    <3>2. \A k \in 1 .. results : FALSE
      BY <2>2
    <3> QED
      BY <2>1, <3>1, <3>2
  <2>3. CASE results = 1
    <3>1. callstack[csp].sp = low /\ low < sp
      <4> HIDE DEF low, results
      <4> QED
        BY <1>1, <1>2, <1>3, <1>5, <2>3
    <3>2. stack' = [stack EXCEPT ![low + 1] = Top]
      BY <2>3, <3>1 DEF PoppedStack, HasResult, BlockAt
    <3>3. low + 1 \in Slots
      <4> HIDE DEF low
      <4> QED
        BY <1>1, <1>3, <3>1, SizesAreNumbers DEF Tops, Slots
    <3> HIDE DEF low
    <3>4. stack'[low + 1] = Top /\ \A x \in Slots : x # low + 1 => stack'[x] = stack[x]
      BY <1>1, <3>2, <3>3
    <3>5. \A x \in 0 .. low : x \in Slots /\ x # low + 1
      BY <1>1, <1>3, <3>1, SizesAreNumbers DEF Tops, Slots
    <3>6. \A k \in 1 .. results : k = 1
      BY <2>3
    <3> QED
      BY <1>2, <2>1, <2>3, <3>4, <3>5, <3>6 DEF low
  <2> QED
    BY <1>2, <2>2, <2>3
<1> QED
  BY <1>4, <1>5

LEMMA EndAnswers ==
  ASSUME Live, End, ~ResultMismatch(BlockAt(csp)), csp = 0
  PROVE  Refined
<1> DEFINE b == BlockAt(csp)
           results == ResultCount(wasm, b)
<1>1. Instr.op = "end"
  BY DEF End, Fetch
<1>2. /\ sp' = PoppedSp(callstack[csp]) /\ stack' = PoppedStack(callstack[csp])
      /\ wasm' = wasm /\ globals' = globals
      /\ status' = IF IsFunction(wasm, b) /\ csp = 0 THEN "true" ELSE "running"
  BY DEF End, BlockAt
<1>3. IsFunction(wasm, b) /\ BelowOf(csp) = -1
  <2>1. ControlInv /\ Operands
    BY Takes DEF Live
  <2>2. OwnFrame = 0
    BY OwnPart
  <2>3. IsFunction(wasm, b)
    BY <2>2, OwnPart
  <2> QED
    BY <2>1, <2>3 DEF BelowOf, Below, BlockAt, Operands
<1>4. status' = "true" /\ ~Running'
  BY <1>2, <1>3 DEF Running
<1>5. /\ results \in 0 .. 1
      /\ Abstract!Innermost.operands = Slice(stack, FloorOf(csp), FloorOf(csp) + results)
      /\ Abstract!Fulfilled(b, Abstract!Innermost.operands)
  BY <1>1, Results
<1>6. /\ sp' = -1 + results
      /\ \A k \in 1 .. results : stack'[-1 + k] = stack[FloorOf(csp) + k]
  BY <1>1, <1>2, <1>3, ResultsMove
<1>7. Slice(stack', -1, sp') = Abstract!Innermost.operands
  <2>1. -1 \in Int /\ FloorOf(csp) \in Int /\ results \in Int
    BY <1>5, TopPart
  <2> HIDE DEF results
  <2> QED
    BY <1>5, <1>6, <2>1, SliceMoves
<1>8. /\ NextAddress' = 0 /\ Stack' = <<>> /\ Phase' = "idle"
      /\ Answer' = Abstract!Innermost.operands
  BY <1>4, <1>7 DEF NextAddress, Stack, Phase, Answer, Running
<1>9. /\ Phase = "running" /\ Abstract!Instr = Instr /\ Abstract!Last = 1
      /\ Abstract!Innermost.block = b
  BY View DEF Part, BlockAt
<1> HIDE DEF b, results
<1>10. Abstract!End
  BY <1>1, <1>2, <1>5, <1>8, <1>9 DEF Abstract!End, Abstract!Fetch
<1> QED
  BY <1>4, <1>10 DEF Refined, Abstract!Next

LEMMA EndResumes ==
  ASSUME Live, End, ~ResultMismatch(BlockAt(csp)), csp > 0
  PROVE  Refined
<1> DEFINE b == BlockAt(csp)
           results == ResultCount(wasm, b)
           n == csp - 1
           low == BelowOf(csp)
<1>1. Instr.op = "end"
  BY DEF End, Fetch
<1>2. /\ sp' = PoppedSp(callstack[csp]) /\ stack' = PoppedStack(callstack[csp])
      /\ wasm' = wasm /\ globals' = globals /\ callstack' = callstack /\ csp' = csp - 1
      /\ pc' = (IF IsFunction(wasm, b) THEN callstack[csp].ra ELSE Instr.next)
      /\ status' = IF IsFunction(wasm, b) /\ csp = 0 THEN "true" ELSE "running"
  BY DEF End, BlockAt
<1>3. /\ csp \in Nat /\ csp \in 0 .. csp /\ n \in Nat /\ n \in 0 .. csp /\ n < csp /\ csp # 0
      /\ n + 1 = csp /\ FloorOf(csp) \in Int
  BY TopPart
<1>4. Running'
  BY <1>2, <1>3 DEF Running
<1>5. /\ results \in 0 .. 1
      /\ Abstract!Innermost.operands = Slice(stack, FloorOf(csp), FloorOf(csp) + results)
      /\ Abstract!Fulfilled(b, Abstract!Innermost.operands)
  BY <1>1, Results
<1>6. /\ sp' = low + results
      /\ \A x \in 0 .. low : stack'[x] = stack[x]
      /\ \A k \in 1 .. results : stack'[low + k] = stack[FloorOf(csp) + k]
  BY <1>1, <1>2, ResultsMove
<1>7. /\ low \in Int /\ FloorOf(n) \in Int /\ -1 <= FloorOf(n) /\ FloorOf(n) <= low
  <2>1. \A i \in 0 .. csp : /\ BelowOf(i) \in Int /\ FloorOf(i) \in Int
                            /\ -1 <= BelowOf(i) /\ BelowOf(i) <= FloorOf(i)
    BY FramePart DEF Live
  <2>2. \A i, j \in 0 .. csp : i < j => FloorOf(i) <= BelowOf(j)
    BY DEF Live, Stepped, FloorOf, BelowOf
  <2> HIDE DEF n
  <2> QED
    BY <1>3, <2>1, <2>2
<1> HIDE DEF results, n, low
<1>8. /\ Stack' = Abstract!Lowered(n + 1, Slice(stack', FloorOf(n), sp'))
      /\ Stepped(wasm', callstack', csp')
  <2>1. /\ sp' \in Int /\ FloorOf(n) <= sp'
        /\ \A x \in 0 .. FloorOf(n) : stack'[x] = stack[x]
    BY <1>5, <1>6, <1>7
  <2>2. csp' = n
    BY <1>2 DEF n
  <2> QED
    BY <1>2, <1>3, <1>4, <2>1, <2>2, Uncovered
<1>9. Slice(stack', FloorOf(n), sp') = Stack[n + 1].operands \o Abstract!Innermost.operands
  <2>1. Above(n) = low
    BY <1>3 DEF Above, BelowOf, low
  <2>2. Stack[n + 1] = EntryWith(n, Slice(stack, FloorOf(n), low))
    <3>1. Stack[n + 1] = Part(wasm, stack, callstack, n, Above(n))
      BY <1>3, View
    <3>2. Part(wasm, stack, callstack, n, Above(n)) = EntryWith(n, Slice(stack, FloorOf(n), Above(n)))
      BY EntryOfFrame
    <3> QED
      BY <2>1, <3>1, <3>2
  <2>3. Slice(stack', FloorOf(n), low) = Slice(stack, FloorOf(n), low)
    <3>1. \A x \in FloorOf(n) + 1 .. low : stack'[x] = stack[x]
      BY <1>6, <1>7
    <3> QED
      BY <1>7, <3>1, SliceStays
  <2>4. Slice(stack', low, low + results) = Slice(stack, FloorOf(csp), FloorOf(csp) + results)
    <3>1. results \in Int /\ low \in Int /\ FloorOf(csp) \in Int
      BY <1>3, <1>5, <1>7
    <3>2. \A k \in 1 .. results : stack'[low + k] = stack[FloorOf(csp) + k]
      BY <1>6
    <3>3. /\ (low + results) - low = results
          /\ (FloorOf(csp) + results) - FloorOf(csp) = results
      BY <3>1
    <3> QED
      BY <3>2, <3>3 DEF Slice
  <2>5. Slice(stack', FloorOf(n), low) \o Slice(stack', low, low + results)
          = Slice(stack', FloorOf(n), low + results)
    <3>1. low + results \in Int /\ low <= low + results
      BY <1>5, <1>7
    <3> QED
      BY <1>7, <3>1, SliceJoins
  <2>6. Stack[n + 1].operands = Slice(stack, FloorOf(n), low)
    BY <2>2 DEF EntryWith
  <2> QED
    BY <1>5, <1>6, <2>3, <2>4, <2>5, <2>6
<1>10. /\ Phase = "running" /\ Abstract!Instr = Instr /\ Abstract!Last = csp + 1
       /\ Abstract!Innermost.block = b
       /\ Abstract!Innermost = EntryWith(csp, Slice(stack, FloorOf(csp), sp))
  <2>1. Abstract!Innermost = Part(wasm, stack, callstack, csp, sp)
    BY View
  <2>2. Part(wasm, stack, callstack, csp, sp) = EntryWith(csp, Slice(stack, FloorOf(csp), sp))
    BY EntryOfFrame
  <2> QED
    BY <2>1, <2>2, View DEF EntryWith
<1>11. /\ IsFunction(wasm, b) => Abstract!Innermost.return_to = callstack[csp].ra
       /\ Abstract!IsFunction(wasm, b) = IsFunction(wasm, b)
  BY <1>10, SameOperators DEF EntryWith, ReturnTo
<1>12. Phase' = Phase /\ Answer' = Answer /\ NextAddress' = pc'
  BY <1>2, <1>3, <1>4, StillRunning DEF n
<1>13. Abstract!Last - 1 = n + 1 /\ Abstract!Last > 1 /\ Abstract!Last # 1
  <2>1. (csp + 1) - 1 = n + 1 /\ csp + 1 > 1 /\ csp + 1 # 1
    BY <1>3
  <2> QED
    BY <1>10, <2>1
<1> HIDE DEF b
<1>14. Abstract!End
  BY <1>1, <1>2, <1>5, <1>8, <1>9, <1>10, <1>11, <1>12, <1>13 DEF Abstract!End, Abstract!Fetch
<1> QED
  BY <1>8, <1>14 DEF Refined, Abstract!Next

LEMMA EndRefines ==
  ASSUME Live, End, NoMismatch'
  PROVE  Refined
<1>1. ~ResultMismatch(BlockAt(csp))
  BY DEF End, Trap, NoMismatch, BlockAt
<1>2. csp = 0 \/ csp > 0
  BY TopPart
<1> QED
  BY <1>1, <1>2, EndAnswers, EndResumes

-----------------------------------------------------------------------------
(***************************************************************************)
(* Calls.  setup_call finds the arguments where the function's parameters  *)
(* shall be, and puts zeros above them.                                    *)
(***************************************************************************)
LEMMA NewActivation ==
  ASSUME Inv, NEW fidx \in DOMAIN wasm.functions, IsFunction(wasm, wasm.functions[fidx]),
         NEW s, NEW top \in Int, NEW c \in -1 .. CALLSTACK_SIZE - 1, NEW f, NEW savedPc,
         SetupCall(fidx, s, top, c, f, savedPc), CalleeTop(fidx, top) < STACK_SIZE,
         top - ParamCount(wasm, wasm.functions[fidx]) >= -1
  PROVE  LET base == top - ParamCount(wasm, wasm.functions[fidx]) IN
         /\ csp' = c + 1 /\ pc' = Abstract!Start(fidx)
         /\ Below(wasm, callstack', c + 1) = base
         /\ Part(wasm, stack', callstack', c + 1, sp')
              = Abstract!FunctionEntry(fidx, Slice(s, base, top), IF c + 1 > 0 THEN savedPc ELSE 0)
         /\ \A x \in 0 .. top : stack'[x] = s[x]
         /\ \A i \in 0 .. c : callstack'[i] = callstack[i]
<1> DEFINE b == wasm.functions[fidx]
           params == ParamCount(wasm, b)
           locals == LocalCount(wasm, b)
           base == top - params
           frame == [block |-> b, sp |-> base, fp |-> f, ra |-> savedPc]
           zeros == [k \in 1 .. locals |->
                       [value_type |-> wasm.block[b].locals[k], value |-> 0]]
<1>1. wasm \in Modules /\ b \in DOMAIN wasm.block /\ ControlInv
  BY NestingAssumption DEF Inv, ControlInv, ControlTypes, WellNested
<1>2. params \in Nat /\ locals \in Nat /\ SlotCount(wasm, b) = params + locals
  BY <1>1, CountFacts DEF SlotCount
<1>3. /\ csp' = c + 1 /\ callstack' = [callstack EXCEPT ![c + 1] = frame]
      /\ sp' = top + locals
      /\ stack' = ZeroLocals(s, b, top) /\ pc' = wasm.block[b].start_addr
  BY DEF SetupCall, PushBlock, CalleeTop, Block
<1>4. callstack'[c + 1] = frame /\ \A i \in 0 .. c : callstack'[i] = callstack[i]
  <2>1. c + 1 \in 0 .. CALLSTACK_SIZE /\ \A i \in 0 .. c : i \in 0 .. CALLSTACK_SIZE /\ i # c + 1
    BY SizesAreNumbers
  <2> QED
    BY <1>1, <1>3, <2>1 DEF ControlInv, ControlTypes
<1>5. top + locals < STACK_SIZE /\ base \in Int /\ base >= -1
  BY <1>2 DEF CalleeTop
<1> HIDE DEF params, locals, base, zeros
<1>6. \A x \in 0 .. top : stack'[x] = s[x]
  <2>1. \A x \in 0 .. top : x \in Slots /\ x \notin top + 1 .. top + locals
    BY <1>2, <1>5, SizesAreNumbers DEF Slots
  <2> QED
    BY <1>3, <2>1 DEF ZeroLocals, locals
<1>7. base <= top /\ base + SlotCount(wasm, b) = top + locals /\ top <= top + locals
      /\ (top + locals) - top = locals /\ top + locals \in Int
  BY <1>2 DEF base
<1>8. /\ Floor(wasm, callstack', c + 1) = sp' /\ Below(wasm, callstack', c + 1) = base
  <2>1. /\ callstack'[c + 1].block = b /\ callstack'[c + 1].sp = base
    BY <1>4
  <2>2. Floor(wasm, callstack', c + 1) = base + SlotCount(wasm, b)
    BY <2>1 DEF Floor, IsFunction
  <2> QED
    BY <1>3, <1>7, <2>1, <2>2 DEF Below
<1>9. Slice(stack', base, sp') = Slice(s, base, top) \o zeros
  <2>1. Slice(stack', base, top) = Slice(s, base, top)
    <3>1. \A x \in base + 1 .. top : stack'[x] = s[x]
      BY <1>5, <1>6
    <3> QED
      BY <1>5, <3>1, SliceStays
  <2>2. Slice(stack', top, top + locals) = zeros
    <3>1. \A k \in 1 .. locals : /\ top + k \in Slots /\ top + k \in top + 1 .. top + locals
                                 /\ (top + k) - top = k
      BY <1>2, <1>5, <1>7, SizesAreNumbers DEF Slots
    <3>2. \A k \in 1 .. locals : stack'[top + k] = Val(Block(b).locals[(top + k) - top], 0)
      BY <1>3, <3>1 DEF ZeroLocals, locals
    <3>3. \A k \in 1 .. locals :
            stack'[top + k] = [value_type |-> wasm.block[b].locals[k], value |-> 0]
      BY <3>1, <3>2 DEF Val, Block
    <3> QED
      BY <1>7, <3>3 DEF Slice, zeros
  <2>3. Slice(stack', base, top) \o Slice(stack', top, top + locals)
          = Slice(stack', base, top + locals)
    BY <1>5, <1>7, SliceJoins
  <2> QED
    BY <1>3, <2>1, <2>2, <2>3
<1>10. Slice(stack', sp', sp') = <<>>
  BY <1>3, <1>7, EmptySlice
<1>11. Part(wasm, stack', callstack', c + 1, sp')
         = [block |-> b, locals |-> Slice(s, base, top) \o zeros, operands |-> <<>>,
            return_to |-> IF c + 1 > 0 THEN savedPc ELSE 0]
  <2>1. callstack'[c + 1].block = b /\ callstack'[c + 1].ra = savedPc
    BY <1>4 DEF frame
  <2>2. IsFunction(wasm, b)
    BY DEF b
  <2> DEFINE later == callstack'
             new == stack'
  <2>3. Part(wasm, new, later, c + 1, sp')
          = [block |-> later[c + 1].block,
             locals |-> Slice(new, Below(wasm, later, c + 1), Floor(wasm, later, c + 1)),
             operands |-> Slice(new, Floor(wasm, later, c + 1), sp'),
             return_to |-> IF IsFunction(wasm, later[c + 1].block) /\ c + 1 > 0
                             THEN later[c + 1].ra ELSE 0]
    BY Zenon DEF Part
  <2>4. /\ Slice(new, Below(wasm, later, c + 1), Floor(wasm, later, c + 1))
             = Slice(s, base, top) \o zeros
        /\ Slice(new, Floor(wasm, later, c + 1), sp') = <<>>
    BY <1>8, <1>9, <1>10, Zenon
  <2>5. /\ later[c + 1].block = b /\ later[c + 1].ra = savedPc
        /\ IsFunction(wasm, later[c + 1].block)
    BY <2>1, <2>2, Zenon
  <2> HIDE DEF later, new
  <2>6. (IF IsFunction(wasm, later[c + 1].block) /\ c + 1 > 0 THEN later[c + 1].ra ELSE 0)
          = IF c + 1 > 0 THEN savedPc ELSE 0
    BY <2>5, Zenon
  <2>7. Part(wasm, new, later, c + 1, sp')
          = [block |-> b, locals |-> Slice(s, base, top) \o zeros, operands |-> <<>>,
             return_to |-> IF c + 1 > 0 THEN savedPc ELSE 0]
    BY <2>3, <2>4, <2>5, <2>6, Zenon
  <2> QED
    BY <2>7, Zenon DEF later, new
<1>12. Abstract!FunctionEntry(fidx, Slice(s, base, top), IF c + 1 > 0 THEN savedPc ELSE 0)
         = [block |-> b, locals |-> Slice(s, base, top) \o zeros, operands |-> <<>>,
            return_to |-> IF c + 1 > 0 THEN savedPc ELSE 0]
  <2>1. Abstract!LocalCount(wasm, b) = locals
    BY SameOperators DEF locals
  <2> QED
    BY <2>1 DEF Abstract!FunctionEntry, Abstract!Entry, zeros
<1>13. pc' = Abstract!Start(fidx)
  BY <1>3 DEF Abstract!Start
<1> QED
  BY <1>3, <1>4, <1>6, <1>8, <1>11, <1>12, <1>13 DEF base, params

LEMMA Calls ==
  ASSUME Live, Running', ~CallStackExhausted, NEW fidx \in DOMAIN wasm.functions,
         NEW top \in Int, EnterFunction(fidx, top), wasm' = wasm,
         top - ParamCount(wasm, wasm.functions[fidx]) = sp - Pops(wasm, Instr)
  PROVE  /\ Abstract!Called(fidx, Slice(stack, sp - Pops(wasm, Instr), top))
         /\ Stepped(wasm', callstack', csp') /\ csp' \in Nat
<1> DEFINE b == wasm.functions[fidx]
           base == top - ParamCount(wasm, b)
<1>1. /\ csp \in Nat /\ base = sp - Pops(wasm, Instr) /\ base \in Tops /\ base \in Int
      /\ wasm \in Modules /\ WellNested(wasm) /\ base >= -1
  <2>1. sp - Pops(wasm, Instr) \in Tops
    BY TopPart
  <2>2. sp - Pops(wasm, Instr) \in Int /\ sp - Pops(wasm, Instr) >= -1
    BY <2>1, SizesAreNumbers DEF Tops
  <2> QED
    BY <2>1, <2>2, TopPart, NestingAssumption
<1>2. b \in DOMAIN wasm.labels /\ IsFunction(wasm, b)
  <2>1. fidx \in Nat /\ wasm.import_func_count \in Nat /\ ~IsImport(fidx)
    BY <1>1, NoImports DEF WellNested, Live
  <2>2. fidx >= wasm.import_func_count
    BY <2>1 DEF IsImport
  <2> QED
    BY <1>1, <2>2 DEF WellNested
<1>3. csp \in -1 .. CALLSTACK_SIZE - 1
  BY <1>1, SizesAreNumbers DEF CallStackExhausted
<1>4. /\ CalleeTop(fidx, top) < STACK_SIZE
      /\ SetupCall(fidx, stack, top, csp, fp, Instr.next)
  BY DEF EnterFunction
<1> HIDE DEF b
<1>5. /\ csp' = csp + 1 /\ pc' = Abstract!Start(fidx)
      /\ Below(wasm, callstack', csp + 1) = base
      /\ Part(wasm, stack', callstack', csp + 1, sp')
           = Abstract!FunctionEntry(fidx, Slice(stack, base, top),
                                    IF csp + 1 > 0 THEN Instr.next ELSE 0)
      /\ \A x \in 0 .. top : stack'[x] = stack[x]
      /\ \A i \in 0 .. csp : callstack'[i] = callstack[i]
  BY <1>1, <1>2, <1>3, <1>4, NewActivation DEF b, Live
<1>6. base <= top
  <2>1. ParamCount(wasm, b) \in Nat
    BY <1>1, <1>2, CountFacts DEF WellNested
  <2> HIDE DEF b
  <2> QED
    BY <2>1
<1>7. \A x \in 0 .. base : stack'[x] = stack[x]
  <2> HIDE DEF base
  <2> QED
    BY <1>1, <1>5, <1>6
<1>8. /\ Stack' = Append(Abstract!Rest, Part(wasm, stack', callstack', csp + 1, sp'))
      /\ Stepped(wasm', callstack', csp')
  BY <1>1, <1>5, <1>7, Covered
<1>9. csp' \in Nat /\ csp + 1 > 0
  BY <1>1, <1>5
<1>10. /\ NextAddress' = pc' /\ Abstract!Instr = Instr
  BY <1>9, StillRunning, View
<1> QED
  BY <1>1, <1>5, <1>8, <1>9, <1>10 DEF Abstract!Called

LEMMA CallRefines ==
  ASSUME Live, Call
  PROVE  Refined
<1>1. /\ Instr.op = "call" /\ Imm = Instr.imm /\ Instr.op \in Abstract!CanFail
      /\ wasm' = wasm /\ globals' = globals
  BY DEF Call, Fetch, Imm, Abstract!CanFail, Overrun
<1>2. Imm \in DOMAIN wasm.functions /\ ~IsImport(Imm)
  <2>1. NestedInstr(wasm, pc) /\ Instr = wasm.code[pc]
    BY TypedPc DEF Live
  <2> QED
    BY <1>1, <2>1, NoImports DEF NestedInstr, Live
<1>3. CASE status' \in {"false", "overrun"}
  BY <1>1, <1>3, Fails
<1>4. CASE status' \notin {"false", "overrun"}
  <2>1. ~CallStackExhausted /\ EnterFunction(Imm, sp) /\ status' = status
    BY <1>2, <1>4 DEF Call, Exhausted, Trap, Overrun
  <2>2. Running'
    BY <2>1 DEF Running, Live
  <2>3. sp \in Int /\ sp - ParamCount(wasm, wasm.functions[Imm]) = sp - Pops(wasm, Instr)
    BY <1>1, TopPart DEF Pops
  <2>4. /\ Abstract!Called(Imm, Taken)
        /\ Stepped(wasm', callstack', csp') /\ csp' \in Nat
    BY <1>1, <1>2, <2>1, <2>2, <2>3, Calls DEF Taken
  <2>5. Phase = "running" /\ Phase' = Phase /\ Answer' = Answer /\ Abstract!Instr = Instr
    BY <2>2, <2>4, StillRunning, View
  <2>6. Abstract!Call
    BY <1>1, <2>4, <2>5, OperandView DEF Abstract!Call, Abstract!Fetch
  <2> QED
    BY <2>4, <2>6 DEF Refined, Abstract!Next
<1> QED
  BY <1>3, <1>4

LEMMA CallIndirectRefines ==
  ASSUME Live, CallIndirect
  PROVE  Refined
<1> DEFINE type == wasm.types[Imm]
           b == wasm.functions[Callee]
           params == Len(type.params)
<1>1. /\ Instr.op = "call_indirect" /\ Imm = Instr.imm /\ Instr.op \in Abstract!CanFail
      /\ wasm' = wasm /\ globals' = globals
  BY DEF CallIndirect, CallEntry, Fetch, Imm, Abstract!CanFail, Overrun
<1>2. /\ wasm \in Modules /\ TypedInstr(wasm, pc) /\ Instr = wasm.code[pc]
  BY TypedPc DEF Live
<1>3. Pops(wasm, Instr) = 1 + params /\ params \in Nat /\ sp \in Int
  <2>1. type \in FuncType
    BY <1>1, <1>2 DEF TypedInstr
  <2>2. params \in Nat
    BY <2>1, LenProperties DEF FuncType
  <2> QED
    BY <1>1, <2>2, TopPart DEF Pops
<1>4. CASE status' \in {"false", "overrun", "overread"}
  BY <1>1, <1>4, Fails
<1>5. CASE status' \notin {"false", "overrun", "overread"}
  <2>1. InTable(TopI32) /\ Allocated(TopI32) /\ CallEntry
    BY <1>5 DEF CallIndirect, Trap
  <2>2. Callee \in DOMAIN wasm.functions /\ Callable(wasm, Callee, type) /\ ~IsImport(Callee)
    <3>1. Callee \in DOMAIN wasm.functions
      BY <1>2, <2>1, NestingAssumption DEF WellNested, Callee, Allocated
    <3> QED
      BY <1>1, <1>2, <3>1, NoImports DEF TypedInstr, Live
  <2>3. /\ ~CallStackExhausted /\ ~MaskMismatch /\ EnterFunction(Callee, sp - 1)
        /\ status' = status
    BY <1>5, <2>1, <2>2 DEF CallEntry, Exhausted, Trap, Overrun
  <2>4. Running'
    BY <2>3 DEF Running, Live
  <2>5. wasm.block[b].type.params = type.params /\ wasm.block[b].type.results = type.results
    BY <2>2, <2>3 DEF Callable, IsImport, MaskMismatch, CalleeType, Block
  <2>6. sp - 1 \in Int /\ (sp - 1) - ParamCount(wasm, b) = sp - Pops(wasm, Instr)
    <3>1. ParamCount(wasm, b) = params
      BY <2>5 DEF ParamCount
    <3> HIDE DEF b, params
    <3> QED
      BY <1>3, <3>1
  <2>7. /\ Abstract!Called(Callee, Slice(stack, sp - Pops(wasm, Instr), sp - 1))
        /\ Stepped(wasm', callstack', csp') /\ csp' \in Nat
    <3> HIDE DEF b
    <3> QED
      BY <1>1, <2>2, <2>3, <2>4, <2>6, Calls DEF b
  <2>8. Abstract!Without(Taken, 1) = Slice(stack, sp - Pops(wasm, Instr), sp - 1)
    <3> DEFINE low == sp - Pops(wasm, Instr)
    <3>1. low \in Int /\ low <= sp /\ 1 \in 0 .. sp - low
      <4> HIDE DEF params
      <4> QED
        BY <1>3
    <3> HIDE DEF low
    <3>2. SubSeq(Slice(stack, low, sp), 1, Len(Slice(stack, low, sp)) - 1)
            = Slice(stack, low, sp - 1)
      BY <1>3, <3>1, SliceSplits
    <3> QED
      BY <3>2 DEF low, Taken, Abstract!Without
  <2>9. I32Of(Abstract!Popped[Len(Abstract!Popped)]) = TopI32 /\ Abstract!Popped = Taken
    <3>1. Pops(wasm, Instr) > 0
      <4> HIDE DEF params
      <4> QED
        BY <1>3
    <3>2. Taken[Len(Taken)] = Top
      BY <3>1, TakenOperands
    <3> QED
      BY <3>2, OperandView DEF I32Of, TopI32
  <2>10. Phase = "running" /\ Phase' = Phase /\ Answer' = Answer /\ Abstract!Instr = Instr
    BY <2>4, <2>7, StillRunning, View
  <2> DEFINE index == I32Of(Abstract!Popped[Len(Abstract!Popped)])
  <2>11. /\ index \in DOMAIN wasm.table.entries /\ wasm.table.entries[index] = Callee
         /\ Abstract!Called(wasm.table.entries[index], Abstract!Without(Abstract!Popped, 1))
    BY <2>1, <2>7, <2>8, <2>9 DEF Allocated, Callee
  <2>12. Abstract!Call
    <3> HIDE DEF index
    <3>1. /\ wasm.block[wasm.functions[wasm.table.entries[index]]].type.params
               = wasm.types[Instr.imm].params
          /\ wasm.block[wasm.functions[wasm.table.entries[index]]].type.results
               = wasm.types[Instr.imm].results
      BY <1>1, <2>5, <2>11
    <3> QED
      BY <1>1, <2>10, <2>11, <3>1 DEF Abstract!Call, Abstract!Fetch, index
  <2> QED
    BY <2>7, <2>12 DEF Refined, Abstract!Next
<1> QED
  BY <1>4, <1>5

-----------------------------------------------------------------------------
(***************************************************************************)
(* Parameters, variables and numbers.                                      *)
(***************************************************************************)
Under == sp - Pops(wasm, Instr)

(* Where the operands of frame i end that the instruction leaves alone.    *)
KeptTo(i) == IF i = csp THEN Under ELSE BelowOf(i + 1)

LEMMA Kept ==
  ASSUME Live, NEW i \in 0 .. csp
  PROVE  /\ BelowOf(i) \in Int /\ FloorOf(i) \in Int /\ KeptTo(i) \in Int /\ Under \in Int
         /\ -1 <= BelowOf(i) /\ BelowOf(i) <= FloorOf(i)
         /\ FloorOf(i) <= KeptTo(i) /\ KeptTo(i) <= Under
         /\ Abstract!Rest[i + 1] = EntryWith(i, Slice(stack, FloorOf(i), KeptTo(i)))
         /\ \A j \in 0 .. csp : i < j => KeptTo(i) <= BelowOf(j)
<1>1. /\ BelowOf(i) \in Int /\ FloorOf(i) \in Int
      /\ -1 <= BelowOf(i) /\ BelowOf(i) <= FloorOf(i)
  BY FramePart DEF Live
<1>2. /\ csp \in Nat /\ csp \in 0 .. csp /\ FloorOf(csp) \in Int
      /\ Under \in Int /\ FloorOf(csp) <= Under
  BY TopPart DEF Under
<1>3. BelowOf(csp) \in Int /\ BelowOf(csp) <= FloorOf(csp)
  BY <1>2, FramePart DEF Live
<1>4. /\ Above(i) \in Int /\ FloorOf(i) <= Above(i)
      /\ \A j \in 0 .. csp : i < j => Above(i) <= BelowOf(j)
  BY PartsApart
<1>5. Abstract!Rest[i + 1] = IF i + 1 = csp + 1 THEN EntryWith(csp, Remaining) ELSE Stack[i + 1]
  <2>1. i + 1 \in 1 .. csp + 1
    BY <1>2
  <2>2. Abstract!Rest = [m \in 1 .. csp + 1 |-> IF m = csp + 1
                           THEN EntryWith(csp, Remaining) ELSE Stack[m]]
    BY RestView
  <2>3. [m \in 1 .. csp + 1 |-> IF m = csp + 1
           THEN EntryWith(csp, Remaining) ELSE Stack[m]][i + 1]
          = IF i + 1 = csp + 1 THEN EntryWith(csp, Remaining) ELSE Stack[i + 1]
    BY <2>1
  <2> QED
    BY <2>2, <2>3, Zenon
<1>6. CASE i = csp
  <2>1. KeptTo(i) = Under /\ \A j \in 0 .. csp : ~(i < j)
    BY <1>2, <1>6 DEF KeptTo
  <2> QED
    BY <1>1, <1>2, <1>5, <1>6, <2>1 DEF Remaining, Under
<1>7. CASE i # csp
  <2>1. KeptTo(i) = Above(i)
    BY <1>7 DEF KeptTo, Above, BelowOf
  <2>2. i < csp /\ i + 1 # csp + 1
    BY <1>2, <1>7
  <2>3. Above(i) <= Under
    BY <1>2, <1>3, <1>4, <2>2
  <2>4. Abstract!Rest[i + 1] = EntryWith(i, Slice(stack, FloorOf(i), Above(i)))
    BY <1>5, <2>2, View, EntryOfFrame
  <2> QED
    BY <1>1, <1>2, <1>4, <2>1, <2>3, <2>4
<1> QED
  BY <1>6, <1>7

(* A parameter or local of the running function belongs to no other part.  *)
LEMMA OwnSlot ==
  ASSUME Live, NEW x \in fp .. OperandBase, NEW i \in 0 .. csp
  PROVE  /\ x \notin FloorOf(i) + 1 .. KeptTo(i)
         /\ x \in BelowOf(i) + 1 .. FloorOf(i) => i = OwnFrame
         /\ x \in 0 .. Under
<1>1. /\ OwnFrame \in 0 .. csp /\ fp \in Nat
      /\ BelowOf(OwnFrame) = fp - 1 /\ FloorOf(OwnFrame) = OperandBase
  BY OwnPart
<1>2. OperandBase \in Int /\ x \in Int /\ csp \in Nat
  BY <1>1, TopPart
<1>3. /\ BelowOf(i) \in Int /\ FloorOf(i) \in Int /\ KeptTo(i) \in Int
      /\ BelowOf(i) <= FloorOf(i) /\ FloorOf(i) <= KeptTo(i)
      /\ i < OwnFrame => KeptTo(i) <= fp - 1
  BY <1>1, Kept
<1>4. /\ KeptTo(OwnFrame) \in Int /\ OperandBase <= KeptTo(OwnFrame) /\ KeptTo(OwnFrame) <= Under
      /\ OwnFrame < i => KeptTo(OwnFrame) <= BelowOf(i)
      /\ Under \in Int
  BY <1>1, Kept
<1>5. i < OwnFrame \/ i = OwnFrame \/ OwnFrame < i
  BY <1>1
<1> QED
  BY <1>1, <1>2, <1>3, <1>4, <1>5

SetsLocal == Instr.op \in {"local.set", "local.tee"}

(* What the instruction leaves alone: all under the operands it takes but  *)
(* the local that it sets.                                                 *)
LEMMA KeptPart ==
  ASSUME Live, NEW later, NEW new, NEW i \in 0 .. csp, later[i] = callstack[i], NEW high,
         SetsLocal => fp + Instr.imm \in fp .. OperandBase,
         \A x \in 0 .. Under : new[x] = IF SetsLocal /\ x = fp + Instr.imm THEN Top ELSE stack[x]
  PROVE  /\ Slice(new, FloorOf(i), KeptTo(i)) = Slice(stack, FloorOf(i), KeptTo(i))
         /\ ~(SetsLocal /\ i = OwnFrame) =>
              Part(wasm, new, later, i, high) = EntryWith(i, Slice(new, FloorOf(i), high))
<1>1. /\ BelowOf(i) \in Int /\ FloorOf(i) \in Int /\ KeptTo(i) \in Int /\ Under \in Int
      /\ -1 <= BelowOf(i) /\ BelowOf(i) <= FloorOf(i)
      /\ FloorOf(i) <= KeptTo(i) /\ KeptTo(i) <= Under
  BY Kept
<1>2. SetsLocal => /\ fp + Instr.imm \notin FloorOf(i) + 1 .. KeptTo(i)
                   /\ fp + Instr.imm \in BelowOf(i) + 1 .. FloorOf(i) => i = OwnFrame
  BY OwnSlot
<1>3. Slice(new, FloorOf(i), KeptTo(i)) = Slice(stack, FloorOf(i), KeptTo(i))
  <2>1. \A x \in FloorOf(i) + 1 .. KeptTo(i) : new[x] = stack[x]
    <3> SUFFICES ASSUME NEW x \in FloorOf(i) + 1 .. KeptTo(i)
                 PROVE  new[x] = stack[x]
      OBVIOUS
    <3>1. x \in 0 .. Under
      BY <1>1
    <3>2. ~(SetsLocal /\ x = fp + Instr.imm)
      BY <1>2
    <3> QED
      BY <3>1, <3>2
  <2> QED
    BY <1>1, <2>1, SliceStays
<1>4. ASSUME ~(SetsLocal /\ i = OwnFrame)
      PROVE  Part(wasm, new, later, i, high) = EntryWith(i, Slice(new, FloorOf(i), high))
  <2>1. \A x \in BelowOf(i) + 1 .. FloorOf(i) : new[x] = stack[x]
    <3> SUFFICES ASSUME NEW x \in BelowOf(i) + 1 .. FloorOf(i)
                 PROVE  new[x] = stack[x]
      OBVIOUS
    <3>1. x \in 0 .. Under
      BY <1>1
    <3>2. ~(SetsLocal /\ x = fp + Instr.imm)
      BY <1>2, <1>4
    <3> QED
      BY <3>1, <3>2
  <2> QED
    BY <1>1, <2>1, LocalsStay
<1> QED
  BY <1>3, <1>4

(* The locals of the running function, after one of them is set.           *)
LEMMA LocalIsSet ==
  ASSUME Live, NEW new, SetsLocal,
         \A x \in 0 .. Under : new[x] = IF SetsLocal /\ x = fp + Instr.imm THEN Top ELSE stack[x]
  PROVE  Slice(new, fp - 1, OperandBase)
           = [Slice(stack, fp - 1, OperandBase) EXCEPT ![Instr.imm + 1] = Top]
<1> DEFINE slots == SlotCount(wasm, Own)
           n == Instr.imm + 1
<1>1. /\ fp \in Nat /\ slots \in Nat /\ OperandBase = fp - 1 + slots
      /\ OwnFrame \in 0 .. csp
      /\ BelowOf(OwnFrame) = fp - 1 /\ FloorOf(OwnFrame) = OperandBase
  BY OwnPart
<1>2. OperandBase <= Under /\ Under \in Int
  <2>1. FloorOf(OwnFrame) <= KeptTo(OwnFrame) /\ KeptTo(OwnFrame) <= Under
        /\ KeptTo(OwnFrame) \in Int /\ FloorOf(OwnFrame) \in Int /\ Under \in Int
    BY <1>1, Kept
  <2> QED
    BY <1>1, <2>1
<1>3. n \in 1 .. slots /\ Instr.imm \in Int
  <2>1. Instr.imm \in 0 .. slots - 1
    <3>1. TypedInstr(wasm, pc) /\ Instr = wasm.code[pc] /\ wasm.owner[pc] = BlockAt(csp)
      BY TypedPc DEF Live
    <3> QED
      BY <3>1 DEF TypedInstr, SetsLocal, Own
  <2> HIDE DEF slots
  <2> QED
    BY <1>1, <2>1
<1>4. \A k \in 1 .. slots : /\ fp - 1 + k \in 0 .. Under
                            /\ (fp - 1 + k = fp + Instr.imm) <=> (k = n)
  <2> HIDE DEF slots
  <2> QED
    BY <1>1, <1>2, <1>3
<1>5. OperandBase - (fp - 1) = slots
  <2> HIDE DEF slots
  <2> QED
    BY <1>1
<1>6. \A k \in 1 .. slots : new[fp - 1 + k] = IF k = n THEN Top ELSE stack[fp - 1 + k]
  BY <1>4
<1>7. Slice(new, fp - 1, OperandBase) = [k \in 1 .. slots |-> new[fp - 1 + k]]
  BY <1>5 DEF Slice
<1>8. Slice(stack, fp - 1, OperandBase) = [k \in 1 .. slots |-> stack[fp - 1 + k]]
  BY <1>5 DEF Slice
<1>9. [[k \in 1 .. slots |-> stack[fp - 1 + k]] EXCEPT ![n] = Top]
        = [k \in 1 .. slots |-> IF k = n THEN Top ELSE stack[fp - 1 + k]]
  <2> HIDE DEF n, slots
  <2> QED
    BY <1>3
<1> HIDE DEF n, slots
<1>10. [k \in 1 .. slots |-> new[fp - 1 + k]]
         = [k \in 1 .. slots |-> IF k = n THEN Top ELSE stack[fp - 1 + k]]
  BY <1>6
<1> QED
  BY <1>7, <1>8, <1>9, <1>10 DEF n

(* An entry with other operands and other locals.                          *)
Changed(e, o, l) == [e EXCEPT !.operands = o, !.locals = l]

LEMMA BothChanged ==
  ASSUME NEW i, NEW o, NEW o2, NEW l2
  PROVE  Changed(EntryWith(i, o), o2, l2)
           = [block |-> BlockAt(i), locals |-> l2, operands |-> o2, return_to |-> ReturnTo(i)]
<1> DEFINE first == EntryWith(i, o)
           second == EntryWith(i, o2)
           third == [block |-> BlockAt(i), locals |-> l2, operands |-> o2,
                     return_to |-> ReturnTo(i)]
<1>1. [first EXCEPT !.operands = o2] = second
  BY DEF EntryWith
<1>2. [second EXCEPT !.locals = l2] = third
  BY DEF EntryWith
<1>3. \A e : [e EXCEPT !.operands = o2, !.locals = l2]
               = [[e EXCEPT !.operands = o2] EXCEPT !.locals = l2]
  OBVIOUS
<1> HIDE DEF first, second, third
<1>4. [first EXCEPT !.operands = o2, !.locals = l2]
        = [[first EXCEPT !.operands = o2] EXCEPT !.locals = l2]
  BY <1>3
<1>5. [first EXCEPT !.operands = o2, !.locals = l2] = third
  BY <1>1, <1>2, <1>4
<1> QED
  BY <1>5 DEF first, third, Changed

(* What an instruction leaves that computes: its results on top, one local *)
(* or none that is set, and all else as it was.                            *)
LEMMA Computes ==
  ASSUME Live, Running', Instr.op \in PlainOps \ {"br_if", "call", "call_indirect"},
         ~TrapsOn(Instr, Taken), wasm' = wasm, csp' = csp, callstack' = callstack, Advance,
         sp' \in Int, Under <= sp', Slice(stack', Under, sp') = Abstract!Results,
         \A x \in 0 .. Under :
           stack'[x] = IF SetsLocal /\ x = fp + Instr.imm THEN Top ELSE stack[x],
         globals' = IF Instr.op = "global.set" THEN [globals EXCEPT ![Instr.imm] = Top] ELSE globals
  PROVE  Refined
<1>1. csp \in Nat /\ csp' \in Nat /\ csp \in 0 .. csp
  BY TopPart
<1>2. /\ DOMAIN Stack = 1 .. csp + 1 /\ Abstract!Last = csp + 1
      /\ Abstract!OwnFunction = OwnFrame + 1 /\ Abstract!Instr = Instr /\ Phase = "running"
  BY View
<1>3. /\ Phase' = Phase /\ Answer' = Answer /\ NextAddress' = pc'
  BY <1>1, StillRunning
<1>4. SetsLocal \/ Instr.op = "global.set" => Abstract!Popped[1] = Top
  <2> SUFFICES ASSUME SetsLocal \/ Instr.op = "global.set"
               PROVE  Abstract!Popped[1] = Top
    OBVIOUS
  <2>1. Pops(wasm, Instr) = 1
    BY DEF SetsLocal, Pops
  <2> QED
    BY <2>1, OneTaken
<1>5. SetsLocal => fp + Instr.imm \in fp .. OperandBase
  <2> SUFFICES ASSUME SetsLocal
               PROVE  fp + Instr.imm \in fp .. OperandBase
    OBVIOUS
  <2>1. TypedInstr(wasm, pc) /\ Instr = wasm.code[pc] /\ wasm.owner[pc] = BlockAt(csp)
    BY TypedPc DEF Live
  <2>2. Instr.imm \in 0 .. SlotCount(wasm, Own) - 1
    BY <2>1 DEF TypedInstr, SetsLocal, Own
  <2> QED
    BY <2>2, OwnPart
<1> DEFINE operandsOf(m, e) == IF m = csp + 1 THEN e.operands \o Abstract!Results ELSE e.operands
           localsOf(m, e) == IF m = OwnFrame + 1 /\ SetsLocal
                               THEN [e.locals EXCEPT ![Instr.imm + 1] = Top] ELSE e.locals
           entry(m) == Changed(Abstract!Rest[m], operandsOf(m, Abstract!Rest[m]),
                               localsOf(m, Abstract!Rest[m]))
           high(i) == IF i = csp THEN sp' ELSE BelowOf(i + 1)
<1>6. \A i \in 0 .. csp : Stack'[i + 1] = Part(wasm, stack', callstack', i, high(i))
  <2>1. \A i \in 0 .. csp' : Stack'[i + 1] =
          Part(wasm', stack', callstack', i,
               IF i = csp' THEN sp' ELSE Below(wasm', callstack', i + 1))
    BY <1>1, NewView
  <2>2. \A i : BelowOf(i) = Below(wasm', callstack', i)
    BY DEF BelowOf
  <2> QED
    BY <2>1, <2>2
<1>7. ASSUME NEW i \in 0 .. csp
      PROVE  Stack'[i + 1] = entry(i + 1)
  <2> DEFINE operands == Slice(stack, FloorOf(i), KeptTo(i))
             locals == Slice(stack, BelowOf(i), FloorOf(i))
  <2>1. /\ BelowOf(i) \in Int /\ FloorOf(i) \in Int /\ KeptTo(i) \in Int
        /\ FloorOf(i) <= KeptTo(i) /\ Under \in Int
        /\ Abstract!Rest[i + 1] = EntryWith(i, operands)
    BY Kept
  <2>2. Slice(stack', FloorOf(i), KeptTo(i)) = operands
    BY <1>5, KeptPart
  <2>3. Slice(stack', FloorOf(i), high(i)) = operandsOf(i + 1, EntryWith(i, operands))
    <3>1. EntryWith(i, operands).operands = operands
      BY DEF EntryWith
    <3>2. CASE i = csp
      <4>1. KeptTo(i) = Under /\ high(i) = sp'
        BY <3>2 DEF KeptTo
      <4>2. Slice(stack', FloorOf(i), sp') = operands \o Abstract!Results
        <5>1. Slice(stack', FloorOf(i), Under) \o Slice(stack', Under, sp')
                = Slice(stack', FloorOf(i), sp')
          BY <2>1, <4>1, SliceJoins
        <5> QED
          BY <2>2, <4>1, <5>1
      <4> QED
        BY <3>1, <3>2, <4>1, <4>2
    <3>3. CASE i # csp
      <4>1. KeptTo(i) = BelowOf(i + 1) /\ high(i) = BelowOf(i + 1) /\ i + 1 # csp + 1
        BY <1>1, <3>3 DEF KeptTo
      <4> QED
        BY <2>2, <3>1, <4>1
    <3> QED
      BY <3>2, <3>3
  <2>4. Part(wasm, stack', callstack', i, high(i))
          = Changed(EntryWith(i, operands), Slice(stack', FloorOf(i), high(i)),
                    localsOf(i + 1, EntryWith(i, operands)))
    <3> DEFINE new == Slice(stack', FloorOf(i), high(i))
               set == localsOf(i + 1, EntryWith(i, operands))
               part == Part(wasm, stack', callstack', i, high(i))
    <3>1. EntryWith(i, operands).locals = locals
      BY DEF EntryWith
    <3>2. \A l : Changed(EntryWith(i, operands), new, l)
                  = [block |-> BlockAt(i), locals |-> l, operands |-> new,
                     return_to |-> ReturnTo(i)]
      BY BothChanged
    <3>3. part = [block |-> BlockAt(i), locals |-> set, operands |-> new,
                  return_to |-> ReturnTo(i)]
      <4>1. CASE ~(SetsLocal /\ i = OwnFrame)
        <5>1. part = EntryWith(i, new)
          BY <1>5, <4>1, KeptPart
        <5>2. set = locals
          <6>1. i + 1 = OwnFrame + 1 => i = OwnFrame
            BY OwnPart
          <6> QED
            BY <3>1, <4>1, <6>1
        <5> HIDE DEF new, set, part
        <5> QED
          BY <5>1, <5>2 DEF EntryWith
      <4>2. CASE SetsLocal /\ i = OwnFrame
        <5>1. BelowOf(i) = fp - 1 /\ FloorOf(i) = OperandBase
          BY <4>2, OwnPart
        <5>2. Slice(stack', BelowOf(i), FloorOf(i)) = [locals EXCEPT ![Instr.imm + 1] = Top]
          BY <4>2, <5>1, LocalIsSet
        <5>3. set = [locals EXCEPT ![Instr.imm + 1] = Top]
          BY <3>1, <4>2
        <5>4. part = [block |-> BlockAt(i), locals |-> Slice(stack', BelowOf(i), FloorOf(i)),
                      operands |-> new, return_to |-> ReturnTo(i)]
          BY FrameStays
        <5> HIDE DEF new, set, part, locals
        <5> QED
          BY <5>2, <5>3, <5>4
      <4> QED
        BY <4>1, <4>2
    <3> HIDE DEF new, set, part
    <3>4. part = Changed(EntryWith(i, operands), new, set)
      BY <3>2, <3>3
    <3> QED
      BY <3>4, Zenon DEF part, new, set
  <2> HIDE DEF operandsOf, localsOf, high
  <2> QED
    BY <1>6, <2>1, <2>3, <2>4
<1>8. Stack' = [m \in 1 .. csp + 1 |-> entry(m)]
  <2>1. Stack' = [m \in 1 .. csp + 1 |-> Stack'[m]]
    BY <1>1, NewView
  <2>2. ASSUME NEW m \in 1 .. csp + 1
        PROVE  Stack'[m] = entry(m)
    <3>1. m - 1 \in 0 .. csp /\ (m - 1) + 1 = m
      BY <1>1
    <3> HIDE DEF entry
    <3>2. Stack'[(m - 1) + 1] = entry((m - 1) + 1)
      BY <1>7, <3>1
    <3> QED
      BY <3>1, <3>2
  <2> HIDE DEF entry
  <2> QED
    BY <2>1, <2>2
<1>9. Stack' = [i \in DOMAIN Stack |->
       [Abstract!Rest[i] EXCEPT
          !.operands = IF i = Abstract!Last THEN @ \o Abstract!Results ELSE @,
          !.locals = IF i = Abstract!OwnFunction /\ Abstract!Instr.op \in {"local.set", "local.tee"}
                       THEN [@ EXCEPT ![Abstract!Instr.imm + 1] = Abstract!Popped[1]] ELSE @]]
  <2>1. ASSUME SetsLocal
        PROVE  Abstract!Popped[1] = Top
    BY <1>4, <2>1
  <2>2. \A i : entry(i) =
       [Abstract!Rest[i] EXCEPT
          !.operands = IF i = Abstract!Last THEN @ \o Abstract!Results ELSE @,
          !.locals = IF i = Abstract!OwnFunction /\ Abstract!Instr.op \in {"local.set", "local.tee"}
                       THEN [@ EXCEPT ![Abstract!Instr.imm + 1] = Abstract!Popped[1]] ELSE @]
    BY <1>2, <2>1 DEF SetsLocal, Changed
  <2> HIDE DEF entry
  <2> QED
    BY <1>2, <1>8, <2>2
<1> HIDE DEF entry
<1>10. globals' = IF Abstract!Instr.op = "global.set"
                    THEN [globals EXCEPT ![Abstract!Instr.imm] = Abstract!Popped[1]] ELSE globals
  BY <1>2, <1>4
<1>11. ~TrapsOn(Abstract!Instr, Abstract!Popped) /\ Abstract!PlainOps = PlainOps
  BY <1>2, OperandView, SameOperators
<1>12. Abstract!Compute
  BY <1>2, <1>3, <1>9, <1>10, <1>11 DEF Abstract!Compute, Abstract!Fetch, Advance
<1>13. Stepped(wasm', callstack', csp')
  BY DEF Stepped, Live
<1> QED
  BY <1>12, <1>13 DEF Refined, Abstract!Next

LEMMA OneSlice ==
  ASSUME NEW s, NEW x \in Int
  PROVE  Slice(s, x, x + 1) = <<s[x + 1]>>
<1>1. (x + 1) - x = 1
  OBVIOUS
<1>2. Slice(s, x, x + 1) = [k \in 1 .. 1 |-> s[x + k]]
  BY <1>1 DEF Slice
<1>3. \A k \in 1 .. 1 : k = 1
  OBVIOUS
<1>4. [k \in 1 .. 1 |-> s[x + k]] = [k \in 1 .. 1 |-> s[x + 1]]
  BY <1>3
<1>5. \A v : [k \in 1 .. 1 |-> v] = <<v>>
  OBVIOUS
<1> QED
  BY <1>2, <1>4, <1>5

(* One value takes the place of what the instruction takes.                *)
LEMMA OneResult ==
  ASSUME Live, Running', Instr.op \in PlainOps \ {"br_if", "call", "call_indirect"},
         ~SetsLocal, Instr.op # "global.set", ~TrapsOn(Instr, Taken),
         wasm' = wasm, csp' = csp, callstack' = callstack, globals' = globals, Advance,
         sp' = Under + 1, Under + 1 < STACK_SIZE,
         NEW v, stack' = [stack EXCEPT ![Under + 1] = v], Abstract!Results = <<v>>
  PROVE  Refined
<1>1. Under \in Int /\ -1 <= Under
  BY TopPart, SizesAreNumbers DEF Under, Tops
<1>2. /\ DOMAIN stack = Slots /\ Under + 1 \in Slots
      /\ \A x \in 0 .. Under : x \in Slots /\ x # Under + 1
  BY <1>1, SizesAreNumbers DEF Live, Inv, Pointers, Slots
<1>3. stack'[Under + 1] = v /\ \A x \in 0 .. Under : stack'[x] = stack[x]
  BY <1>2
<1>4. Slice(stack', Under, Under + 1) = <<stack'[Under + 1]>>
  BY <1>1, OneSlice
<1>5. Slice(stack', Under, sp') = Abstract!Results
  BY <1>3, <1>4
<1>6. sp' \in Int /\ Under <= sp'
  BY <1>1
<1> QED
  BY <1>3, <1>5, <1>6, Computes

LEMMA PushRefines ==
  ASSUME Live, Instr.op \in {"const", "local.get", "global.get"}, NEW v, Push(v),
         Abstract!Results = <<v>>
  PROVE  Refined
<1>1. CASE Overrun(sp + 1)
  <2>1. Instr.op \in Abstract!CanFail
    BY DEF Abstract!CanFail
  <2> QED
    BY <1>1, <2>1, Fails DEF Overrun
<1>2. CASE ~Overrun(sp + 1)
  <2>1. Pops(wasm, Instr) = 0
    BY DEF Pops
  <2>2. Under = sp
    BY <2>1, TopPart DEF Under
  <2>3. /\ Instr.op \in PlainOps \ {"br_if", "call", "call_indirect"}
        /\ ~SetsLocal /\ Instr.op # "global.set" /\ ~TrapsOn(Instr, Taken)
    BY DEF PlainOps, SetsLocal, TrapsOn
  <2>4. /\ sp + 1 < STACK_SIZE /\ Advance /\ sp' = sp + 1 /\ stack' = [stack EXCEPT ![sp + 1] = v]
        /\ wasm' = wasm /\ csp' = csp /\ callstack' = callstack /\ globals' = globals
        /\ status' = status
    BY <1>2 DEF Push
  <2>5. Running'
    BY <2>4 DEF Running, Live
  <2> QED
    BY <2>2, <2>3, <2>4, <2>5, OneResult
<1> QED
  BY <1>1, <1>2

LEMMA ReplaceRefines ==
  ASSUME Live, Instr.op \in {"select", "eqz", "compare", "arith", "count", "convert"},
         ~TrapsOn(Instr, Taken), NEW v, Replace(Pops(wasm, Instr), v), Abstract!Results = <<v>>
  PROVE  Refined
<1>1. /\ Instr.op \in PlainOps \ {"br_if", "call", "call_indirect"}
      /\ ~SetsLocal /\ Instr.op # "global.set"
  BY DEF PlainOps, SetsLocal
<1>2. /\ Advance /\ sp' = Under + 1 /\ stack' = [stack EXCEPT ![Under + 1] = v]
      /\ wasm' = wasm /\ csp' = csp /\ callstack' = callstack /\ globals' = globals
      /\ status' = status
  BY DEF Replace, Under
<1>3. Running'
  BY <1>2 DEF Running, Live
<1>4. Under + 1 < STACK_SIZE
  <2>1. Pops(wasm, Instr) \in Nat /\ Pops(wasm, Instr) > 0
    <3>1. CASE Instr.op = "select"
      BY <3>1 DEF Pops
    <3>2. CASE Instr.op \in {"compare", "arith"}
      BY <3>2 DEF Pops
    <3>3. CASE Instr.op = "eqz"
      BY <3>3 DEF Pops
    <3>4. CASE Instr.op = "count"
      BY <3>4 DEF Pops
    <3>5. CASE Instr.op = "convert"
      BY <3>5 DEF Pops
    <3> QED
      BY <3>1, <3>2, <3>3, <3>4, <3>5
  <2>2. sp \in Tops /\ STACK_SIZE \in Nat
    BY TopPart, SizesAreNumbers
  <2> QED
    BY <2>1, <2>2 DEF Tops, Under
<1> QED
  BY <1>1, <1>2, <1>3, <1>4, OneResult

(* What the slots under the top hold.                                      *)
LEMMA TwoTaken ==
  ASSUME Live, Pops(wasm, Instr) = 2
  PROVE  Taken[1] = stack[sp - 1] /\ Taken[2] = Top
<1>1. sp - 2 + 1 = sp - 1 /\ 1 \in 1 .. 2
  BY TopPart
<1> QED
  BY <1>1, TakenOperands

LEMMA ConstRefines ==
  ASSUME Live, Const
  PROVE  Refined
<1>1. Instr.op = "const" /\ Push(Imm)
  BY DEF Const, Fetch
<1>2. Abstract!Results = <<Imm>>
  BY <1>1, View, Zenon DEF Abstract!Results, Imm
<1> QED
  BY <1>1, <1>2, PushRefines

LEMMA GlobalGetRefines ==
  ASSUME Live, GlobalGet
  PROVE  Refined
<1>1. Instr.op = "global.get" /\ Push(globals[Imm])
  BY DEF GlobalGet, Fetch
<1>2. Abstract!Results = <<globals[Imm]>>
  BY <1>1, View, Zenon DEF Abstract!Results, Imm
<1> QED
  BY <1>1, <1>2, PushRefines

LEMMA LocalGetRefines ==
  ASSUME Live, LocalGet
  PROVE  Refined
<1>1. Instr.op = "local.get" /\ Push(stack[fp + Imm])
  BY DEF LocalGet, Fetch, LocalAddr
<1>2. Imm \in 0 .. SlotCount(wasm, Own) - 1
  <2>1. TypedInstr(wasm, pc) /\ Instr = wasm.code[pc] /\ wasm.owner[pc] = BlockAt(csp)
    BY TypedPc DEF Live
  <2> QED
    BY <1>1, <2>1 DEF TypedInstr, Own, Imm
<1>3. Stack[OwnFrame + 1].locals[Imm + 1] = stack[fp + Imm]
  <2>1. /\ OwnFrame \in 0 .. csp /\ fp \in Nat /\ SlotCount(wasm, Own) \in Nat
        /\ BelowOf(OwnFrame) = fp - 1 /\ FloorOf(OwnFrame) = OperandBase
        /\ OperandBase = fp - 1 + SlotCount(wasm, Own)
    BY OwnPart
  <2>2. Stack[OwnFrame + 1] = EntryWith(OwnFrame, Slice(stack, FloorOf(OwnFrame), Above(OwnFrame)))
    BY <2>1, View, EntryOfFrame
  <2>3. Stack[OwnFrame + 1].locals = Slice(stack, fp - 1, OperandBase)
    BY <2>1, <2>2 DEF EntryWith
  <2>4. /\ Imm + 1 \in 1 .. OperandBase - (fp - 1) /\ fp - 1 + (Imm + 1) = fp + Imm
    BY <1>2, <2>1
  <2>5. Slice(stack, fp - 1, OperandBase)[Imm + 1] = stack[fp - 1 + (Imm + 1)]
    BY <2>4 DEF Slice
  <2> QED
    BY <2>3, <2>4, <2>5
<1>4. Abstract!Results = <<stack[fp + Imm]>>
  <2>1. Abstract!Results = <<Stack[Abstract!OwnFunction].locals[Instr.imm + 1]>>
    BY <1>1, View, Zenon DEF Abstract!Results
  <2>2. Abstract!OwnFunction = OwnFrame + 1
    BY View
  <2> QED
    BY <1>3, <2>1, <2>2, Zenon DEF Imm
<1> QED
  BY <1>1, <1>4, PushRefines

LEMMA SelectRefines ==
  ASSUME Live, Select, NoMismatch'
  PROVE  Refined
<1> DEFINE v == IF Cond THEN stack[sp - 2] ELSE stack[sp - 1]
<1>1. Instr.op = "select" /\ Pops(wasm, Instr) = 3 /\ Replace(3, v)
  BY DEF Select, Fetch, NoMismatch, Pops
<1>2. /\ sp - 3 + 1 = sp - 2 /\ sp - 3 + 2 = sp - 1
      /\ 1 \in 1 .. 3 /\ 2 \in 1 .. 3 /\ 3 \in 1 .. 3
  BY TopPart
<1>3. Taken[1] = stack[sp - 2] /\ Taken[2] = stack[sp - 1] /\ Taken[3] = Top
  <2>1. \A k \in 1 .. 3 : Taken[k] = stack[sp - 3 + k]
    BY <1>1, TakenOperands
  <2>2. Taken[1] = stack[sp - 3 + 1] /\ Taken[2] = stack[sp - 3 + 2]
    BY <1>2, <2>1
  <2>3. Taken[3] = Top
    BY <1>1, TakenOperands
  <2> QED
    BY <1>2, <2>2, <2>3
<1>4. Abstract!Popped = Taken /\ Abstract!Instr = Instr
  BY View, OperandView
<1>5. v = IF I32Of(Abstract!Popped[3]) # 0 THEN Abstract!Popped[1] ELSE Abstract!Popped[2]
  BY <1>3, <1>4 DEF Cond, TopI32, I32Of
<1> HIDE DEF v
<1>6. Abstract!Results = <<v>>
  BY <1>1, <1>4, <1>5, Zenon DEF Abstract!Results
<1>7. ~TrapsOn(Instr, Taken)
  BY <1>1 DEF TrapsOn
<1> QED
  BY <1>1, <1>6, <1>7, ReplaceRefines

LEMMA EqzRefines ==
  ASSUME Live, Eqz
  PROVE  Refined
<1> DEFINE v == Bool(Operand(Imm, Top) = 0)
<1>1. Instr.op = "eqz" /\ Pops(wasm, Instr) = 1 /\ Replace(1, v)
  BY DEF Eqz, Fetch, Pops
<1>2. Abstract!Popped[1] = Top /\ Abstract!Instr = Instr
  BY <1>1, OneTaken, View
<1>3. ValueOf(Instr, Abstract!Popped) = v
  BY <1>1, <1>2, Zenon DEF ValueOf, Imm
<1> HIDE DEF v
<1>4. Abstract!Results = <<v>>
  BY <1>1, <1>2, <1>3, Zenon DEF Abstract!Results
<1>5. ~TrapsOn(Instr, Taken)
  BY <1>1 DEF TrapsOn
<1> QED
  BY <1>1, <1>4, <1>5, ReplaceRefines

LEMMA CompareRefines ==
  ASSUME Live, Compare
  PROVE  Refined
<1> DEFINE v == Bool(Related(Imm.op, Operand(Imm.type, stack[sp - 1]), Operand(Imm.type, Top)))
<1>1. Instr.op = "compare" /\ Pops(wasm, Instr) = 2 /\ Replace(2, v)
  BY DEF Compare, Fetch, Pops
<1>2. /\ Abstract!Popped[1] = stack[sp - 1] /\ Abstract!Popped[2] = Top
      /\ Abstract!Instr = Instr
  BY <1>1, TwoTaken, View, OperandView
<1>3. ValueOf(Instr, Abstract!Popped) = v
  BY <1>1, <1>2, Zenon DEF ValueOf, FirstOf, SecondOf, Imm
<1> HIDE DEF v
<1>4. Abstract!Results = <<v>>
  BY <1>1, <1>2, <1>3, Zenon DEF Abstract!Results
<1>5. ~TrapsOn(Instr, Taken)
  BY <1>1 DEF TrapsOn
<1> QED
  BY <1>1, <1>4, <1>5, ReplaceRefines

(* The slot of the first operand gives its type to the result: the type    *)
(* that the instruction is for.                                            *)
LEMMA OperandType ==
  ASSUME Live, Instr.op \in {"arith", "count", "convert"}
  PROVE  /\ Instr.op = "arith" => stack[sp - 1].value_type = Instr.imm.type
         /\ Instr.op = "count" => Top.value_type = Instr.imm.type
         /\ Instr.op = "convert" => Top.value_type = ConvertedFrom(Instr)
<1>1. /\ Height \in Nat /\ Height - Pops(wasm, Instr) \in Nat
      /\ Accepts(wasm, Own, Instr, Types, Height) /\ sp \in Int
  <2>1. /\ Height \in Nat /\ TypedInstr(wasm, pc) /\ OperandTypes(wasm, pc)
        /\ wasm.owner[pc] = BlockAt(csp) /\ Instr = wasm.code[pc]
    BY TypedPc DEF Live
  <2> QED
    BY <2>1, TopPart DEF TypedInstr, OperandTypes, Own, Height, Types
<1>2. CASE Instr.op = "arith"
  <2>1. Pops(wasm, Instr) = 2 /\ Types[Height - 1] = Instr.imm.type
    BY <1>1, <1>2 DEF Pops, Accepts
  <2>2. 1 \in Nat /\ 1 < Height
    BY <1>1, <2>1
  <2>3. stack[sp - 1].value_type = Types[Height - 1]
    BY <2>2, OperandBelowTop DEF Live
  <2> QED
    BY <1>2, <2>1, <2>3
<1>3. CASE Instr.op \in {"count", "convert"}
  <2>1. Pops(wasm, Instr) = 1
    BY <1>3 DEF Pops
  <2>2. /\ Instr.op = "count" => Types[Height] = Instr.imm.type
        /\ Instr.op = "convert" => Types[Height] = ConvertedFrom(Instr)
    BY <1>1, <1>3 DEF Accepts
  <2>3. Height > 0
    BY <1>1, <2>1
  <2>4. Top.value_type = Types[Height]
    BY <2>3, OwnOperands DEF Live
  <2> QED
    BY <1>3, <2>2, <2>4
<1> QED
  BY <1>2, <1>3

LEMMA ArithRefines ==
  ASSUME Live, Arith
  PROVE  Refined
<1>1. Instr.op = "arith" /\ Pops(wasm, Instr) = 2 /\ wasm' = wasm /\ globals' = globals
  BY DEF Arith, Fetch, Pops, Replace
<1>2. /\ Taken[1] = stack[sp - 1] /\ Taken[2] = Top
      /\ Abstract!Popped = Taken /\ Abstract!Instr = Instr
  BY <1>1, TwoTaken, View, OperandView
<1>3. FirstOf(Instr, Taken) = First /\ SecondOf(Instr, Taken) = Second
  BY <1>2 DEF FirstOf, SecondOf, First, Second, Imm
<1>4. CASE status' \in {"false", "killed"}
  <2>1. StopsOn(Instr, Taken)
    BY <1>1, <1>3, <1>4 DEF Arith, Replace, Live, Running, StopsOn, TrapsOn, FaultsOn, Imm
  <2> QED
    BY <1>1, <1>4, <2>1, Fails
<1>5. CASE status' \notin {"false", "killed"}
  <2> DEFINE v == Val(stack[sp - 1].value_type, Computed(Imm.op, Imm.type, First, Second))
  <2>1. IntegerTrap(Imm.op, Imm.type, First, Second) = "none" /\ Replace(2, v)
    BY <1>5 DEF Arith, Trap
  <2>2. ~TrapsOn(Instr, Taken)
    BY <1>3, <2>1 DEF TrapsOn, Imm
  <2>3. stack[sp - 1].value_type = Instr.imm.type
    BY <1>1, OperandType
  <2>4. ValueOf(Instr, Taken) = v
    <3>1. ValueOf(Instr, Taken)
            = Val(Instr.imm.type, Computed(Instr.imm.op, Instr.imm.type,
                                           FirstOf(Instr, Taken), SecondOf(Instr, Taken)))
      BY <1>1, Zenon DEF ValueOf
    <3> QED
      BY <1>3, <2>3, <3>1, Zenon DEF Imm
  <2> HIDE DEF v
  <2>5. Abstract!Results = <<v>>
    BY <1>1, <1>2, <2>4, Zenon DEF Abstract!Results
  <2> QED
    BY <1>1, <2>1, <2>2, <2>5, ReplaceRefines
<1> QED
  BY <1>4, <1>5

LEMMA CountRefines ==
  ASSUME Live, Count
  PROVE  Refined
<1> DEFINE v == Val(Top.value_type, Counted(Imm.op, Imm.type, Second))
<1>1. Instr.op = "count" /\ Pops(wasm, Instr) = 1 /\ Replace(1, v)
  BY DEF Count, Fetch, Pops
<1>2. Abstract!Popped[1] = Top /\ Abstract!Instr = Instr
  BY <1>1, OneTaken, View
<1>3. Top.value_type = Instr.imm.type
  BY <1>1, OperandType
<1>4. ValueOf(Instr, Abstract!Popped) = v
  <2>1. ValueOf(Instr, Abstract!Popped)
          = Val(Instr.imm.type, Counted(Instr.imm.op, Instr.imm.type,
                                        FirstOf(Instr, Abstract!Popped)))
    BY <1>1, Zenon DEF ValueOf
  <2>2. FirstOf(Instr, Abstract!Popped) = Second
    BY <1>2 DEF FirstOf, Second, Imm
  <2> QED
    BY <1>3, <2>1, <2>2, Zenon DEF Imm
<1> HIDE DEF v
<1>5. Abstract!Results = <<v>>
  BY <1>1, <1>2, <1>4, Zenon DEF Abstract!Results
<1>6. ~TrapsOn(Instr, Taken)
  BY <1>1 DEF TrapsOn
<1> QED
  BY <1>1, <1>5, <1>6, ReplaceRefines

LEMMA ConvertRefines ==
  ASSUME Live, Convert
  PROVE  Refined
<1>1. Instr.op = "convert" /\ Pops(wasm, Instr) = 1 /\ Replace(1, Converted)
  BY DEF Convert, Fetch, Pops
<1>2. Abstract!Popped[1] = Top /\ Abstract!Instr = Instr
  BY <1>1, OneTaken, View
<1>3. Top.value_type = ConvertedFrom(Instr)
  BY <1>1, OperandType
<1>4. ValueOf(Instr, Abstract!Popped) = Converted
  <2>1. ValueOf(Instr, Abstract!Popped)
          = Val(ConvertedTo(Instr),
                CASE Instr.imm.op \in {"wrap", "extend_u"} -> I32Of(Abstract!Popped[1])
                  [] Instr.imm.op = "extend_s" ->
                       SignExtended(BITS["i32"], BITS["i64"], Abstract!Popped[1].value)
                  [] OTHER -> SignExtended(Instr.imm.bits, BITS[Instr.imm.type],
                                           Abstract!Popped[1].value))
    BY <1>1, Zenon DEF ValueOf
  <2>2. CASE Instr.imm.op = "wrap"
    BY <1>2, <2>1, <2>2 DEF Converted, Wrapped, ConvertedTo, I32Of, Imm
  <2>3. CASE Instr.imm.op = "extend_u"
    BY <1>2, <2>1, <2>3 DEF Converted, ConvertedTo, I32Of, Imm
  <2>4. CASE Instr.imm.op = "extend_s"
    BY <1>2, <2>1, <2>4 DEF Converted, ConvertedTo, Imm
  <2>5. CASE Instr.imm.op \notin {"wrap", "extend_u", "extend_s"}
    <3>1. Top.value_type = Instr.imm.type /\ ConvertedTo(Instr) = Instr.imm.type
      BY <1>3, <2>5 DEF ConvertedFrom, ConvertedTo
    <3> QED
      BY <1>2, <2>1, <2>5, <3>1 DEF Converted, Imm
  <2> QED
    BY <2>2, <2>3, <2>4, <2>5
<1>5. Abstract!Results = <<Converted>>
  BY <1>1, <1>2, <1>4, Zenon DEF Abstract!Results
<1>6. ~TrapsOn(Instr, Taken)
  BY <1>1 DEF TrapsOn
<1> QED
  BY <1>1, <1>5, <1>6, ReplaceRefines

(* What leaves the operand stack as it was but for what it takes, or sets  *)
(* one local.                                                              *)
LEMMA NoResult ==
  ASSUME Live, Running', Instr.op \in {"nop", "drop", "local.set", "global.set"},
         wasm' = wasm, csp' = csp, callstack' = callstack, Advance, sp' = Under,
         \A x \in 0 .. Under :
           stack'[x] = IF SetsLocal /\ x = fp + Instr.imm THEN Top ELSE stack[x],
         globals' = IF Instr.op = "global.set" THEN [globals EXCEPT ![Instr.imm] = Top] ELSE globals
  PROVE  Refined
<1>1. /\ Instr.op \in PlainOps \ {"br_if", "call", "call_indirect"}
      /\ ~TrapsOn(Instr, Taken)
  BY DEF PlainOps, TrapsOn
<1>2. Under \in Int
  BY TopPart DEF Under
<1>3. Slice(stack', Under, sp') = <<>>
  BY <1>2, EmptySlice
<1>4. Abstract!Results = <<>>
  BY View, Zenon DEF Abstract!Results
<1> QED
  BY <1>1, <1>2, <1>3, <1>4, Computes

LEMMA TakeRefines ==
  ASSUME Live, Nop \/ Drop \/ GlobalSet
  PROVE  Refined
<1>1. /\ Instr.op \in {"nop", "drop", "local.set", "global.set"}
      /\ ~SetsLocal /\ Advance /\ sp' = Under
      /\ wasm' = wasm /\ csp' = csp /\ callstack' = callstack /\ stack' = stack
      /\ status' = status
  <2>1. CASE Nop
    <3>1. Instr.op = "nop" /\ Pops(wasm, Instr) = 0
      BY <2>1 DEF Nop, Fetch, Pops
    <3>2. sp - 0 = sp
      BY TopPart
    <3> QED
      BY <2>1, <3>1, <3>2 DEF Nop, Under, SetsLocal
  <2>2. CASE Drop
    BY <2>2 DEF Drop, Fetch, Pops, Under, SetsLocal
  <2>3. CASE GlobalSet
    BY <2>3 DEF GlobalSet, Fetch, Pops, Under, SetsLocal
  <2> QED
    BY <2>1, <2>2, <2>3
<1>2. globals' = IF Instr.op = "global.set" THEN [globals EXCEPT ![Instr.imm] = Top] ELSE globals
  BY DEF Nop, Drop, GlobalSet, Fetch, Imm
<1>3. Running'
  BY <1>1 DEF Running, Live
<1> QED
  BY <1>1, <1>2, <1>3, NoResult

(* The slot that local.set and local.tee write.                            *)
LEMMA SetSlot ==
  ASSUME Live, SetsLocal, stack' = [stack EXCEPT ![LocalAddr(Imm)] = Top]
  PROVE  /\ \A x \in 0 .. Under :
              stack'[x] = IF SetsLocal /\ x = fp + Instr.imm THEN Top ELSE stack[x]
         /\ stack'[sp] = Top /\ Under = sp - 1
<1>1. Pops(wasm, Instr) = 1
  BY DEF SetsLocal, Pops
<1>2. Under = sp - 1 /\ Under \in Int /\ sp \in Tops /\ sp \in Int
  BY <1>1, TopPart DEF Under
<1>3. fp + Imm \in fp .. OperandBase
  <2>1. TypedInstr(wasm, pc) /\ Instr = wasm.code[pc] /\ wasm.owner[pc] = BlockAt(csp)
    BY TypedPc DEF Live
  <2>2. Imm \in 0 .. SlotCount(wasm, Own) - 1
    BY <2>1 DEF TypedInstr, SetsLocal, Own, Imm
  <2> QED
    BY <2>2, OwnPart
<1>4. fp + Imm \in 0 .. Under
  <2>1. OwnFrame \in 0 .. csp
    BY OwnPart
  <2> QED
    BY <1>3, <2>1, OwnSlot
<1>5. /\ DOMAIN stack = Slots /\ fp + Imm \in Slots /\ fp + Imm # sp
      /\ \A x \in 0 .. Under : x \in Slots
  BY <1>2, <1>4, SizesAreNumbers DEF Live, Inv, Pointers, Slots, Tops
<1>6. stack' = [stack EXCEPT ![fp + Imm] = Top] /\ fp + Instr.imm = fp + Imm
  BY DEF LocalAddr, Imm
<1>7. stack'[sp] = Top
  BY <1>2, <1>5, <1>6 DEF Top
<1>8. ASSUME NEW x \in 0 .. Under
      PROVE  stack'[x] = IF SetsLocal /\ x = fp + Instr.imm THEN Top ELSE stack[x]
  BY <1>5, <1>6
<1> QED
  BY <1>2, <1>7, <1>8

LEMMA LocalSetRefines ==
  ASSUME Live, LocalSet
  PROVE  Refined
<1>1. /\ Instr.op = "local.set" /\ SetsLocal /\ Advance /\ sp' = sp - 1
      /\ stack' = [stack EXCEPT ![LocalAddr(Imm)] = Top]
      /\ wasm' = wasm /\ csp' = csp /\ callstack' = callstack /\ globals' = globals
      /\ status' = status
  BY DEF LocalSet, Fetch, SetsLocal
<1>2. Running'
  BY <1>1 DEF Running, Live
<1> QED
  BY <1>1, <1>2, SetSlot, NoResult

LEMMA LocalTeeRefines ==
  ASSUME Live, LocalTee
  PROVE  Refined
<1>1. /\ Instr.op = "local.tee" /\ SetsLocal /\ Advance /\ sp' = sp
      /\ stack' = [stack EXCEPT ![LocalAddr(Imm)] = Top]
      /\ wasm' = wasm /\ csp' = csp /\ callstack' = callstack /\ globals' = globals
      /\ status' = status
  BY DEF LocalTee, Fetch, SetsLocal
<1>2. Running'
  BY <1>1 DEF Running, Live
<1>3. /\ Instr.op \in PlainOps \ {"br_if", "call", "call_indirect"}
      /\ ~TrapsOn(Instr, Taken) /\ Pops(wasm, Instr) = 1
  BY <1>1 DEF PlainOps, TrapsOn, Pops
<1>4. stack'[sp] = Top /\ Under = sp - 1
  BY <1>1, SetSlot
<1>5. sp \in Int /\ Under \in Int /\ Under + 1 = sp /\ Under <= sp
  BY <1>4, TopPart
<1>6. Slice(stack', Under, sp') = <<Top>>
  BY <1>1, <1>4, <1>5, OneSlice
<1>7. Abstract!Results = <<Abstract!Popped[1]>>
  BY <1>1, View, Zenon DEF Abstract!Results
<1>8. Slice(stack', Under, sp') = Abstract!Results
  BY <1>3, <1>6, <1>7, OneTaken
<1> QED
  BY <1>1, <1>2, <1>3, <1>5, <1>8, SetSlot, Computes

-----------------------------------------------------------------------------
(***************************************************************************)
(* The theorem.                                                            *)
(***************************************************************************)
LEMMA StepRefines ==
  ASSUME Live, Step, NoMismatch'
  PROVE  Refined
<1>1. ASSUME \/ Nop \/ Drop \/ Select \/ LocalGet \/ LocalSet \/ LocalTee \/ GlobalGet
             \/ GlobalSet \/ Const \/ Eqz \/ Compare \/ Arith \/ Count \/ Convert
      PROVE  Refined
  BY <1>1, TakeRefines, SelectRefines, LocalGetRefines, LocalSetRefines, LocalTeeRefines,
     GlobalGetRefines, ConstRefines, EqzRefines, CompareRefines, ArithRefines, CountRefines,
     ConvertRefines
<1>2. ASSUME \/ Unreachable \/ Unsupported \/ BlockOrLoop \/ If \/ Else \/ End
             \/ Br \/ BrIf \/ BrTable \/ Return \/ Call \/ CallIndirect
      PROVE  Refined
  BY <1>2, StopRefines, BlockRefines, IfRefines, ElseRefines, EndRefines, JumpRefines,
     BrIfRefines, ReturnRefines, CallRefines, CallIndirectRefines
<1> QED
  BY <1>1, <1>2 DEF Step

(* main() pushes the arguments where the function's part of the stack is   *)
(* to begin: at the bottom.                                                *)
LEMMA InvokeRefines ==
  ASSUME Inv, Exact(wasm), InvokeExport
  PROVE  Refined
<1>1. PICK fidx \in wasm.exports :
        \E args \in Arguments(Block(wasm.functions[fidx]).type) : Invoke(fidx, args)
  BY DEF InvokeExport
<1>2. PICK args \in Arguments(Block(wasm.functions[fidx]).type) : Invoke(fidx, args)
  BY <1>1
<1> DEFINE b == wasm.functions[fidx]
           params == ParamCount(wasm, b)
           top == Len(Block(b).type.params) - 1
           s == PushArgs(Block(b).type, args)
           given == [k \in 1 .. params |->
                       [value_type |-> Block(b).type.params[k], value |-> args[k]]]
<1>3. wasm \in Modules /\ WellNested(wasm)
  BY NestingAssumption DEF Inv, ControlInv, ControlTypes
<1>4. /\ fidx \in DOMAIN wasm.functions
      /\ b \in DOMAIN wasm.block /\ IsFunction(wasm, b)
  BY <1>1, <1>3 DEF WellNested
<1>5. params \in Nat /\ LocalCount(wasm, b) \in Nat /\ top = params - 1 /\ top - params = -1
      /\ top \in Int
  <2>1. params \in Nat /\ LocalCount(wasm, b) \in Nat /\ top = params - 1
    BY <1>3, <1>4, CountFacts DEF ParamCount, Block
  <2> HIDE DEF params, top
  <2> QED
    BY <2>1
<1>6. /\ status \in {"ready", "true", "false"} /\ wasm' = wasm /\ globals' = globals
      /\ ~Running
  BY <1>2 DEF Invoke, Overrun, Running
<1>7. Phase = "idle"
  BY <1>6, Zenon DEF Phase
<1>8. CASE Overrun(CalleeTop(fidx, top))
  <2>1. status' = "overrun"
    BY <1>8 DEF Overrun
  <2>2. /\ ~Running' /\ NextAddress' = 0 /\ Stack' = <<>> /\ Answer' = <<>>
    BY <2>1 DEF Running, NextAddress, Stack, Answer
  <2>3. Phase' = "gone"
    BY <2>1, <2>2, Zenon DEF Phase
  <2>4. Abstract!Invoke
    BY <1>6, <1>7, <2>2, <2>3 DEF Abstract!Invoke
  <2> QED
    BY <2>2, <2>4 DEF Refined, Abstract!Next
<1>9. CASE ~Overrun(CalleeTop(fidx, top))
  <2>1. /\ CalleeTop(fidx, top) < STACK_SIZE /\ status' = "running"
        /\ SetupCall(fidx, s, top, -1, -1, pc)
    BY <1>2, <1>9 DEF Invoke
  <2>2. Running'
    BY <2>1 DEF Running
  <2>3. /\ -1 \in -1 .. CALLSTACK_SIZE - 1 /\ -1 + 1 = 0 /\ ~(0 > 0)
    BY SizesAssumption
  <2>4. /\ csp' = 0 /\ pc' = Abstract!Start(fidx)
        /\ Part(wasm, stack', callstack', 0, sp')
             = Abstract!FunctionEntry(fidx, Slice(s, top - params, top), 0)
    <3> DEFINE c == -1
               base == top - ParamCount(wasm, wasm.functions[fidx])
    <3>1. base >= -1 /\ base = top - params /\ IsFunction(wasm, wasm.functions[fidx])
      BY <1>4, <1>5
    <3>2. /\ c \in -1 .. CALLSTACK_SIZE - 1 /\ c + 1 = 0
          /\ SetupCall(fidx, s, top, c, c, pc)
      BY <2>1, <2>3
    <3> HIDE DEF c, s, top, b, params
    <3>3. /\ fidx \in DOMAIN wasm.functions /\ top \in Int /\ CalleeTop(fidx, top) < STACK_SIZE
          /\ top - ParamCount(wasm, wasm.functions[fidx]) >= -1
      BY <1>4, <1>5, <2>1, <3>1
    <3>4. /\ csp' = c + 1 /\ pc' = Abstract!Start(fidx)
          /\ Part(wasm, stack', callstack', c + 1, sp')
               = Abstract!FunctionEntry(fidx,
                   Slice(s, top - ParamCount(wasm, wasm.functions[fidx]), top),
                   IF c + 1 > 0 THEN pc ELSE 0)
      BY <3>1, <3>2, <3>3, NewActivation, Zenon
    <3> QED
      BY <2>3, <3>1, <3>2, <3>4
  <2>5. Slice(s, top - params, top) = given
    <3>1. \A k \in 1 .. params : /\ -1 + k \in Slots /\ (-1 + k) + 1 = k
      <4> HIDE DEF params
      <4>1. \A k \in 1 .. params : -1 + k < STACK_SIZE
        BY <1>5, <2>1, SizesAreNumbers DEF CalleeTop
      <4> QED
        BY <1>5, <4>1, SizesAreNumbers DEF Slots
    <3>2. DOMAIN args = 1 .. params
      BY DEF Arguments, ParamCount, Block
    <3>3. \A k \in 1 .. params :
            s[-1 + k] = [value_type |-> Block(b).type.params[k], value |-> args[k]]
      BY <3>1, <3>2 DEF PushArgs, Val
    <3>4. Slice(s, -1, top) = [k \in 1 .. params |-> s[-1 + k]]
      <4>1. top - (-1) = params
        <5> HIDE DEF params, top
        <5> QED
          BY <1>5
      <4> QED
        BY <4>1 DEF Slice
    <3> HIDE DEF s, params
    <3>5. [k \in 1 .. params |-> s[-1 + k]] = given
      BY <3>3
    <3> QED
      BY <1>5, <3>4, <3>5
  <2>6. /\ NextAddress' = pc' /\ Phase' = "running" /\ Answer' = <<>>
        /\ DOMAIN Stack' = 1 .. 1
        /\ Stack'[0 + 1] = Part(wasm, stack', callstack', 0, sp')
        /\ Stack' = [m \in 1 .. 1 |-> Stack'[m]]
    <3>1. 0 \in 0 .. csp' /\ csp' \in Nat /\ csp' + 1 = 1
      BY <2>4
    <3> QED
      BY <1>6, <2>2, <2>4, <3>1, NewView
  <2>7. Stack' = <<Abstract!FunctionEntry(fidx, given, 0)>>
    <3>1. Stack'[1] = Abstract!FunctionEntry(fidx, given, 0)
      BY <2>4, <2>5, <2>6
    <3>2. \A q : DOMAIN q = 1 .. 1 /\ q = [m \in 1 .. 1 |-> q[m]] => q = <<q[1]>>
      OBVIOUS
    <3> QED
      BY <2>6, <3>1, <3>2
  <2>8. Abstract!Invoke
    <3>1. params = Len(wasm.block[wasm.functions[fidx]].type.params)
      BY DEF ParamCount
    <3>2. args \in [1 .. params -> ArgValues]
      BY <3>1 DEF Arguments, Block
    <3>3. given = [k \in 1 .. params |->
                     [value_type |-> wasm.block[wasm.functions[fidx]].type.params[k],
                      value |-> args[k]]]
      BY DEF Block
    <3> HIDE DEF params, given
    <3> QED
      BY <1>1, <1>6, <1>7, <2>4, <2>6, <2>7, <3>1, <3>2, <3>3 DEF Abstract!Invoke
  <2>9. Stepped(wasm', callstack', csp')
    <3>1. \A i, j \in 0 .. 0 : ~(i < j)
      OBVIOUS
    <3> QED
      BY <2>4, <3>1 DEF Stepped
  <2> QED
    BY <2>8, <2>9 DEF Refined, Abstract!Next
<1> QED
  BY <1>8, <1>9

LEMMA SameStack ==
  ASSUME UNCHANGED vars
  PROVE  UNCHANGED Abstract!vars
BY DEF vars, Abstract!vars, NextAddress, Stack, Phase, Answer, Running, Entries, Part, Above,
       Below, Floor, Slice, IsFunction

LEMMA ExactStays ==
  ASSUME [Next]_vars
  PROVE  Exact(wasm)' <=> Exact(wasm)
BY OnlyGlobalSetWrites DEF Exact, Tidy, ImportFree

(* A step of the virtual machine is one of the abstract stack, or none.    *)
LEMMA NextRefines ==
  ASSUME Inv, TypesInv, StepsInv, TypesInv', Exact(wasm), [Next]_vars
  PROVE  [Abstract!Next]_(Abstract!vars) /\ StepsInv'
<1>1. NoMismatch'
  BY ExactStays DEF TypesInv
<1>2. CASE UNCHANGED vars
  <2>1. StepsInv'
    BY <1>2 DEF StepsInv, Stepped, Below, Floor, IsFunction, Running, vars
  <2> QED
    BY <1>2, <2>1, SameStack
<1>3. CASE Step \/ InvokeExport
  <2>1. Refined
    <3>1. ASSUME Step
          PROVE  Refined
      <4>1. Running
        BY <3>1, StepsRun
      <4>2. Live
        BY <4>1 DEF Live, TypesInv, StepsInv
      <4> QED
        BY <1>1, <3>1, <4>2, StepRefines
    <3> QED
      BY <1>3, <3>1, InvokeRefines
  <2>2. StepsInv'
    BY <2>1 DEF Refined, StepsInv
  <2> QED
    BY <2>1, <2>2 DEF Refined
<1> QED
  BY <1>2, <1>3 DEF Next, Gone

LEMMA InitRefines ==
  ASSUME Init
  PROVE  Abstract!Init /\ StepsInv
<1>1. ~Running /\ status = "ready" /\ wasm \in Modules /\ globals = wasm.globals
  BY DEF Init, Running
<1>2. NextAddress = 0 /\ Stack = <<>> /\ Answer = <<>>
  BY <1>1 DEF NextAddress, Stack, Answer
<1>3. Phase = "idle"
  BY <1>1, Zenon DEF Phase
<1> QED
  BY <1>1, <1>2, <1>3 DEF Abstract!Init, StepsInv

(* In a valid module in which branches leave nothing behind and nothing is *)
(* imported, the parts of the frames lie one above the other on the        *)
(* operand stack: parameters and locals, then operands, then the next      *)
(* frame's.                                                                *)
THEOREM PartsOfFramesAreApart == Spec => []StepsInv
<1>1. Init => StepsInv
  BY InitRefines
<1>2. Inv /\ TypesInv /\ StepsInv /\ TypesInv' /\ [Next]_vars => StepsInv'
  <2> SUFFICES ASSUME Inv, TypesInv, StepsInv, TypesInv', [Next]_vars, Exact(wasm)'
               PROVE  StepsInv'
    BY DEF StepsInv
  <2> QED
    BY ExactStays, NextRefines
<1> QED
  BY <1>1, <1>2, StackInvariant, TypesInvariant, PTL DEF Spec

(* The virtual machine implements the stack of entries: branches, calls    *)
(* and returns find in one shared array, by sp, fp and the frames, what    *)
(* WebAssembly says they find.                                             *)
THEOREM TheArraysAreAStack == Spec => ImplementsStack
<1>1. Init => (Exact(wasm) => Abstract!Init)
  BY InitRefines
<1>2. Inv /\ TypesInv /\ StepsInv /\ TypesInv' /\ [Next]_vars =>
        [Exact(wasm) => [Abstract!Next]_(Abstract!vars)]_vars
  BY NextRefines
<1> QED
  BY <1>1, <1>2, StackInvariant, TypesInvariant, PartsOfFramesAreApart, PTL
     DEF Spec, ImplementsStack

(* The same as one of specifications: the module never changes.            *)
THEOREM SpecImplementsStack == Spec /\ Exact(wasm) => Abstract!Spec
<1>1. Init => Abstract!Init
  BY InitRefines
<1>2. Exact(wasm) /\ [Next]_vars => Exact(wasm)'
  BY ExactStays
<1>3. Inv /\ TypesInv /\ StepsInv /\ TypesInv' /\ Exact(wasm) /\ [Next]_vars =>
        [Abstract!Next]_(Abstract!vars)
  BY NextRefines
<1> QED
  BY <1>1, <1>2, <1>3, StackInvariant, TypesInvariant, PartsOfFramesAreApart, PTL
     DEF Spec, Abstract!Spec

=============================================================================
