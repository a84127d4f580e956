-------------------------- MODULE FindBlocksProofs ---------------------------
(***************************************************************************)
(* For code of every length, any number of functions and every size of     *)
(* blockstack: find_blocks has the open blocks on its stack, and loads the *)
(* modules whose bodies are balanced and no others.                        *)
(***************************************************************************)
EXTENDS FindBlocks, FiniteSetTheorems, TLAPS

(***************************************************************************)
(* The inductive invariant.  The reference counts openers and ends; the    *)
(* scan counts with top.  They agree because a block at index i is open    *)
(* with as many blocks as lie above it, itself included.                   *)
(***************************************************************************)
Within == pos <= Function.end_addr

Levels ==
  /\ Excess(input, Function.start_addr, pos) = top + 1
  /\ {blockstack[i] : i \in 0 .. top} = OpenAt(input, Function, pos)
  /\ \A i, j \in 0 .. top : i < j => blockstack[i] < blockstack[j]
  /\ \A i \in 0 .. top : Excess(input, blockstack[i], pos) = top - i + 1

Recorded ==
  \A i \in 0 .. top :
    /\ blockstack[i] \in DOMAIN blocks
    /\ blocks[blockstack[i]].block_type = input.code[blockstack[i]].op

Seen == \A a \in Scanned(input, Function) : a < pos => Placed(input, Function, a)

(* Behind the last instruction opcode tells whether it was an end there.   *)
PastEnd ==
  LET e == Function.end_addr IN
  IF e \in DOMAIN input.code
  THEN /\ opcode = input.code[e].op
       /\ opcode = "end" => Excess(input, Function.start_addr, e) = top + 1
  ELSE opcode # "end"

Scanning ==
  status = "scanning" =>
    /\ f \in DOMAIN input.range
    /\ Seen /\ Recorded
    /\ Within => pos \in Scanned(input, Function) /\ Levels
    /\ ~Within /\ HasCode(Function) => PastEnd

Earlier ==
  \A g \in DOMAIN input.range :
    /\ g < f /\ HasCode(input.range[g]) => Balanced(input, input.range[g])
    /\ status = "loaded" => g < f

Stopped ==
  /\ status = "exited" => ~Balanced(input, Function)
  /\ status = "undefined" =>
       \/ top + 1 = BLOCKSTACK_SIZE
       \/ top = -1 /\ ~Balanced(input, Function)

FindBlocksInv ==
  /\ input \in Inputs /\ input.import_func_count <= f
  /\ TypeOK /\ Scanning /\ Earlier /\ Stopped
-----------------------------------------------------------------------------
(***************************************************************************)
(* The reference, one instruction at a time.                               *)
(***************************************************************************)
Weight(op) == IF op \in BlockOps THEN 1 ELSE IF op = "end" THEN -1 ELSE 0

(* No instruction of the range lies between a and n.                       *)
Follows(in, r, a, n) ==
  /\ a \in Scanned(in, r) /\ n \in Nat /\ a < n /\ n <= r.end_addr + 1
  /\ \A b \in Scanned(in, r) : a < b => n <= b

LEMMA ExcessType ==
  ASSUME NEW in, Decoded(in), NEW ops, NEW lo, NEW hi
  PROVE  /\ IsFiniteSet(With(in, ops, lo, hi)) /\ Cardinality(With(in, ops, lo, hi)) \in Nat
         /\ Excess(in, lo, hi) \in Int
  <1>1. \A o : IsFiniteSet(With(in, o, lo, hi)) /\ Cardinality(With(in, o, lo, hi)) \in Nat
    <2> TAKE o
    <2>1. With(in, o, lo, hi) \in SUBSET DOMAIN in.code  BY DEF With
    <2> QED  BY <2>1, FS_Subset, FS_CardinalityType DEF Decoded
  <1> QED  BY <1>1 DEF Excess

LEMMA WithNothing ==
  ASSUME NEW in, Decoded(in), NEW lo \in Nat
  PROVE  /\ \A ops : With(in, ops, lo, lo) = {}
         /\ Excess(in, lo, lo) = 0
  <1>1. \A ops : With(in, ops, lo, lo) = {}  BY DEF With, Decoded
  <1> QED  BY <1>1, FS_EmptySet DEF Excess

LEMMA WithStep ==
  ASSUME NEW in, Decoded(in), NEW r, r.start_addr \in Nat, r.end_addr \in Nat,
         NEW a, NEW n, Follows(in, r, a, n),
         NEW lo \in Nat, r.start_addr <= lo, lo <= a, NEW ops
  PROVE  /\ With(in, ops, lo, n) =
              IF in.code[a].op \in ops THEN With(in, ops, lo, a) \cup {a} ELSE With(in, ops, lo, a)
         /\ a \notin With(in, ops, lo, a)
  <1>1. a \in Nat /\ a \in DOMAIN in.code /\ n \in Nat /\ a < n
    BY DEF Follows, Scanned, Decoded
  <1>2. ASSUME NEW b \in DOMAIN in.code, lo <= b
        PROVE  b < n <=> b < a \/ b = a
    <2>1. b \in Nat  BY DEF Decoded
    <2>2. ASSUME b < n  PROVE b <= a
      <3>1. SUFFICES ASSUME a < b PROVE FALSE  BY <1>1, <2>1
      <3>2. b \in Scanned(in, r)  BY <1>1, <1>2, <2>1, <2>2 DEF Follows, Scanned
      <3> QED  BY <1>1, <2>1, <2>2, <3>1, <3>2 DEF Follows
    <2> QED  BY <1>1, <2>1, <2>2
  <1>3. a \notin With(in, ops, lo, a)  BY <1>1 DEF With
  <1> QED  BY <1>1, <1>2, <1>3 DEF With

(* An opener adds one to the excess and an end takes one away.             *)
LEMMA ExcessStep ==
  ASSUME NEW in, Decoded(in), NEW r, r.start_addr \in Nat, r.end_addr \in Nat,
         NEW a, NEW n, Follows(in, r, a, n),
         NEW lo \in Nat, r.start_addr <= lo, lo <= a
  PROVE  Excess(in, lo, n) = Excess(in, lo, a) + Weight(in.code[a].op)
  <1> DEFINE Count(ops, hi) == Cardinality(With(in, ops, lo, hi))
  <1>1. \A ops : Count(ops, n) =
                   IF in.code[a].op \in ops THEN Count(ops, a) + 1 ELSE Count(ops, a)
    <2> TAKE ops
    <2>1. IsFiniteSet(With(in, ops, lo, a))  BY ExcessType
    <2> QED  BY <2>1, WithStep, FS_AddElement
  <1>2. \A ops, hi : Count(ops, hi) \in Nat  BY ExcessType
  <1>3. Excess(in, lo, n) = Count(BlockOps, n) - Count({"end"}, n)
        /\ Excess(in, lo, a) = Count(BlockOps, a) - Count({"end"}, a)
    BY DEF Excess
  <1>4. "end" \notin BlockOps  BY DEF BlockOps
  <1> HIDE DEF Count
  <1>5. CASE in.code[a].op \in BlockOps
    <2>1. in.code[a].op \notin {"end"} /\ Weight(in.code[a].op) = 1
      BY <1>4, <1>5 DEF Weight
    <2>2. Count(BlockOps, n) = Count(BlockOps, a) + 1 /\ Count({"end"}, n) = Count({"end"}, a)
      BY <1>1, <1>5, <2>1
    <2> QED  BY <1>2, <1>3, <2>1, <2>2
  <1>6. CASE in.code[a].op = "end"
    <2>1. in.code[a].op \notin BlockOps /\ Weight(in.code[a].op) = -1
      BY <1>4, <1>6 DEF Weight
    <2>2. Count(BlockOps, n) = Count(BlockOps, a) /\ Count({"end"}, n) = Count({"end"}, a) + 1
      BY <1>1, <1>6, <2>1
    <2> QED  BY <1>2, <1>3, <2>1, <2>2
  <1>7. CASE in.code[a].op \notin BlockOps /\ in.code[a].op # "end"
    <2>1. Weight(in.code[a].op) = 0  BY <1>7 DEF Weight
    <2>2. Count(BlockOps, n) = Count(BlockOps, a) /\ Count({"end"}, n) = Count({"end"}, a)
      BY <1>1, <1>7
    <2> QED  BY <1>2, <1>3, <2>1, <2>2
  <1> QED  BY <1>5, <1>6, <1>7

(* What is open behind an instruction, from what is open in front of it.   *)
LEMMA OpenAtStep ==
  ASSUME NEW in, Decoded(in), NEW r, r.start_addr \in Nat, r.end_addr \in Nat,
         NEW a, NEW n, Follows(in, r, a, n)
  PROVE  /\ in.code[a].op \in BlockOps => OpenAt(in, r, n) = OpenAt(in, r, a) \cup {a}
         /\ in.code[a].op = "end" =>
              OpenAt(in, r, n) = {b \in OpenAt(in, r, a) : Excess(in, b, a + 1) > 0}
         /\ in.code[a].op \notin BlockOps \cup {"end"} => OpenAt(in, r, n) = OpenAt(in, r, a)
  <1> DEFINE op == in.code[a].op
             s == r.start_addr
  <1>0. a \in DOMAIN in.code /\ a \in Nat /\ s <= a /\ "end" \notin BlockOps
    BY DEF Follows, Scanned, Decoded, BlockOps
  <1>a. \A ops : \A lo \in Nat : s <= lo /\ lo <= a =>
          With(in, ops, lo, n) = IF op \in ops THEN With(in, ops, lo, a) \cup {a}
                                               ELSE With(in, ops, lo, a)
    <2> TAKE ops
    <2> TAKE lo \in Nat
    <2> HAVE s <= lo /\ lo <= a
    <2> QED  BY WithStep
  <1>1. With(in, BlockOps, s, n) = IF op \in BlockOps THEN With(in, BlockOps, s, a) \cup {a}
                                                      ELSE With(in, BlockOps, s, a)
    <2>1. s <= s /\ s <= a /\ s \in Nat  BY <1>0
    <2> HIDE DEF op
    <2> QED  BY <1>a, <2>1
  <1>2. ASSUME NEW b \in With(in, BlockOps, s, a)
        PROVE  With(in, {"end"}, b, n) = IF op = "end" THEN With(in, {"end"}, b, a) \cup {a}
                                                       ELSE With(in, {"end"}, b, a)
    <2>1. b \in Nat /\ s <= b /\ b <= a  BY <1>0 DEF With, Decoded
    <2>2. With(in, {"end"}, b, n) = IF op \in {"end"} THEN With(in, {"end"}, b, a) \cup {a}
                                                      ELSE With(in, {"end"}, b, a)
      BY <1>a, <2>1
    <2> HIDE DEF op
    <2> QED  BY <2>2
  <1>3. op # "end" => \A e \in With(in, {"end"}, a, n) : FALSE
    <2>1. With(in, {"end"}, a, n) = IF op \in {"end"} THEN With(in, {"end"}, a, a) \cup {a}
                                                      ELSE With(in, {"end"}, a, a)
      BY <1>0, <1>a
    <2> QED  BY <1>0, <2>1, WithNothing
  <1> HIDE DEF op, s
  <1>4. CASE op \in BlockOps
    <2>1. op # "end"  BY <1>0, <1>4
    <2>2. OpenAt(in, r, n) = OpenAt(in, r, a) \cup {a}
      BY <1>1, <1>2, <1>3, <1>4, <2>1 DEF OpenAt, s
    <2> QED  BY <1>4, <2>1, <2>2 DEF op
  <1>5. CASE op = "end"
    <2>1. op \notin BlockOps  BY <1>0, <1>5
    <2>2. OpenAt(in, r, n) = {b \in OpenAt(in, r, a) : Excess(in, b, a + 1) > 0}
      BY <1>1, <1>2, <1>5, <2>1 DEF OpenAt, s
    <2> QED  BY <1>5, <2>1, <2>2 DEF op
  <1>6. CASE op \notin BlockOps /\ op # "end"
    <2>1. OpenAt(in, r, n) = OpenAt(in, r, a)
      BY <1>1, <1>2, <1>6 DEF OpenAt, s
    <2> QED  BY <1>6, <2>1 DEF op
  <1> QED  BY <1>4, <1>5, <1>6

LEMMA OpenAtStart ==
  ASSUME NEW in, Decoded(in), NEW r, r.start_addr \in Nat
  PROVE  OpenAt(in, r, r.start_addr) = {}
  BY WithNothing DEF OpenAt

(* The innermost of the open blocks is the last of an increasing stack.    *)
LEMMA InnermostIsTop ==
  ASSUME NEW s, NEW t \in Nat, \A i \in 0 .. t : s[i] \in Nat,
         \A i, j \in 0 .. t : i < j => s[i] < s[j]
  PROVE  Innermost({s[i] : i \in 0 .. t}) = s[t]
  <1> DEFINE S == {s[i] : i \in 0 .. t}
  <1>1. s[t] \in S /\ \A b \in S : b <= s[t]
    <2>1. s[t] \in S  OBVIOUS
    <2>2. ASSUME NEW i \in 0 .. t  PROVE s[i] <= s[t]
      <3>1. i = t \/ i < t  OBVIOUS
      <3> QED  BY <3>1
    <2> QED  BY <2>1, <2>2
  <1>2. ASSUME NEW a \in S, \A b \in S : b <= a  PROVE a = s[t]
    <2>1. a \in Nat /\ s[t] \in Nat  OBVIOUS
    <2> QED  BY <1>1, <1>2, <2>1
  <1> HIDE DEF S
  <1>3. Innermost(S) = s[t]  BY <1>1, <1>2 DEF Innermost
  <1> QED  BY <1>3 DEF S
-----------------------------------------------------------------------------
(***************************************************************************)
(* The types.                                                              *)
(***************************************************************************)
FoundBlock == [block_type : BlockOps, type : Seq(ValueType),
               start_addr : Nat, end_addr : Nat, else_addr : Nat, br_addr : Nat]

LEMMA InputFacts ==
  ASSUME FindBlocksInv, status = "scanning"
  PROVE  /\ Decoded(input) /\ Numbered(input) /\ Chained(input, Function)
         /\ Function.start_addr \in Nat /\ Function.end_addr \in Nat
         /\ f \in Nat /\ top \in Int /\ -1 <= top /\ top < BLOCKSTACK_SIZE
         /\ f \in DOMAIN input.range /\ input.import_func_count \in Nat
  <1>1. IsInput(input) /\ f \in DOMAIN input.range
    BY InputsAssumption DEF FindBlocksInv, Scanning
  <1>2. Chained(input, Function)  BY <1>1 DEF IsInput, Function
  <1>3. f \in Nat /\ top \in -1 .. BLOCKSTACK_SIZE - 1 /\ BLOCKSTACK_SIZE \in Nat
    BY BlockStackSizeAssumption DEF FindBlocksInv, TypeOK
  <1> QED  BY <1>1, <1>2, <1>3 DEF IsInput, Chained

LEMMA InstructionFacts ==
  ASSUME FindBlocksInv, status = "scanning", Within
  PROVE  /\ pos \in Scanned(input, Function) /\ pos \in DOMAIN input.code /\ pos \in Nat
         /\ Function.start_addr <= pos /\ HasCode(Function)
         /\ input.code[pos].op \in Ops /\ input.code[pos].next \in Nat
         /\ pos < input.code[pos].next
         /\ input.code[pos].op \in {"else", "end"} => input.code[pos].next = pos + 1
         /\ Levels /\ Recorded /\ Seen
  <1>1. pos \in Scanned(input, Function) /\ Levels /\ Recorded /\ Seen
    BY DEF FindBlocksInv, Scanning
  <1>2. pos \in DOMAIN input.code /\ pos \in Nat /\ Function.start_addr <= pos
    BY <1>1, InputFacts DEF Scanned, Decoded
  <1>3. HasCode(Function)  BY <1>2, InputFacts DEF HasCode, Within
  <1> QED  BY <1>1, <1>2, <1>3, InputFacts DEF Decoded

LEMMA BlockUpdate ==
  ASSUME NEW b \in FoundBlock, NEW x \in Nat
  PROVE  /\ [b EXCEPT !.else_addr = x] \in FoundBlock
         /\ \A y \in Nat : [b EXCEPT !.end_addr = x, !.br_addr = y] \in FoundBlock
  <1>1. [b EXCEPT !.else_addr = x] \in FoundBlock  BY DEF FoundBlock
  <1>2. [b EXCEPT !.end_addr = x] \in FoundBlock  BY DEF FoundBlock
  <1>3. \A y \in Nat : [[b EXCEPT !.end_addr = x] EXCEPT !.br_addr = y] \in FoundBlock
    BY <1>2 DEF FoundBlock
  <1> QED  BY <1>1, <1>3

LEMMA TypeStep ==
  ASSUME FindBlocksInv, [Next]_vars
  PROVE  TypeOK'
  <1>0. TypeOK /\ BLOCKSTACK_SIZE \in Nat
    BY BlockStackSizeAssumption DEF FindBlocksInv
  <1>1. ASSUME NEW ops, Scan(ops)
        PROVE  opcode' \in Ops /\ input.code[pos].next \in Nat /\ pos \in Nat
               /\ status = "scanning" /\ Within
    BY <1>1, InstructionFacts DEF Scan, Within
  <1>2. ASSUME NEW outcome \in {"exited", "undefined"}, opcode' \in Ops, Stop(outcome)
        PROVE  TypeOK'
    BY <1>0, <1>2 DEF Stop, TypeOK
  <1>3. CASE Open
    <2>1. opcode' \in Ops /\ input.code[pos].next \in Nat /\ pos \in Nat
          /\ status = "scanning" /\ Within /\ input.code[pos].op \in BlockOps
      BY <1>1, <1>3 DEF Open, Scan
    <2>2. CASE Stop("exited") \/ Stop("undefined")
      BY <1>2, <2>1, <2>2
    <2>3. CASE Typed /\ Room /\ top' = top + 1
               /\ blockstack' = [blockstack EXCEPT ![top + 1] = pos]
               /\ blocks' = [a \in DOMAIN blocks \cup {pos} |->
                        IF a = pos THEN NewBlock(input.code[pos], pos) ELSE blocks[a]]
               /\ SkipImmediate /\ UNCHANGED <<input, f, status>>
      <3>1. NewBlock(input.code[pos], pos) \in FoundBlock
        <4>1. BlockTypes[input.code[pos].imm] \in Seq(ValueType)
          <5>1. \A t \in ValueType : <<t>> \in Seq(ValueType)  OBVIOUS
          <5>2. <<>> \in Seq(ValueType)  OBVIOUS
          <5>3. BlockTypes.void \in Seq(ValueType) /\ BlockTypes.i32 \in Seq(ValueType)
                /\ BlockTypes.i64 \in Seq(ValueType)
            BY <5>1, <5>2 DEF BlockTypes, ValueType
          <5>4. DOMAIN BlockTypes = {"void", "i32", "i64"}  BY DEF BlockTypes
          <5> QED  BY <2>3, <5>3, <5>4 DEF Typed
        <4> QED  BY <2>1, <4>1 DEF NewBlock, FoundBlock
      <3>2. pos \in DOMAIN input.code  BY <2>1, InstructionFacts
      <3>3. top' \in -1 .. BLOCKSTACK_SIZE - 1  BY <1>0, <2>3 DEF Room, TypeOK
      <3>4. blockstack' \in [0 .. BLOCKSTACK_SIZE - 1 -> Nat]
        BY <1>0, <2>1, <2>3 DEF TypeOK
      <3>5. \A a \in DOMAIN blocks' : blocks'[a] \in FoundBlock
        BY <1>0, <2>3, <3>1 DEF TypeOK, FoundBlock
      <3>6. DOMAIN blocks' \subseteq DOMAIN input.code
        BY <1>0, <2>3, <3>2 DEF TypeOK
      <3> QED  BY <1>0, <2>1, <2>3, <3>3, <3>4, <3>5, <3>6 DEF TypeOK, FoundBlock, SkipImmediate
    <2> QED  BY <1>3, <2>2, <2>3 DEF Open
  <1>4. CASE Else
    <2>1. opcode' \in Ops /\ input.code[pos].next \in Nat /\ pos \in Nat
      BY <1>1, <1>4 DEF Else
    <2>2. CASE Stop("exited") \/ Stop("undefined")
      BY <1>2, <2>1, <2>2
    <2>3. CASE blocks' = [blocks EXCEPT ![blockstack[top]].else_addr = ElseAddr]
               /\ SkipImmediate /\ UNCHANGED <<input, f, blockstack, top, status>>
      <3>1. \A a \in DOMAIN blocks' : blocks'[a] \in FoundBlock
        <4>1. \A a \in DOMAIN blocks : blocks[a] \in FoundBlock
          BY <1>0 DEF TypeOK, FoundBlock
        <4>2. \A a \in DOMAIN blocks : [blocks[a] EXCEPT !.else_addr = ElseAddr] \in FoundBlock
          <5> TAKE a \in DOMAIN blocks
          <5>1. ElseAddr \in Nat /\ blocks[a] \in FoundBlock  BY <2>1, <4>1 DEF ElseAddr
          <5> HIDE DEF ElseAddr
          <5> QED  BY <5>1, BlockUpdate
        <4> QED  BY <2>3, <4>1, <4>2
      <3> QED  BY <1>0, <2>1, <2>3, <3>1 DEF TypeOK, FoundBlock, SkipImmediate
    <2> QED  BY <1>4, <2>2, <2>3 DEF Else
  <1>5. CASE End
    <2>1. opcode' \in Ops /\ input.code[pos].next \in Nat /\ pos \in Nat
      BY <1>1, <1>5 DEF End
    <2>2. CASE Stop("exited")
      BY <1>2, <2>1, <2>2
    <2>3. CASE SkipImmediate /\ UNCHANGED <<input, f, blockstack, top, blocks, status>>
      BY <1>0, <2>1, <2>3 DEF TypeOK, SkipImmediate
    <2>4. CASE top >= 0 /\ blocks' = [blocks EXCEPT ![blockstack[top]] = Closed(@)]
               /\ top' = top - 1 /\ SkipImmediate /\ UNCHANGED <<input, f, blockstack, status>>
      <3>1. \A b \in FoundBlock : Closed(b) \in FoundBlock
        <4> TAKE b \in FoundBlock
        <4>1. BrAddr(b) \in Nat  BY <2>1 DEF FoundBlock, BrAddr
        <4> QED  BY <2>1, <4>1, BlockUpdate DEF Closed
      <3>2. \A a \in DOMAIN blocks' : blocks'[a] \in FoundBlock
        BY <1>0, <2>4, <3>1 DEF TypeOK, FoundBlock
      <3>3. top' \in -1 .. BLOCKSTACK_SIZE - 1  BY <1>0, <2>4 DEF TypeOK
      <3> QED  BY <1>0, <2>1, <2>4, <3>2, <3>3 DEF TypeOK, FoundBlock, SkipImmediate
    <2> QED  BY <1>5, <2>2, <2>3, <2>4 DEF End
  <1>6. CASE OtherInstruction
    <2>1. opcode' \in Ops /\ input.code[pos].next \in Nat
      BY <1>1, <1>6 DEF OtherInstruction
    <2> QED  BY <1>0, <1>6, <2>1 DEF OtherInstruction, TypeOK, SkipImmediate
  <1>7. CASE FunctionDone
    <2>1. f + 1 \in DOMAIN input.range => input.range[f + 1].start_addr \in Nat
      BY InputsAssumption DEF FindBlocksInv, IsInput, Chained
    <2> QED  BY <1>0, <1>7, <2>1 DEF FunctionDone, TypeOK
  <1>8. CASE UNCHANGED vars
    BY <1>0, <1>8 DEF TypeOK, vars
  <1> QED  BY <1>3, <1>4, <1>5, <1>6, <1>7, <1>8 DEF Next
-----------------------------------------------------------------------------
(***************************************************************************)
(* The scan.                                                               *)
(***************************************************************************)
LEMMA InitialFunction ==
  ASSUME NEW in, IsInput(in), NEW r, Chained(in, r), HasCode(r)
  PROVE  /\ r.start_addr \in Scanned(in, r)
         /\ Excess(in, r.start_addr, r.start_addr) = 0
         /\ OpenAt(in, r, r.start_addr) = {}
  <1>1. Decoded(in) /\ r.start_addr \in Nat  BY DEF IsInput, Chained
  <1>2. r.start_addr \in Scanned(in, r)  BY DEF Scanned, Chained, HasCode
  <1> QED  BY <1>1, <1>2, WithNothing, OpenAtStart

(* The next instruction follows the scanned one, if the function has one.  *)
LEMMA NextFollows ==
  ASSUME FindBlocksInv, status = "scanning", Within, SkipImmediate, UNCHANGED <<input, f>>
  PROVE  /\ Within' => /\ pos' \in Scanned(input, Function)'
                       /\ Follows(input, Function, pos, pos')
         /\ ~Within' => /\ \A a \in Scanned(input, Function) : a <= pos
                        /\ Function.end_addr \in DOMAIN input.code => pos = Function.end_addr
                        /\ Function.end_addr \notin DOMAIN input.code =>
                             input.code[pos].op # "end"
         /\ \A a \in Scanned(input, Function) : a < pos' => a <= pos
         /\ Function' = Function
  <1>0. Function' = Function /\ input' = input /\ pos' = input.code[pos].next
    BY DEF Function, SkipImmediate
  <1>1. /\ pos \in Scanned(input, Function) /\ pos \in Nat /\ pos' \in Nat /\ pos < pos'
        /\ Function.end_addr \in Nat /\ Function.start_addr \in Nat /\ Function.start_addr <= pos
        /\ pos \in DOMAIN input.code
    BY <1>0, InputFacts, InstructionFacts
  <1>2. \A a \in Scanned(input, Function) : a \in Nat /\ a <= Function.end_addr
    BY InputFacts DEF Scanned, Decoded
  <1>3. \A a \in Scanned(input, Function) : pos < a => pos' <= a
    BY <1>0, <1>1, InputFacts DEF Chained
  <1>4. ASSUME Within'
        PROVE  pos' \in Scanned(input, Function) /\ Follows(input, Function, pos, pos')
    <2>1. pos' <= Function.end_addr  BY <1>0, <1>4 DEF Within
    <2>2. pos' \in DOMAIN input.code  BY <1>0, <1>1, <2>1, InputFacts DEF Chained
    <2>3. pos' \in Scanned(input, Function)  BY <1>1, <2>1, <2>2 DEF Scanned
    <2>4. Follows(input, Function, pos, pos')  BY <1>1, <1>3, <2>1 DEF Follows
    <2> QED  BY <2>3, <2>4
  <1>5. ASSUME ~Within'
        PROVE  /\ \A a \in Scanned(input, Function) : a <= pos
               /\ Function.end_addr \in DOMAIN input.code => pos = Function.end_addr
               /\ Function.end_addr \notin DOMAIN input.code => input.code[pos].op # "end"
    <2>1. Function.end_addr < pos'  BY <1>0, <1>1, <1>5 DEF Within
    <2>2. \A a \in Scanned(input, Function) : a <= pos  BY <1>1, <1>2, <1>3, <2>1
    <2>3. pos <= Function.end_addr  BY DEF Within
    <2>4. ASSUME Function.end_addr \in DOMAIN input.code  PROVE pos = Function.end_addr
      <3>1. Function.end_addr \in Scanned(input, Function)
        BY <1>1, <2>3, <2>4 DEF Scanned
      <3> QED  BY <1>1, <2>2, <2>3, <3>1
    <2>5. ASSUME Function.end_addr \notin DOMAIN input.code, input.code[pos].op = "end"
          PROVE  FALSE
      <3>1. pos' = pos + 1  BY <1>0, <2>5, InstructionFacts
      <3>2. pos = Function.end_addr  BY <1>1, <2>1, <2>3, <3>1
      <3> QED  BY <1>1, <2>5, <3>2
    <2> QED  BY <2>2, <2>4, <2>5
  <1>6. \A a \in Scanned(input, Function) : a < pos' => a <= pos
    BY <1>1, <1>2, <1>3
  <1>7. Scanned(input, Function)' = Scanned(input, Function)  BY <1>0
  <1> QED  BY <1>0, <1>4, <1>5, <1>6, <1>7

(* What every instruction that does not stop the program preserves.        *)
LEMMA Forward ==
  ASSUME FindBlocksInv, status = "scanning", Within, SkipImmediate,
         UNCHANGED <<input, f, status>>, opcode' = input.code[pos].op,
         Placed(input, Function, pos), Recorded', Within' => Levels',
         input.code[pos].op = "end" /\ pos = Function.end_addr => top' = top
  PROVE  (Scanning /\ Earlier /\ Stopped)'
  <1>0. /\ input' = input /\ f' = f /\ status' = "scanning" /\ Function' = Function
        /\ pos \in Nat /\ f \in DOMAIN input.range
        /\ Levels /\ Seen
    BY NextFollows, InputFacts, InstructionFacts
  <1>1. Seen'
    <2>1. \A a \in Scanned(input, Function) : a < pos' => Placed(input, Function, a)
      <3> SUFFICES ASSUME NEW a \in Scanned(input, Function), a < pos'
                   PROVE  Placed(input, Function, a)
        OBVIOUS
      <3>1. a \in Nat  BY InputFacts DEF Scanned, Decoded
      <3>2. a < pos \/ a = pos  BY <1>0, <3>1, NextFollows
      <3> QED  BY <1>0, <3>2 DEF Seen
    <2> QED  BY <1>0, <2>1 DEF Seen
  <1>2. ASSUME ~Within'  PROVE PastEnd'
    <2> DEFINE e == Function.end_addr
    <2>1. CASE e \in DOMAIN input.code
      <3>1. pos = e  BY <1>2, <2>1, NextFollows
      <3>2. ASSUME opcode' = "end"
            PROVE  Excess(input, Function.start_addr, e) = top' + 1
        BY <1>0, <3>1, <3>2 DEF Levels
      <3> QED  BY <1>0, <2>1, <3>1, <3>2 DEF PastEnd
    <2>2. CASE e \notin DOMAIN input.code
      <3>1. opcode' # "end"  BY <1>2, <2>2, NextFollows
      <3> QED  BY <1>0, <2>2, <3>1 DEF PastEnd
    <2> QED  BY <2>1, <2>2
  <1>3. Within' => pos' \in Scanned(input, Function)'  BY NextFollows
  <1>4. Scanning'  BY <1>0, <1>1, <1>2, <1>3 DEF Scanning
  <1>5. Earlier'  BY <1>0 DEF FindBlocksInv, Earlier
  <1>6. Stopped'  BY <1>0 DEF Stopped
  <1> QED  BY <1>4, <1>5, <1>6

(* What a failed ASSERT and an access outside of blockstack preserve.      *)
LEMMA Stopping ==
  ASSUME FindBlocksInv, status = "scanning", NEW outcome, Stop(outcome),
         \/ outcome = "exited" /\ ~Balanced(input, Function)
         \/ outcome = "undefined" /\ (\/ top + 1 = BLOCKSTACK_SIZE
                                      \/ top = -1 /\ ~Balanced(input, Function))
  PROVE  (Scanning /\ Earlier /\ Stopped)'
  <1>1. /\ input' = input /\ f' = f /\ top' = top /\ Function' = Function
        /\ status' \in {"exited", "undefined"} /\ status' = outcome
    BY DEF Stop, Function
  <1>2. Scanning'  BY <1>1 DEF Scanning
  <1>3. Earlier'  BY <1>1 DEF FindBlocksInv, Earlier
  <1>4. Stopped'  BY <1>1 DEF Stopped
  <1> QED  BY <1>2, <1>3, <1>4
LEMMA OpenBlocks ==
  ASSUME FindBlocksInv, status = "scanning", Within, NEW i \in 0 .. top
  PROVE  /\ blockstack[i] \in OpenAt(input, Function, pos)
         /\ blockstack[i] \in DOMAIN input.code /\ blockstack[i] \in Nat
         /\ Function.start_addr <= blockstack[i] /\ blockstack[i] < pos
         /\ input.code[blockstack[i]].op \in BlockOps
  <1>1. blockstack[i] \in OpenAt(input, Function, pos)
    BY InstructionFacts DEF Levels
  <1> QED  BY <1>1, InputFacts DEF OpenAt, With, Decoded

(* An opener is on top of what was open, and everything is one level       *)
(* further out.                                                            *)
LEMMA LevelsAfterOpen ==
  ASSUME FindBlocksInv, status = "scanning", Within, input.code[pos].op \in BlockOps,
         SkipImmediate, UNCHANGED <<input, f>>, Room,
         top' = top + 1, blockstack' = [blockstack EXCEPT ![top + 1] = pos]
  PROVE  Within' => Levels'
  <1> SUFFICES ASSUME Within' PROVE Levels'
    OBVIOUS
  <1> DEFINE s == Function.start_addr
             op == input.code[pos].op
  <1>0. /\ input' = input /\ Function' = Function /\ Decoded(input) /\ Levels
        /\ s \in Nat /\ Function.end_addr \in Nat /\ top \in Int /\ -1 <= top
        /\ pos \in Nat /\ s <= pos /\ Follows(input, Function, pos, pos')
    BY InputFacts, InstructionFacts, NextFollows
  <1>1. Weight(op) = 1  BY DEF Weight
  <1>2. \A lo \in Nat : s <= lo /\ lo <= pos =>
          Excess(input, lo, pos') = Excess(input, lo, pos) + 1
    <2> TAKE lo \in Nat
    <2> HAVE s <= lo /\ lo <= pos
    <2>1. Excess(input, lo, pos') = Excess(input, lo, pos) + Weight(op)
      BY <1>0, ExcessStep
    <2> QED  BY <1>1, <2>1
  <1>3. /\ \A i \in 0 .. top : blockstack'[i] = blockstack[i]
        /\ blockstack'[top + 1] = pos
    <2>1. /\ blockstack \in [0 .. BLOCKSTACK_SIZE - 1 -> Nat]
          /\ top \in -1 .. BLOCKSTACK_SIZE - 1 /\ BLOCKSTACK_SIZE \in Nat
      BY BlockStackSizeAssumption DEF FindBlocksInv, TypeOK
    <2> QED  BY <2>1 DEF Room
  <1>4. 0 .. top' = (0 .. top) \cup {top + 1}  BY <1>0
  <1>5. Excess(input, s, pos') = top' + 1
    BY <1>0, <1>2 DEF Levels
  <1>6. {blockstack'[i] : i \in 0 .. top'} = OpenAt(input, Function, pos')
    <2>1. OpenAt(input, Function, pos') = OpenAt(input, Function, pos) \cup {pos}
      BY <1>0, OpenAtStep
    <2>2. {blockstack'[i] : i \in 0 .. top'} = {blockstack[i] : i \in 0 .. top} \cup {pos}
      BY <1>3, <1>4
    <2> QED  BY <1>0, <2>1, <2>2 DEF Levels
  <1>7. ASSUME NEW i \in 0 .. top', NEW j \in 0 .. top', i < j
        PROVE  blockstack'[i] < blockstack'[j]
    <2>1. i \in 0 .. top  BY <1>0, <1>7
    <2>2. CASE j \in 0 .. top  BY <1>0, <1>3, <1>7, <2>1, <2>2 DEF Levels
    <2>3. CASE j = top + 1  BY <1>3, <2>1, <2>3, OpenBlocks
    <2> QED  BY <1>4, <2>2, <2>3
  <1>8. ASSUME NEW i \in 0 .. top'
        PROVE  Excess(input, blockstack'[i], pos') = top' - i + 1
    <2>1. CASE i \in 0 .. top
      <3>1. /\ blockstack[i] \in Nat /\ s <= blockstack[i] /\ blockstack[i] < pos
            /\ blockstack'[i] = blockstack[i]
        BY <1>3, <2>1, OpenBlocks
      <3>2. Excess(input, blockstack[i], pos) = top - i + 1  BY <1>0, <2>1 DEF Levels
      <3>3. Excess(input, blockstack[i], pos') = top - i + 1 + 1
        BY <1>0, <1>2, <3>1, <3>2
      <3> QED  BY <1>0, <2>1, <3>1, <3>3
    <2>2. CASE i = top + 1
      <3>1. Excess(input, pos, pos) = 0  BY <1>0, WithNothing
      <3>2. Excess(input, pos, pos') = 0 + 1  BY <1>0, <1>2, <3>1
      <3> QED  BY <1>0, <1>3, <2>2, <3>2
    <2> QED  BY <1>4, <2>1, <2>2
  <1> QED  BY <1>0, <1>5, <1>6, <1>7, <1>8 DEF Levels

LEMMA StepOpen ==
  ASSUME FindBlocksInv, Open
  PROVE  (Scanning /\ Earlier /\ Stopped)'
  <1>1. /\ status = "scanning" /\ Within /\ input.code[pos].op \in BlockOps
        /\ opcode' = input.code[pos].op
    BY DEF Open, Scan, Within
  <1>2. pos \in Scanned(input, Function) /\ Levels /\ Recorded /\ top \in Int /\ -1 <= top
        /\ top < BLOCKSTACK_SIZE /\ pos \in Nat
    BY <1>1, InstructionFacts, InputFacts
  <1>3. CASE ~Typed /\ Stop("exited")
    <2>1. ~Balanced(input, Function)  BY <1>1, <1>2, <1>3 DEF Balanced, Placed, Typed
    <2> QED  BY <1>1, <1>3, <2>1, Stopping
  <1>4. CASE Typed /\ ~Room /\ Stop("undefined")
    <2>1. top + 1 = BLOCKSTACK_SIZE  BY <1>2, <1>4, BlockStackSizeAssumption DEF Room
    <2> QED  BY <1>1, <1>4, <2>1, Stopping
  <1>5. CASE /\ Typed /\ Room /\ top' = top + 1
             /\ blockstack' = [blockstack EXCEPT ![top + 1] = pos]
             /\ blocks' = [a \in DOMAIN blocks \cup {pos} |->
                             IF a = pos THEN NewBlock(input.code[pos], pos) ELSE blocks[a]]
             /\ SkipImmediate /\ UNCHANGED <<input, f, status>>
    <2>1. Within' => Levels'  BY <1>1, <1>5, LevelsAfterOpen
    <2>2. Placed(input, Function, pos)
      <3>1. input.code[pos].op # "else"  BY <1>1 DEF BlockOps
      <3> QED  BY <1>2, <1>5, <3>1 DEF Placed, Typed, Levels
    <2>3. Recorded'
      <3> SUFFICES ASSUME NEW i \in 0 .. top'
                   PROVE  /\ blockstack'[i] \in DOMAIN blocks'
                          /\ blocks'[blockstack'[i]].block_type
                               = input'.code[blockstack'[i]].op
        BY DEF Recorded
      <3>1. /\ blockstack \in [0 .. BLOCKSTACK_SIZE - 1 -> Nat]
            /\ BLOCKSTACK_SIZE \in Nat
        BY BlockStackSizeAssumption DEF FindBlocksInv, TypeOK
      <3>2. CASE i \in 0 .. top
        <4>1. blockstack[i] < pos /\ blockstack[i] \in Nat  BY <1>1, <3>2, OpenBlocks
        <4>2. blockstack'[i] = blockstack[i]  BY <1>2, <1>5, <3>1, <3>2
        <4>3. blockstack[i] \in DOMAIN blocks
              /\ blocks[blockstack[i]].block_type = input.code[blockstack[i]].op
          BY <1>2, <3>2 DEF Recorded
        <4>4. blockstack[i] # pos  BY <1>2, <4>1
        <4> QED  BY <1>5, <4>2, <4>3, <4>4
      <3>3. CASE i = top + 1
        <4>1. blockstack'[i] = pos  BY <1>2, <1>5, <3>1, <3>3 DEF Room
        <4> QED  BY <1>5, <4>1 DEF NewBlock
      <3> QED  BY <1>2, <1>5, <3>2, <3>3
    <2>4. input.code[pos].op # "end"  BY <1>1 DEF BlockOps
    <2> QED  BY <1>1, <1>5, <2>1, <2>2, <2>3, <2>4, Forward
  <1> QED  BY <1>3, <1>4, <1>5 DEF Open
(* An instruction that neither opens nor ends a block leaves the levels.   *)
LEMMA LevelsAfterOther ==
  ASSUME FindBlocksInv, status = "scanning", Within,
         input.code[pos].op \notin BlockOps, input.code[pos].op # "end",
         SkipImmediate, UNCHANGED <<input, f, blockstack, top>>
  PROVE  Within' => Levels'
  <1> SUFFICES ASSUME Within' PROVE Levels'
    OBVIOUS
  <1> DEFINE s == Function.start_addr
             op == input.code[pos].op
  <1>0. /\ input' = input /\ Function' = Function /\ Decoded(input) /\ Levels
        /\ s \in Nat /\ Function.end_addr \in Nat /\ top \in Int /\ -1 <= top
        /\ pos \in Nat /\ s <= pos /\ Follows(input, Function, pos, pos')
    BY InputFacts, InstructionFacts, NextFollows
  <1>1. Weight(op) = 0  BY DEF Weight
  <1>2. \A lo \in Nat : s <= lo /\ lo <= pos =>
          Excess(input, lo, pos') = Excess(input, lo, pos)
    <2> TAKE lo \in Nat
    <2> HAVE s <= lo /\ lo <= pos
    <2>1. Excess(input, lo, pos') = Excess(input, lo, pos) + Weight(op)
      BY <1>0, ExcessStep
    <2>2. Excess(input, lo, pos) \in Int  BY <1>0, ExcessType
    <2> QED  BY <1>1, <2>1, <2>2
  <1>3. OpenAt(input, Function, pos') = OpenAt(input, Function, pos)
    BY <1>0, OpenAtStep
  <1>4. \A i \in 0 .. top :
          Excess(input, blockstack[i], pos') = Excess(input, blockstack[i], pos)
    <2> TAKE i \in 0 .. top
    <2>1. blockstack[i] \in Nat /\ s <= blockstack[i] /\ blockstack[i] < pos
      BY OpenBlocks
    <2> QED  BY <1>0, <1>2, <2>1
  <1> QED  BY <1>0, <1>2, <1>3, <1>4 DEF Levels

(* An end closes the innermost block: the others are one level further in. *)
LEMMA LevelsAfterEnd ==
  ASSUME FindBlocksInv, status = "scanning", Within, input.code[pos].op = "end", top >= 0,
         SkipImmediate, UNCHANGED <<input, f, blockstack>>, top' = top - 1
  PROVE  Within' => Levels'
  <1> SUFFICES ASSUME Within' PROVE Levels'
    OBVIOUS
  <1> DEFINE s == Function.start_addr
             op == input.code[pos].op
  <1>0. /\ input' = input /\ Function' = Function /\ Decoded(input) /\ Levels
        /\ blockstack' = blockstack /\ pos' = pos + 1
        /\ s \in Nat /\ Function.end_addr \in Nat /\ top \in Nat
        /\ pos \in Nat /\ s <= pos /\ Follows(input, Function, pos, pos')
    BY InputFacts, InstructionFacts, NextFollows DEF SkipImmediate
  <1>1. Weight(op) = -1  BY DEF Weight, BlockOps
  <1>2. \A lo \in Nat : s <= lo /\ lo <= pos =>
          Excess(input, lo, pos') = Excess(input, lo, pos) - 1
    <2> TAKE lo \in Nat
    <2> HAVE s <= lo /\ lo <= pos
    <2>1. Excess(input, lo, pos') = Excess(input, lo, pos) + Weight(op)
      BY <1>0, ExcessStep
    <2>2. Excess(input, lo, pos) \in Int  BY <1>0, ExcessType
    <2> QED  BY <1>1, <2>1, <2>2
  <1>3. \A i \in 0 .. top : Excess(input, blockstack[i], pos') = top - i
    <2> TAKE i \in 0 .. top
    <2>1. blockstack[i] \in Nat /\ s <= blockstack[i] /\ blockstack[i] < pos
      BY OpenBlocks
    <2>2. Excess(input, blockstack[i], pos) = top - i + 1  BY <1>0 DEF Levels
    <2>3. Excess(input, blockstack[i], pos') = top - i + 1 - 1  BY <1>0, <1>2, <2>1, <2>2
    <2> QED  BY <1>0, <2>3
  <1>4. 0 .. top = (0 .. top') \cup {top}  BY <1>0
  <1>5. OpenAt(input, Function, pos') = {blockstack[i] : i \in 0 .. top'}
    <2>1. OpenAt(input, Function, pos') =
            {b \in {blockstack[i] : i \in 0 .. top} : Excess(input, b, pos') > 0}
      BY <1>0, OpenAtStep DEF Levels
    <2>2. \A i \in 0 .. top : Excess(input, blockstack[i], pos') > 0 <=> i \in 0 .. top'
      BY <1>0, <1>3
    <2> QED  BY <1>4, <2>1, <2>2
  <1>6. Excess(input, s, pos') = top' + 1
    <2>1. Excess(input, s, pos) = top + 1  BY <1>0 DEF Levels
    <2>2. Excess(input, s, pos') = top + 1 - 1  BY <1>0, <1>2, <2>1
    <2> QED  BY <1>0, <2>2
  <1>7. \A i \in 0 .. top' : Excess(input, blockstack[i], pos') = top' - i + 1
    BY <1>0, <1>3, <1>4
  <1>8. \A i, j \in 0 .. top' : i < j => blockstack[i] < blockstack[j]
    BY <1>0, <1>4 DEF Levels
  <1> QED  BY <1>0, <1>5, <1>6, <1>7, <1>8 DEF Levels

LEMMA InnermostOpen ==
  ASSUME FindBlocksInv, status = "scanning", Within
  PROVE  /\ top < 0 => OpenAt(input, Function, pos) = {}
         /\ top >= 0 => /\ OpenAt(input, Function, pos) # {}
                        /\ Innermost(OpenAt(input, Function, pos)) = blockstack[top]
                        /\ blocks[blockstack[top]].block_type = input.code[blockstack[top]].op
                        /\ top \in 0 .. top
  <1>0. Levels /\ Recorded /\ top \in Int /\ -1 <= top
    BY InputFacts, InstructionFacts
  <1>1. ASSUME top < 0 PROVE OpenAt(input, Function, pos) = {}
    <2>1. \A i \in 0 .. top : FALSE  BY <1>0, <1>1
    <2> QED  BY <1>0, <2>1 DEF Levels
  <1>2. ASSUME top >= 0
        PROVE  /\ OpenAt(input, Function, pos) # {} /\ top \in 0 .. top
               /\ Innermost(OpenAt(input, Function, pos)) = blockstack[top]
               /\ blocks[blockstack[top]].block_type = input.code[blockstack[top]].op
    <2>1. top \in 0 .. top /\ top \in Nat  BY <1>0, <1>2
    <2>2. \A i \in 0 .. top : blockstack[i] \in Nat  BY OpenBlocks
    <2>3. Innermost({blockstack[i] : i \in 0 .. top}) = blockstack[top]
      BY <1>0, <2>1, <2>2, InnermostIsTop DEF Levels
    <2> QED  BY <1>0, <2>1, <2>3 DEF Levels, Recorded
  <1> QED  BY <1>1, <1>2

LEMMA StepElse ==
  ASSUME FindBlocksInv, Else
  PROVE  (Scanning /\ Earlier /\ Stopped)'
  <1>1. /\ status = "scanning" /\ Within /\ input.code[pos].op = "else"
        /\ opcode' = input.code[pos].op /\ input.code[pos].op \notin BlockOps
    BY DEF Else, Scan, Within, BlockOps
  <1>2. pos \in Scanned(input, Function) /\ Levels /\ Recorded /\ top \in Int /\ -1 <= top
    BY <1>1, InstructionFacts, InputFacts
  <1>3. CASE top < 0 /\ Stop("undefined")
    <2>1. ~Balanced(input, Function)
      BY <1>1, <1>2, <1>3, InnermostOpen DEF Balanced, Placed
    <2>2. top = -1  BY <1>2, <1>3
    <2> QED  BY <1>1, <1>3, <2>1, <2>2, Stopping
  <1>4. CASE top >= 0 /\ blocks[blockstack[top]].block_type # "if" /\ Stop("exited")
    <2>1. ~Balanced(input, Function)
      BY <1>1, <1>2, <1>4, InnermostOpen DEF Balanced, Placed
    <2> QED  BY <1>1, <1>4, <2>1, Stopping
  <1>5. CASE /\ top >= 0 /\ blocks[blockstack[top]].block_type = "if"
             /\ blocks' = [blocks EXCEPT ![blockstack[top]].else_addr = ElseAddr]
             /\ SkipImmediate
             /\ UNCHANGED <<input, f, blockstack, top, status>>
    <2>1. Within' => Levels'  BY <1>1, <1>5, LevelsAfterOther
    <2>2. Placed(input, Function, pos)
      BY <1>1, <1>2, <1>5, InnermostOpen DEF Placed, Levels
    <2>3. Recorded'
      <3>1. \A b \in DOMAIN blocks :
              b \in DOMAIN blocks' /\ blocks'[b].block_type = blocks[b].block_type
        <4>1. \A b \in DOMAIN blocks : blocks[b] \in FoundBlock
          BY DEF FindBlocksInv, TypeOK, FoundBlock
        <4>2. \A b \in DOMAIN blocks :
                [blocks[b] EXCEPT !.else_addr = ElseAddr].block_type = blocks[b].block_type
          BY <4>1 DEF FoundBlock
        <4> QED  BY <1>5, <4>2
      <3> QED  BY <1>2, <1>5, <3>1 DEF Recorded
    <2> QED  BY <1>1, <1>5, <2>1, <2>2, <2>3, Forward
  <1> QED  BY <1>3, <1>4, <1>5 DEF Else
LEMMA StepEnd ==
  ASSUME FindBlocksInv, End
  PROVE  (Scanning /\ Earlier /\ Stopped)'
  <1>1. /\ status = "scanning" /\ Within /\ input.code[pos].op = "end"
        /\ opcode' = input.code[pos].op
    BY DEF End, Scan, Within
  <1>2. /\ pos \in Scanned(input, Function) /\ Levels /\ Recorded /\ pos \in Nat
        /\ top \in Int /\ -1 <= top /\ Decoded(input) /\ Chained(input, Function)
        /\ Function.start_addr \in Nat /\ Function.end_addr \in Nat
        /\ Function.start_addr <= pos /\ input.code[pos].next = pos + 1
        /\ pos <= Function.end_addr
    BY <1>1, InstructionFacts, InputFacts DEF Within
  <1>3. Placed(input, Function, pos)
    BY <1>1, <1>2 DEF Placed, Levels, BlockOps
  <1>4. CASE /\ EndsFunction /\ SkipImmediate
             /\ UNCHANGED <<input, f, blockstack, top, blocks, status>>
    <2>1. ~Within'  BY <1>2, <1>4 DEF Within, EndsFunction, SkipImmediate, Function
    <2>2. Recorded'  BY <1>2, <1>4 DEF Recorded
    <2> QED  BY <1>1, <1>3, <1>4, <2>1, <2>2, Forward
  <1>5. CASE ~EndsFunction /\ top < 0 /\ Stop("exited")
    <2>1. pos + 1 \in Scanned(input, Function) /\ Follows(input, Function, pos, pos + 1)
      <3>1. pos + 1 <= Function.end_addr  BY <1>2, <1>5 DEF EndsFunction
      <3>2. pos + 1 \in DOMAIN input.code  BY <1>2, <3>1 DEF Chained
      <3>3. \A b \in Scanned(input, Function) : b \in Nat  BY <1>2 DEF Scanned, Decoded
      <3> QED  BY <1>2, <3>1, <3>2, <3>3 DEF Scanned, Follows
    <2>2. Excess(input, Function.start_addr, pos + 1) = -1
      <3>1. Excess(input, Function.start_addr, pos) = 0  BY <1>2, <1>5 DEF Levels
      <3>2. Weight(input.code[pos].op) = -1  BY <1>1 DEF Weight, BlockOps
      <3>3. Excess(input, Function.start_addr, pos + 1) =
              Excess(input, Function.start_addr, pos) + Weight(input.code[pos].op)
        BY <1>2, <2>1, ExcessStep
      <3> QED  BY <3>1, <3>2, <3>3
    <2>3. ~Balanced(input, Function)  BY <2>1, <2>2 DEF Balanced, Placed
    <2> QED  BY <1>1, <1>5, <2>3, Stopping
  <1>6. CASE /\ ~EndsFunction /\ top >= 0
             /\ blocks' = [blocks EXCEPT ![blockstack[top]] = Closed(@)]
             /\ top' = top - 1 /\ SkipImmediate
             /\ UNCHANGED <<input, f, blockstack, status>>
    <2>1. Within' => Levels'  BY <1>1, <1>6, LevelsAfterEnd
    <2>2. Recorded'
      <3>1. \A b \in DOMAIN blocks :
              b \in DOMAIN blocks' /\ blocks'[b].block_type = blocks[b].block_type
        <4>1. \A b \in DOMAIN blocks : blocks[b] \in FoundBlock
          BY DEF FindBlocksInv, TypeOK, FoundBlock
        <4>2. \A b \in FoundBlock : Closed(b).block_type = b.block_type
          BY DEF FoundBlock, Closed
        <4> QED  BY <1>6, <4>1, <4>2
      <3>2. \A i \in 0 .. top' : i \in 0 .. top  BY <1>2, <1>6
      <3> QED  BY <1>2, <1>6, <3>1, <3>2 DEF Recorded
    <2>3. pos # Function.end_addr  BY <1>6 DEF EndsFunction
    <2> QED  BY <1>1, <1>3, <1>6, <2>1, <2>2, <2>3, Forward
  <1> QED  BY <1>4, <1>5, <1>6 DEF End

LEMMA StepOther ==
  ASSUME FindBlocksInv, OtherInstruction
  PROVE  (Scanning /\ Earlier /\ Stopped)'
  <1>1. /\ status = "scanning" /\ Within /\ input.code[pos].op \notin BlockOps
        /\ input.code[pos].op # "end" /\ input.code[pos].op # "else"
        /\ opcode' = input.code[pos].op /\ SkipImmediate
        /\ UNCHANGED <<input, f, blockstack, top, blocks, status>>
    BY DEF OtherInstruction, Scan, Within
  <1>2. Levels /\ Recorded /\ top \in Int /\ -1 <= top
    BY <1>1, InstructionFacts, InputFacts
  <1>3. Within' => Levels'  BY <1>1, LevelsAfterOther
  <1>4. Placed(input, Function, pos)  BY <1>1, <1>2 DEF Placed, Levels
  <1>5. Recorded'  BY <1>1, <1>2 DEF Recorded
  <1> QED  BY <1>1, <1>3, <1>4, <1>5, Forward

LEMMA StepDone ==
  ASSUME FindBlocksInv, FunctionDone
  PROVE  (Scanning /\ Earlier /\ Stopped)'
  <1>1. /\ status = "scanning" /\ ~Within /\ pos > Function.end_addr
        /\ UNCHANGED <<input, opcode, blockstack, top, blocks>>
    BY InputFacts DEF FunctionDone, Within, FindBlocksInv, TypeOK
  <1>2. /\ Decoded(input) /\ Numbered(input) /\ Chained(input, Function)
        /\ Function.start_addr \in Nat /\ Function.end_addr \in Nat
        /\ f \in Nat /\ f \in DOMAIN input.range /\ top \in Int /\ pos \in Nat
        /\ Seen /\ Recorded /\ Earlier
        /\ HasCode(Function) => PastEnd
    BY <1>1, InputFacts DEF FindBlocksInv, TypeOK, Scanning
  <1>3. CASE ~Complete /\ status' = "exited" /\ UNCHANGED <<f, pos>>
    <2>1. ASSUME Balanced(input, Function)  PROVE FALSE
      <3>1. HasCode(Function)  BY <1>2, <2>1 DEF Balanced, Chained
      <3>2. opcode = "end" /\ Excess(input, Function.start_addr, Function.end_addr) = top + 1
        BY <1>2, <2>1, <3>1 DEF PastEnd, Balanced
      <3>3. top = -1  BY <1>2, <2>1, <3>2 DEF Balanced
      <3> QED  BY <1>3, <3>2, <3>3 DEF Complete
    <2>2. Scanning'  BY <1>3 DEF Scanning
    <2>3. Earlier'  BY <1>1, <1>2, <1>3 DEF Earlier
    <2>4. Stopped'  BY <1>1, <1>3, <2>1 DEF Stopped, Function
    <2> QED  BY <2>2, <2>3, <2>4
  <1>4. ASSUME Complete, f' = f + 1
        PROVE  \A g \in DOMAIN input.range :
                 g < f' /\ HasCode(input.range[g]) => Balanced(input, input.range[g])
    <2> SUFFICES ASSUME NEW g \in DOMAIN input.range, g < f + 1, HasCode(input.range[g])
                 PROVE  Balanced(input, input.range[g])
      BY <1>4
    <2>1. CASE g < f  BY <1>2, <2>1 DEF Earlier
    <2>2. CASE g = f
      <3>1. HasCode(Function) /\ PastEnd  BY <1>2, <2>2 DEF Function
      <3>2. /\ Function.end_addr \in DOMAIN input.code
            /\ input.code[Function.end_addr].op = "end"
            /\ Excess(input, Function.start_addr, Function.end_addr) = 0
        BY <1>2, <1>4, <3>1 DEF PastEnd, Complete
      <3>3. \A a \in Scanned(input, Function) : Placed(input, Function, a)
        <4> TAKE a \in Scanned(input, Function)
        <4>1. a \in Nat /\ a <= Function.end_addr  BY <1>2 DEF Scanned, Decoded
        <4> QED  BY <1>1, <1>2, <4>1 DEF Seen
      <3> QED  BY <2>2, <3>2, <3>3 DEF Balanced, Function
    <2>3. g \in Nat  BY <1>2 DEF Numbered
    <2> QED  BY <1>2, <2>1, <2>2, <2>3
  <1>5. CASE Complete /\ f' = f + 1 /\ f + 1 \in DOMAIN input.range
             /\ pos' = input.range[f + 1].start_addr /\ UNCHANGED status
    <2>1. Function' = input.range[f + 1] /\ pos' = Function'.start_addr /\ input' = input
      BY <1>1, <1>5 DEF Function
    <2>2. IsInput(input) /\ Chained(input, Function')
      BY <1>5, <2>1, InputsAssumption DEF FindBlocksInv, IsInput
    <2>3. top' = -1 /\ \A i \in 0 .. -1 : FALSE  BY <1>1, <1>5 DEF Complete
    <2>4. Seen'
      <3>1. \A a \in Scanned(input, Function') : ~(a < pos')
        BY <2>1, <2>2 DEF Scanned, Decoded, IsInput, Chained
      <3> QED  BY <2>1, <3>1 DEF Seen
    <2>5. Recorded'  BY <2>3 DEF Recorded
    <2>6. Within' <=> HasCode(Function')  BY <2>1 DEF Within, HasCode
    <2>7. ASSUME Within'  PROVE pos' \in Scanned(input, Function)' /\ Levels'
      <3>1. /\ pos' \in Scanned(input, Function') /\ Excess(input, Function'.start_addr, pos') = 0
            /\ OpenAt(input, Function', pos') = {}
        BY <2>1, <2>2, <2>6, <2>7, InitialFunction
      <3>2. {blockstack'[i] : i \in 0 .. top'} = {}  BY <2>3
      <3> QED  BY <2>1, <2>3, <3>1, <3>2 DEF Levels
    <2>8. Scanning'  BY <1>5, <2>1, <2>4, <2>5, <2>6, <2>7 DEF Scanning
    <2>9. Earlier'  BY <1>1, <1>4, <1>5 DEF Earlier
    <2>10. Stopped'  BY <1>1, <1>5 DEF Stopped
    <2> QED  BY <2>8, <2>9, <2>10
  <1>6. CASE Complete /\ f' = f + 1 /\ f + 1 \notin DOMAIN input.range
             /\ status' = "loaded" /\ UNCHANGED pos
    <2>1. ASSUME NEW g \in DOMAIN input.range  PROVE g < f + 1
      <3>1. g \in Nat /\ input.import_func_count .. g \subseteq DOMAIN input.range
        BY <1>2 DEF Numbered
      <3>2. input.import_func_count \in Nat /\ input.import_func_count <= f
        BY <1>1, InputFacts DEF FindBlocksInv
      <3>3. SUFFICES ASSUME f + 1 <= g PROVE FALSE  BY <1>2, <3>1
      <3>4. f + 1 \in input.import_func_count .. g  BY <1>2, <3>1, <3>2, <3>3
      <3> QED  BY <1>6, <3>1, <3>4
    <2>2. Scanning'  BY <1>6 DEF Scanning
    <2>3. Earlier'  BY <1>1, <1>4, <1>6, <2>1 DEF Earlier
    <2>4. Stopped'  BY <1>6 DEF Stopped
    <2> QED  BY <2>2, <2>3, <2>4
  <1> QED  BY <1>3, <1>5, <1>6 DEF FunctionDone

-----------------------------------------------------------------------------
LEMMA FindBlocksInit ==
  ASSUME Init
  PROVE  FindBlocksInv
  <1>1. /\ IsInput(input) /\ f \in DOMAIN input.range /\ Function = input.range[f]
        /\ f = input.import_func_count /\ f \in Nat /\ pos = Function.start_addr
        /\ status = "scanning" /\ top = -1 /\ Chained(input, Function) /\ pos \in Nat
    BY InputsAssumption DEF Init, Function, IsInput, Chained
  <1>2. TypeOK
    <2>1. BLOCKSTACK_SIZE \in Nat \ {0}  BY BlockStackSizeAssumption
    <2>2. blockstack \in [0 .. BLOCKSTACK_SIZE - 1 -> Nat] /\ DOMAIN blocks = {}  BY DEF Init
    <2>3. opcode \in Ops  BY DEF Init, Ops, JumpOps
    <2> QED  BY <1>1, <2>1, <2>2, <2>3 DEF TypeOK
  <1>3. \A i \in 0 .. top : FALSE  BY <1>1
  <1>4. Seen  BY <1>1 DEF Seen, Scanned, IsInput, Decoded
  <1>5. Recorded  BY <1>3 DEF Recorded
  <1>6. Within <=> HasCode(Function)  BY <1>1 DEF Within, HasCode
  <1>7. ASSUME Within  PROVE pos \in Scanned(input, Function) /\ Levels
    <2>1. /\ pos \in Scanned(input, Function) /\ Excess(input, Function.start_addr, pos) = 0
          /\ OpenAt(input, Function, pos) = {}
      BY <1>1, <1>6, <1>7, InitialFunction
    <2>2. {blockstack[i] : i \in 0 .. top} = {}  BY <1>3
    <2> QED  BY <1>1, <1>3, <2>1, <2>2 DEF Levels
  <1>8. Scanning  BY <1>1, <1>4, <1>5, <1>6, <1>7 DEF Scanning
  <1>9. Earlier
    <2>1. \A g \in DOMAIN input.range : ~(g < f)  BY <1>1 DEF IsInput, Numbered
    <2> QED  BY <1>1, <2>1 DEF Earlier
  <1>10. Stopped  BY <1>1 DEF Stopped
  <1>11. input \in Inputs /\ input.import_func_count <= f  BY <1>1 DEF Init
  <1> QED  BY <1>2, <1>8, <1>9, <1>10, <1>11 DEF FindBlocksInv

LEMMA FindBlocksStep ==
  ASSUME FindBlocksInv, [Next]_vars
  PROVE  FindBlocksInv'
  <1>1. (Scanning /\ Earlier /\ Stopped)'
    <2>1. CASE Open  BY <2>1, StepOpen
    <2>2. CASE Else  BY <2>2, StepElse
    <2>3. CASE End  BY <2>3, StepEnd
    <2>4. CASE OtherInstruction  BY <2>4, StepOther
    <2>5. CASE FunctionDone  BY <2>5, StepDone
    <2>6. CASE UNCHANGED vars
      <3>1. Function' = Function /\ (Within' <=> Within) /\ (Seen' <=> Seen)
            /\ (Levels' <=> Levels) /\ (Recorded' <=> Recorded) /\ (PastEnd' <=> PastEnd)
        BY <2>6 DEF vars, Function, Within, Seen, Levels, Recorded, PastEnd
      <3> QED  BY <2>6, <3>1 DEF vars, FindBlocksInv, Scanning, Earlier, Stopped
    <2> QED  BY <2>1, <2>2, <2>3, <2>4, <2>5, <2>6 DEF Next
  <1>2. TypeOK'  BY TypeStep
  <1>3. (input \in Inputs /\ input.import_func_count <= f)'
    <2>1. input' = input /\ f \in Int /\ (f' = f \/ f' = f + 1)
      BY DEF FindBlocksInv, TypeOK, Next, Open, Else, End, OtherInstruction, FunctionDone,
             Stop, vars
    <2>2. input.import_func_count \in Nat  BY InputsAssumption DEF FindBlocksInv, IsInput
    <2> QED  BY <2>1, <2>2 DEF FindBlocksInv
  <1> QED  BY <1>1, <1>2, <1>3 DEF FindBlocksInv

(* At every step of find_blocks the counts of the reference are those of   *)
(* its stack.                                                              *)
THEOREM FindBlocksInvariant == Spec => []FindBlocksInv
  <1>1. Init => FindBlocksInv  BY FindBlocksInit
  <1>2. FindBlocksInv /\ [Next]_vars => FindBlocksInv'  BY FindBlocksStep
  <1> QED  BY <1>1, <1>2, PTL DEF Spec

(* No access of find_blocks leaves blockstack but the one that status      *)
(* "undefined" stands for, and block_lookup has addresses of instructions  *)
(* only.                                                                   *)
THEOREM FindBlocksTypes == Spec => []TypeOK
  <1>1. FindBlocksInv => TypeOK  BY DEF FindBlocksInv
  <1> QED  BY <1>1, FindBlocksInvariant, PTL

(* For code of every length blockstack[0..top] is the blocks open around   *)
(* the instruction that find_blocks reads, outermost first.                *)
THEOREM StackIsTheOpenBlocks == Spec => []StackHoldsOpenBlocks
  <1>1. FindBlocksInv => StackHoldsOpenBlocks
    BY DEF FindBlocksInv, Scanning, StackHoldsOpenBlocks, Levels, Within
  <1> QED  BY <1>1, FindBlocksInvariant, PTL

(* The ASSERTs of find_blocks stop the modules with a body that is not     *)
(* balanced and no others, for any number of functions, unless more blocks *)
(* are nested than blockstack has entries.                                 *)
THEOREM AssertsTellBalancedBodies == Spec => []AcceptsExactlyBalanced
  <1>1. FindBlocksInv => AcceptsExactlyBalanced
    BY DEF FindBlocksInv, Earlier, Stopped, AcceptsExactlyBalanced
  <1> QED  BY <1>1, FindBlocksInvariant, PTL
-----------------------------------------------------------------------------
(***************************************************************************)
(* What is found agrees with the nesting: the blocks around an instruction *)
(* that has been scanned, and the addresses of a block that is closed.     *)
(***************************************************************************)
Visited(a) ==
  \/ FunctionAt(input, a) < f
  \/ FunctionAt(input, a) = f /\ a < pos

OnStack == {blockstack[i] : i \in 0 .. top}

(* s lists the n blocks open at a, outermost first.                        *)
Lists(in, s, n, a) ==
  /\ {s[i] : i \in 0 .. n - 1} = OpenAround(in, a)
  /\ \A i, j \in 0 .. n - 1 : i < j => s[i] < s[j]
  /\ \A i \in 0 .. n - 1 : Excess(in, s[i], a) = n - i
  /\ \A i \in 0 .. n - 1 : OpenAround(in, s[i]) = {s[j] : j \in 0 .. i - 1}

Listed(in, a) == \E n \in Nat : \E s \in [0 .. n - 1 -> Nat] : Lists(in, s, n, a)

InnermostAt(in, a) == Innermost(OpenAround(in, a))

(* An instruction of the function of b, in the body of b itself.           *)
Belongs(in, a, b) ==
  /\ a \in DOMAIN in.code /\ FunctionAt(in, a) = FunctionAt(in, b)
  /\ OpenAround(in, a) # {} /\ InnermostAt(in, a) = b

EndOfFunction(in, a) == a = in.range[FunctionAt(in, a)].end_addr

ClosingEnd(a) ==
  /\ OpenAround(input, a) # {}
  /\ InnermostAt(input, a) \in DOMAIN blocks \ OnStack
  /\ blocks[InnermostAt(input, a)].end_addr = a

FoundOpener(b) ==
  /\ Visited(b) /\ input.code[b].op \in BlockOps
  /\ blocks[b].block_type = input.code[b].op /\ blocks[b].start_addr = b

FoundElse(b) ==
  LET a == blocks[b].else_addr - 1 IN
  blocks[b].else_addr # 0 => Belongs(input, a, b) /\ input.code[a].op = "else"

FoundEnd(b) ==
  LET e == blocks[b].end_addr IN
  /\ Belongs(input, e, b) /\ input.code[e].op = "end" /\ ~EndOfFunction(input, e)
  /\ blocks[b].br_addr = IF input.code[b].op = "loop" THEN b + 2 ELSE e

Instructions ==
  \A a \in DOMAIN input.code : Visited(a) =>
    /\ Listed(input, a)
    /\ input.code[a].op \in BlockOps => a \in DOMAIN blocks
    /\ input.code[a].op = "end" /\ ~EndOfFunction(input, a) => ClosingEnd(a)

Found ==
  \A b \in DOMAIN blocks :
    FoundOpener(b) /\ FoundElse(b) /\ (b \notin OnStack => FoundEnd(b))

(* Of the blocks on the stack each has those below it around itself.       *)
Layered ==
  Within => \A i \in 0 .. top : OpenAround(input, blockstack[i]) = {blockstack[j] : j \in 0 .. i - 1}

Ended ==
  LET e == Function.end_addr IN
  ~Within /\ HasCode(Function) /\ e \in DOMAIN input.code /\ input.code[e].op = "end" =>
    OpenAround(input, e) = OnStack

EarlierEnds ==
  \A g \in DOMAIN input.range :
    g < f /\ HasCode(input.range[g]) => OpenAround(input, input.range[g].end_addr) = {}

NestingInv ==
  status \in {"scanning", "loaded"} =>
    /\ Instructions /\ Found /\ EarlierEnds
    /\ status = "scanning" => Layered /\ Ended
    /\ status = "loaded" => top = -1
LEMMA FunctionAtIs ==
  ASSUME NEW in, IsInput(in), NEW g \in DOMAIN in.range, NEW a \in Scanned(in, in.range[g])
  PROVE  /\ FunctionAt(in, a) = g /\ a \in DOMAIN in.code /\ a \in Nat /\ g \in Nat
         /\ OpenAround(in, a) = OpenAt(in, in.range[g], a)
  <1>1. \A h \in DOMAIN in.range : a \in Scanned(in, in.range[h]) => h = g
    BY DEF IsInput, Separate
  <1>2. FunctionAt(in, a) = g  BY <1>1 DEF FunctionAt
  <1> QED  BY <1>2 DEF OpenAround, Scanned, IsInput, Decoded, Numbered

LEMMA InFunction ==
  ASSUME NEW in, IsInput(in), NEW a \in DOMAIN in.code
  PROVE  /\ FunctionAt(in, a) \in DOMAIN in.range /\ FunctionAt(in, a) \in Nat
         /\ a \in Scanned(in, in.range[FunctionAt(in, a)]) /\ a \in Nat
         /\ Chained(in, in.range[FunctionAt(in, a)])
  <1>1. \E g \in DOMAIN in.range : a \in Scanned(in, in.range[g])  BY DEF IsInput, Separate
  <1>2. FunctionAt(in, a) \in DOMAIN in.range /\ a \in Scanned(in, in.range[FunctionAt(in, a)])
    BY <1>1 DEF FunctionAt
  <1> QED  BY <1>2 DEF IsInput, Numbered, Decoded

LEMMA AroundFacts ==
  ASSUME NEW in, IsInput(in), NEW a \in DOMAIN in.code, NEW b \in OpenAround(in, a)
  PROVE  /\ b \in DOMAIN in.code /\ b \in Nat /\ b < a /\ in.code[b].op \in BlockOps
         /\ FunctionAt(in, b) = FunctionAt(in, a)
  <1> DEFINE g == FunctionAt(in, a)
             r == in.range[g]
  <1>1. g \in DOMAIN in.range /\ a \in Scanned(in, r) /\ a \in Nat /\ Chained(in, r)
    BY InFunction
  <1>2. b \in DOMAIN in.code /\ b \in Nat /\ b < a /\ in.code[b].op \in BlockOps
        /\ r.start_addr <= b
    BY DEF OpenAround, OpenAt, With, IsInput, Decoded
  <1>3. b \in Scanned(in, r)  BY <1>1, <1>2 DEF Scanned, Chained
  <1> QED  BY <1>1, <1>2, <1>3, FunctionAtIs

LEMMA ScanFacts ==
  ASSUME FindBlocksInv, status = "scanning"
  PROVE  /\ IsInput(input) /\ f \in DOMAIN input.range /\ f \in Nat /\ pos \in Nat
         /\ Within => /\ FunctionAt(input, pos) = f /\ pos \in DOMAIN input.code
                      /\ ~Visited(pos) /\ (EndOfFunction(input, pos) <=> EndsFunction)
                      /\ OpenAround(input, pos) = OpenAt(input, Function, pos)
                      /\ OpenAround(input, pos) = OnStack
         /\ \A i \in 0 .. top : blockstack[i] \in DOMAIN blocks
  <1>1. IsInput(input) /\ f \in DOMAIN input.range /\ f \in Nat /\ pos \in Nat
    BY InputsAssumption, InputFacts DEF FindBlocksInv, TypeOK
  <1>2. ASSUME Within
        PROVE  /\ FunctionAt(input, pos) = f /\ pos \in DOMAIN input.code
               /\ ~Visited(pos) /\ (EndOfFunction(input, pos) <=> EndsFunction)
               /\ OpenAround(input, pos) = OpenAt(input, Function, pos)
               /\ OpenAround(input, pos) = OnStack
    <2>1. pos \in Scanned(input, input.range[f]) /\ Levels
      BY <1>2, InstructionFacts DEF Function
    <2>2. FunctionAt(input, pos) = f /\ pos \in DOMAIN input.code
          /\ OpenAround(input, pos) = OpenAt(input, input.range[f], pos)
      BY <1>1, <2>1, FunctionAtIs
    <2>3. ~Visited(pos)  BY <1>1, <2>2 DEF Visited
    <2> QED
      BY <1>1, <2>1, <2>2, <2>3 DEF EndOfFunction, EndsFunction, Function, Levels, OnStack
  <1>3. \A i \in 0 .. top : blockstack[i] \in DOMAIN blocks
    BY DEF FindBlocksInv, Scanning, Recorded
  <1> QED  BY <1>1, <1>2, <1>3

(* The stack lists the blocks open at the instruction that is read.        *)
LEMMA StackLists ==
  ASSUME FindBlocksInv, status = "scanning", Within, Layered
  PROVE  Listed(input, pos)
  <1> DEFINE s == [i \in 0 .. top |-> blockstack[i]]
  <1>1. Levels /\ top \in Int /\ -1 <= top /\ IsInput(input)
    BY InputFacts, InstructionFacts, ScanFacts
  <1>2. OpenAround(input, pos) = OpenAt(input, Function, pos)  BY ScanFacts
  <1>3. \A i \in 0 .. top : blockstack[i] \in Nat  BY OpenBlocks
  <1>4. top + 1 \in Nat /\ 0 .. (top + 1) - 1 = 0 .. top  BY <1>1
  <1>5. s \in [0 .. (top + 1) - 1 -> Nat]  BY <1>3, <1>4
  <1>6. Lists(input, s, top + 1, pos)
    <2>1. {s[i] : i \in 0 .. top} = OpenAround(input, pos)  BY <1>1, <1>2 DEF Levels
    <2>2. \A i, j \in 0 .. top : i < j => s[i] < s[j]  BY <1>1 DEF Levels
    <2>3. \A i \in 0 .. top : Excess(input, s[i], pos) = (top + 1) - i
      <3> TAKE i \in 0 .. top
      <3>1. Excess(input, blockstack[i], pos) = top - i + 1  BY <1>1 DEF Levels
      <3> QED  BY <1>1, <3>1
    <2>4. \A i \in 0 .. top : OpenAround(input, s[i]) = {s[j] : j \in 0 .. i - 1}
      <3> TAKE i \in 0 .. top
      <3>1. OpenAround(input, blockstack[i]) = {blockstack[j] : j \in 0 .. i - 1}
        BY DEF Layered
      <3>2. \A j \in 0 .. i - 1 : j \in 0 .. top  BY <1>1
      <3> QED  BY <3>1, <3>2
    <2> HIDE DEF s
    <2> QED  BY <1>4, <2>1, <2>2, <2>3, <2>4 DEF Lists
  <1> HIDE DEF s
  <1> QED  BY <1>4, <1>5, <1>6 DEF Listed
LEMMA VisitedNext ==
  ASSUME FindBlocksInv, status = "scanning", Within, SkipImmediate, UNCHANGED <<input, f>>,
         NEW a \in DOMAIN input.code
  PROVE  Visited(a)' <=> Visited(a) \/ a = pos
  <1>1. /\ IsInput(input) /\ f \in DOMAIN input.range /\ f \in Nat /\ pos \in Nat
        /\ FunctionAt(input, pos) = f
    BY ScanFacts
  <1>2. /\ input' = input /\ f' = f /\ pos' \in Nat /\ pos < pos'
    BY InstructionFacts DEF SkipImmediate
  <1>3. FunctionAt(input, a) \in Nat /\ a \in Nat
        /\ a \in Scanned(input, input.range[FunctionAt(input, a)])
    BY <1>1, InFunction
  <1>4. FunctionAt(input, a) = f => (a < pos' <=> a < pos \/ a = pos)
    <2>1. FunctionAt(input, a) = f /\ a < pos' => a <= pos
      BY <1>3, NextFollows DEF Function
    <2> QED  BY <1>1, <1>2, <1>3, <2>1
  <1> QED  BY <1>1, <1>2, <1>3, <1>4 DEF Visited

LEMMA NestingForward ==
  ASSUME FindBlocksInv, NestingInv, status = "scanning", Within, SkipImmediate,
         UNCHANGED <<input, f, status>>,
         DOMAIN blocks \subseteq DOMAIN blocks',
         input.code[pos].op \in BlockOps => pos \in DOMAIN blocks',
         \A a : a = pos /\ input.code[a].op = "end" /\ ~EndsFunction => ClosingEnd(a)',
         input.code[pos].op = "end" /\ EndsFunction => OnStack' = OnStack,
         \A a \in DOMAIN input.code :
           ClosingEnd(a) /\ InnermostAt(input, a) # pos => ClosingEnd(a)',
         Found', Within' => Layered'
  PROVE  NestingInv'
  <1>1. /\ Instructions /\ Found /\ EarlierEnds /\ Layered
        /\ IsInput(input) /\ f \in DOMAIN input.range /\ f \in Nat /\ pos \in Nat
        /\ pos \in DOMAIN input.code /\ ~Visited(pos)
        /\ (EndOfFunction(input, pos) <=> EndsFunction)
        /\ OpenAround(input, pos) = OnStack
    BY ScanFacts DEF NestingInv
  <1>2. input' = input /\ f' = f /\ status' = "scanning" /\ Function' = Function
    BY DEF Function
  <1>3. Listed(input, pos)  BY <1>1, StackLists
  <1>4. Instructions'
    <2> SUFFICES ASSUME NEW a \in DOMAIN input.code, Visited(a)'
                 PROVE  /\ Listed(input, a)
                        /\ input.code[a].op \in BlockOps => a \in DOMAIN blocks'
                        /\ input.code[a].op = "end" /\ ~EndOfFunction(input, a) =>
                             ClosingEnd(a)'
      BY <1>2 DEF Instructions
    <2>1. CASE a = pos  BY <1>1, <1>3, <2>1
    <2>2. CASE a # pos
      <3>1. Visited(a)  BY <2>2, VisitedNext
      <3>2. ASSUME ClosingEnd(a)  PROVE InnermostAt(input, a) # pos
        BY <1>1, <3>2 DEF ClosingEnd, Found, FoundOpener
      <3> QED  BY <1>1, <3>1, <3>2 DEF Instructions
    <2> QED  BY <2>1, <2>2
  <1>5. Ended'
    <2> DEFINE e == Function.end_addr
    <2> SUFFICES ASSUME ~Within', e \in DOMAIN input.code, input.code[e].op = "end"
                 PROVE  OpenAround(input, e) = OnStack'
      BY <1>2 DEF Ended
    <2>1. pos = e  BY NextFollows
    <2> QED  BY <1>1, <2>1 DEF EndsFunction
  <1>6. EarlierEnds'  BY <1>1, <1>2 DEF EarlierEnds
  <1>7. Layered'
    <2>1. CASE Within'  BY <2>1
    <2>2. CASE ~Within'  BY <2>2 DEF Layered
    <2> QED  BY <2>1, <2>2
  <1> QED  BY <1>2, <1>4, <1>5, <1>6, <1>7 DEF NestingInv

LEMMA NestingOpen ==
  ASSUME FindBlocksInv, NestingInv, Open
  PROVE  NestingInv'
  <1>1. status = "scanning" /\ Within /\ input.code[pos].op \in BlockOps
    BY DEF Open, Scan, Within
  <1>2. CASE Stop("exited") \/ Stop("undefined")
    BY <1>2 DEF Stop, NestingInv
  <1>3. CASE /\ Typed /\ Room /\ top' = top + 1
             /\ blockstack' = [blockstack EXCEPT ![top + 1] = pos]
             /\ blocks' = [a \in DOMAIN blocks \cup {pos} |->
                             IF a = pos THEN NewBlock(input.code[pos], pos) ELSE blocks[a]]
             /\ SkipImmediate /\ UNCHANGED <<input, f, status>>
    <2>1. /\ Found /\ Layered /\ pos \in DOMAIN input.code /\ ~Visited(pos)
          /\ OpenAround(input, pos) = OnStack /\ top \in Int /\ -1 <= top /\ input' = input
          /\ pos \in Nat
      BY <1>1, <1>3, ScanFacts, InputFacts DEF NestingInv
    <2>2. /\ \A i \in 0 .. top : blockstack'[i] = blockstack[i]
          /\ blockstack'[top + 1] = pos
      <3>1. /\ blockstack \in [0 .. BLOCKSTACK_SIZE - 1 -> Nat]
            /\ top \in -1 .. BLOCKSTACK_SIZE - 1 /\ BLOCKSTACK_SIZE \in Nat
        BY BlockStackSizeAssumption DEF FindBlocksInv, TypeOK
      <3> QED  BY <1>3, <3>1 DEF Room
    <2>3. 0 .. top' = (0 .. top) \cup {top + 1}  BY <1>3, <2>1
    <2>4. OnStack' = OnStack \cup {pos}  BY <2>2, <2>3 DEF OnStack
    <2>5. pos \notin DOMAIN blocks  BY <2>1 DEF Found, FoundOpener
    <2>6. \A a \in DOMAIN input.code :
            ClosingEnd(a) /\ InnermostAt(input, a) # pos => ClosingEnd(a)'
      BY <1>3, <2>1, <2>4 DEF ClosingEnd
    <2>7. Found'
      <3> SUFFICES ASSUME NEW b \in DOMAIN blocks'
                   PROVE  FoundOpener(b)' /\ FoundElse(b)' /\ (b \notin OnStack' => FoundEnd(b)')
        BY DEF Found
      <3>1. CASE b = pos
        <4>1. blocks'[b] = NewBlock(input.code[pos], pos)  BY <1>3, <3>1
        <4>2. Visited(b)'  BY <1>1, <1>3, <2>1, <3>1, VisitedNext
        <4> QED  BY <1>1, <2>1, <2>4, <3>1, <4>1, <4>2 DEF FoundOpener, FoundElse, NewBlock
      <3>2. CASE b # pos
        <4>1. b \in DOMAIN blocks /\ blocks'[b] = blocks[b] /\ (b \in OnStack <=> b \in OnStack')
          BY <1>3, <2>4, <3>2
        <4>2. b \in DOMAIN input.code  BY <4>1 DEF FindBlocksInv, TypeOK
        <4>3. Visited(b)'
          BY <1>1, <1>3, <2>1, <4>1, <4>2, VisitedNext DEF Found, FoundOpener
        <4> QED  BY <2>1, <4>1, <4>3 DEF Found, FoundOpener, FoundElse, FoundEnd
      <3> QED  BY <3>1, <3>2
    <2>8. Layered'
      <3> SUFFICES ASSUME NEW i \in 0 .. top'
                   PROVE  OpenAround(input, blockstack'[i]) = {blockstack'[j] : j \in 0 .. i - 1}
        BY <2>1 DEF Layered
      <3>1. \A j \in 0 .. i - 1 : j \in 0 .. top /\ blockstack'[j] = blockstack[j]
        BY <1>3, <2>1, <2>2
      <3>2. CASE i \in 0 .. top
        BY <1>1, <2>1, <2>2, <3>1, <3>2 DEF Layered
      <3>3. CASE i = top + 1
        <4>1. 0 .. i - 1 = 0 .. top  BY <2>1, <3>3
        <4> QED  BY <2>1, <2>2, <3>1, <3>3, <4>1 DEF OnStack
      <3> QED  BY <2>3, <3>2, <3>3
    <2>9. pos \in DOMAIN blocks' /\ DOMAIN blocks \subseteq DOMAIN blocks'  BY <1>3
    <2>10. input.code[pos].op # "end"  BY <1>1 DEF BlockOps
    <2> QED  BY <1>1, <1>3, <2>6, <2>7, <2>8, <2>9, <2>10, NestingForward
  <1> QED  BY <1>2, <1>3 DEF Open
LEMMA NestingElse ==
  ASSUME FindBlocksInv, NestingInv, Else
  PROVE  NestingInv'
  <1>1. /\ status = "scanning" /\ Within /\ input.code[pos].op = "else"
        /\ input.code[pos].op \notin BlockOps
    BY DEF Else, Scan, Within, BlockOps
  <1>2. CASE Stop("exited") \/ Stop("undefined")
    BY <1>2 DEF Stop, NestingInv
  <1>3. CASE /\ top >= 0 /\ blocks[blockstack[top]].block_type = "if"
             /\ blocks' = [blocks EXCEPT ![blockstack[top]].else_addr = ElseAddr]
             /\ SkipImmediate
             /\ UNCHANGED <<input, f, blockstack, top, status>>
    <2> DEFINE c == blockstack[top]
    <2>1. /\ Found /\ Layered /\ pos \in DOMAIN input.code /\ ~Visited(pos)
          /\ OpenAround(input, pos) = OnStack /\ FunctionAt(input, pos) = f
          /\ OpenAround(input, pos) = OpenAt(input, Function, pos)
          /\ top \in 0 .. top /\ input' = input /\ pos \in Nat /\ IsInput(input)
      BY <1>1, <1>3, ScanFacts, InnermostOpen DEF NestingInv
    <2>2. c \in OnStack /\ c \in DOMAIN blocks /\ OnStack' = OnStack
      BY <1>1, <1>3, <2>1, ScanFacts DEF OnStack
    <2>3. Belongs(input, pos, c)
      <3>1. FunctionAt(input, c) = FunctionAt(input, pos)  BY <2>1, <2>2, AroundFacts
      <3> QED  BY <1>1, <1>3, <2>1, <3>1, InnermostOpen DEF Belongs, InnermostAt
    <2>4. /\ DOMAIN blocks' = DOMAIN blocks
          /\ \A b \in DOMAIN blocks : b # c => blocks'[b] = blocks[b]
          /\ blocks'[c].else_addr = pos + 1
          /\ blocks'[c].block_type = blocks[c].block_type
          /\ blocks'[c].start_addr = blocks[c].start_addr
      <3>1. blocks[c] \in FoundBlock  BY <2>2 DEF FindBlocksInv, TypeOK, FoundBlock
      <3> HIDE DEF c
      <3>2. blocks' = [blocks EXCEPT ![c].else_addr = ElseAddr]  BY <1>3 DEF c
      <3>3. blocks'[c] = [blocks[c] EXCEPT !.else_addr = ElseAddr]  BY <2>2, <3>2
      <3>4. DOMAIN blocks' = DOMAIN blocks
            /\ \A b \in DOMAIN blocks : b # c => blocks'[b] = blocks[b]
        BY <3>2
      <3> QED  BY <3>1, <3>3, <3>4 DEF ElseAddr, FoundBlock
    <2> HIDE DEF c
    <2>5. \A a \in DOMAIN input.code :
            ClosingEnd(a) /\ InnermostAt(input, a) # pos => ClosingEnd(a)'
      BY <2>1, <2>2, <2>4 DEF ClosingEnd
    <2>6. Found'
      <3> SUFFICES ASSUME NEW b \in DOMAIN blocks
                   PROVE  FoundOpener(b)' /\ FoundElse(b)' /\ (b \notin OnStack' => FoundEnd(b)')
        BY <2>4 DEF Found
      <3>1. b \in DOMAIN input.code /\ FoundOpener(b) /\ FoundElse(b)
            /\ (b \notin OnStack => FoundEnd(b))
        BY <2>1 DEF Found, FindBlocksInv, TypeOK
      <3>2. Visited(b)'  BY <1>1, <1>3, <2>1, <3>1, VisitedNext DEF FoundOpener
      <3>3. CASE b = c
        <4>1. blocks'[b].else_addr - 1 = pos  BY <2>1, <2>4, <3>3
        <4> QED  BY <1>1, <2>1, <2>2, <2>3, <2>4, <3>1, <3>2, <3>3, <4>1 DEF FoundOpener, FoundElse
      <3>4. CASE b # c
        BY <2>1, <2>2, <2>4, <3>1, <3>2, <3>4 DEF FoundOpener, FoundElse, FoundEnd
      <3> QED  BY <3>3, <3>4
    <2>7. Within' => Layered'
      <3>1. ASSUME NEW i \in 0 .. top
            PROVE  OpenAround(input, blockstack[i]) = {blockstack[j] : j \in 0 .. i - 1}
        BY <1>1, <2>1 DEF Layered
      <3> QED  BY <1>3, <3>1 DEF Layered
    <2>8. input.code[pos].op # "end" /\ DOMAIN blocks \subseteq DOMAIN blocks'
      BY <1>1, <2>4
    <2> QED  BY <1>1, <1>3, <2>5, <2>6, <2>7, <2>8, NestingForward
  <1> QED  BY <1>2, <1>3 DEF Else

LEMMA NestingOther ==
  ASSUME FindBlocksInv, NestingInv, status = "scanning", Within, SkipImmediate,
         UNCHANGED <<input, f, blockstack, top, blocks, status>>,
         input.code[pos].op \notin BlockOps, input.code[pos].op = "end" => EndsFunction
  PROVE  NestingInv'
  <1>1. Found /\ Layered /\ pos \in DOMAIN input.code /\ input' = input /\ OnStack' = OnStack
    BY ScanFacts DEF NestingInv, OnStack
  <1>2. \A a \in DOMAIN input.code : ClosingEnd(a) => ClosingEnd(a)'
    BY <1>1 DEF ClosingEnd
  <1>3. Found'
    <2> SUFFICES ASSUME NEW b \in DOMAIN blocks
                 PROVE  FoundOpener(b)' /\ FoundElse(b)' /\ (b \notin OnStack' => FoundEnd(b)')
      BY DEF Found
    <2>1. b \in DOMAIN input.code /\ FoundOpener(b) /\ FoundElse(b)
          /\ (b \notin OnStack => FoundEnd(b))
      BY <1>1 DEF Found, FindBlocksInv, TypeOK
    <2>2. Visited(b)'  BY <1>1, <2>1, VisitedNext DEF FoundOpener
    <2> QED  BY <1>1, <2>1, <2>2 DEF FoundOpener, FoundElse, FoundEnd
  <1>4. Within' => Layered'
    <2>1. ASSUME NEW i \in 0 .. top
          PROVE  OpenAround(input, blockstack[i]) = {blockstack[j] : j \in 0 .. i - 1}
      BY <1>1 DEF Layered
    <2> QED  BY <1>1, <2>1 DEF Layered
  <1> QED  BY <1>1, <1>2, <1>3, <1>4, NestingForward

LEMMA NestingEnd ==
  ASSUME FindBlocksInv, NestingInv, End
  PROVE  NestingInv'
  <1>1. /\ status = "scanning" /\ Within /\ input.code[pos].op = "end"
        /\ input.code[pos].op \notin BlockOps
    BY DEF End, Scan, Within, BlockOps
  <1>2. CASE Stop("exited")  BY <1>2 DEF Stop, NestingInv
  <1>3. CASE /\ EndsFunction /\ SkipImmediate
             /\ UNCHANGED <<input, f, blockstack, top, blocks, status>>
    BY <1>1, <1>3, NestingOther
  <1>4. CASE /\ ~EndsFunction /\ top >= 0
             /\ blocks' = [blocks EXCEPT ![blockstack[top]] = Closed(@)]
             /\ top' = top - 1 /\ SkipImmediate
             /\ UNCHANGED <<input, f, blockstack, status>>
    <2> DEFINE c == blockstack[top]
    <2>1. /\ Found /\ Layered /\ pos \in DOMAIN input.code /\ ~Visited(pos)
          /\ OpenAround(input, pos) = OnStack /\ FunctionAt(input, pos) = f
          /\ OpenAround(input, pos) = OpenAt(input, Function, pos)
          /\ (EndOfFunction(input, pos) <=> EndsFunction)
          /\ top \in 0 .. top /\ top \in Nat /\ input' = input /\ pos \in Nat /\ IsInput(input)
      BY <1>1, <1>4, ScanFacts, InnermostOpen, InputFacts DEF NestingInv
    <2>2. c \in OnStack /\ c \in DOMAIN blocks
      BY <1>1, <1>4, <2>1, ScanFacts DEF OnStack
    <2>3. OnStack' = OnStack \ {c}
      <3>1. \A i, j \in 0 .. top : i < j => blockstack[i] < blockstack[j]
        BY <1>1, InstructionFacts DEF Levels
      <3>2. \A i \in 0 .. top : blockstack[i] \in Nat  BY <1>1, OpenBlocks
      <3>3. 0 .. top = (0 .. top - 1) \cup {top}  BY <2>1
      <3>4. \A i \in 0 .. top - 1 : blockstack[i] # c
        BY <2>1, <3>1, <3>2, <3>3
      <3>5. OnStack' = {blockstack[i] : i \in 0 .. top - 1}  BY <1>4 DEF OnStack
      <3> QED  BY <3>3, <3>4, <3>5 DEF OnStack
    <2>4. Belongs(input, pos, c)
      <3>1. FunctionAt(input, c) = FunctionAt(input, pos)  BY <2>1, <2>2, AroundFacts
      <3> QED  BY <1>1, <1>4, <2>1, <3>1, InnermostOpen DEF Belongs, InnermostAt
    <2>5. /\ DOMAIN blocks' = DOMAIN blocks
          /\ \A b \in DOMAIN blocks : b # c => blocks'[b] = blocks[b]
          /\ blocks'[c].else_addr = blocks[c].else_addr
          /\ blocks'[c].block_type = blocks[c].block_type
          /\ blocks'[c].start_addr = blocks[c].start_addr
          /\ blocks'[c].end_addr = pos /\ blocks'[c].br_addr = BrAddr(blocks[c])
      <3>1. blocks[c] \in FoundBlock  BY <2>2 DEF FindBlocksInv, TypeOK, FoundBlock
      <3> HIDE DEF c
      <3>2. blocks' = [blocks EXCEPT ![c] = Closed(blocks[c])]  BY <1>4 DEF c
      <3>3. blocks'[c] = Closed(blocks[c])  BY <2>2, <3>2
      <3>4. DOMAIN blocks' = DOMAIN blocks
            /\ \A b \in DOMAIN blocks : b # c => blocks'[b] = blocks[b]
        BY <3>2
      <3> QED  BY <3>1, <3>3, <3>4 DEF Closed, FoundBlock
    <2>6. Within' => Layered'
      <3>1. ASSUME NEW i \in 0 .. top
            PROVE  OpenAround(input, blockstack[i]) = {blockstack[j] : j \in 0 .. i - 1}
        BY <1>1, <2>1 DEF Layered
      <3>2. \A i \in 0 .. top' : i \in 0 .. top  BY <1>4, <2>1
      <3> QED  BY <1>4, <3>1, <3>2 DEF Layered
    <2> HIDE DEF c
    <2>7. \A a \in DOMAIN input.code :
            ClosingEnd(a) /\ InnermostAt(input, a) # pos => ClosingEnd(a)'
      BY <2>1, <2>2, <2>3, <2>5 DEF ClosingEnd
    <2>8. \A a : a = pos => ClosingEnd(a)'
      BY <2>1, <2>2, <2>3, <2>4, <2>5 DEF ClosingEnd, Belongs
    <2>9. Found'
      <3> SUFFICES ASSUME NEW b \in DOMAIN blocks
                   PROVE  FoundOpener(b)' /\ FoundElse(b)' /\ (b \notin OnStack' => FoundEnd(b)')
        BY <2>5 DEF Found
      <3>1. b \in DOMAIN input.code /\ FoundOpener(b) /\ FoundElse(b)
            /\ (b \notin OnStack => FoundEnd(b))
        BY <2>1 DEF Found, FindBlocksInv, TypeOK
      <3>2. Visited(b)'  BY <1>1, <1>4, <2>1, <3>1, VisitedNext DEF FoundOpener
      <3>3. CASE b = c
        <4>1. FoundOpener(b)' /\ FoundElse(b)'
          BY <2>1, <2>5, <3>1, <3>2, <3>3 DEF FoundOpener, FoundElse
        <4>2. BrAddr(blocks[c]) = IF input.code[b].op = "loop" THEN b + 2 ELSE pos
          BY <3>1, <3>3 DEF BrAddr, FoundOpener
        <4>3. ~EndOfFunction(input, pos)  BY <1>4, <2>1
        <4>4. FoundEnd(b)'  BY <1>1, <2>1, <2>4, <2>5, <3>3, <4>2, <4>3 DEF FoundEnd
        <4> QED  BY <4>1, <4>4
      <3>4. CASE b # c
        BY <2>1, <2>3, <2>5, <3>1, <3>2, <3>4 DEF FoundOpener, FoundElse, FoundEnd
      <3> QED  BY <3>3, <3>4
    <2>10. DOMAIN blocks \subseteq DOMAIN blocks'  BY <2>5
    <2> QED  BY <1>1, <1>4, <2>6, <2>7, <2>8, <2>9, <2>10, NestingForward
  <1> QED  BY <1>2, <1>3, <1>4 DEF End
LEMMA NestingDone ==
  ASSUME FindBlocksInv, NestingInv, FunctionDone
  PROVE  NestingInv'
  <1>1. /\ status = "scanning" /\ ~Within /\ pos > Function.end_addr
        /\ UNCHANGED <<input, opcode, blockstack, top, blocks>> /\ input' = input
        /\ OnStack' = OnStack
    BY InputFacts DEF FunctionDone, Within, FindBlocksInv, TypeOK, OnStack
  <1>2. /\ IsInput(input) /\ f \in DOMAIN input.range /\ f \in Nat /\ pos \in Nat
        /\ Instructions /\ Found /\ EarlierEnds /\ Ended
        /\ HasCode(Function) => PastEnd
    BY <1>1, ScanFacts DEF NestingInv, FindBlocksInv, Scanning
  <1>3. CASE ~Complete /\ status' = "exited" /\ UNCHANGED <<f, pos>>
    BY <1>3 DEF NestingInv
  <1>4. CASE /\ Complete /\ f' = f + 1
             /\ \/ /\ f + 1 \in DOMAIN input.range
                   /\ pos' = input.range[f + 1].start_addr
                   /\ UNCHANGED status
                \/ /\ f + 1 \notin DOMAIN input.range
                   /\ status' = "loaded"
                   /\ UNCHANGED pos
    <2>1. top = -1 /\ OnStack = {}
      <3>1. top = -1 /\ \A i \in 0 .. -1 : FALSE  BY <1>4 DEF Complete
      <3> QED  BY <3>1 DEF OnStack
    <2>2. ASSUME NEW a \in DOMAIN input.code  PROVE Visited(a)' <=> Visited(a)
      <3>1. /\ FunctionAt(input, a) \in DOMAIN input.range /\ FunctionAt(input, a) \in Nat
            /\ a \in Scanned(input, input.range[FunctionAt(input, a)]) /\ a \in Nat
        BY <1>2, InFunction
      <3>2. CASE FunctionAt(input, a) = f
        <4>1. a <= Function.end_addr  BY <3>1, <3>2 DEF Function, Scanned
        <4>2. a < pos  BY <1>1, <1>2, <3>1, <4>1, InputFacts
        <4> QED  BY <1>1, <1>2, <1>4, <3>2, <4>2 DEF Visited
      <3>3. CASE FunctionAt(input, a) = f + 1
        <4>1. f + 1 \in DOMAIN input.range /\ pos' = input.range[f + 1].start_addr
          BY <1>4, <3>1, <3>3
        <4>2. pos' <= a /\ pos' \in Nat
          BY <1>2, <3>1, <3>3, <4>1 DEF Scanned, IsInput, Chained
        <4>3. ~(a < pos')  BY <3>1, <4>2
        <4> QED  BY <1>1, <1>2, <1>4, <3>3, <4>3 DEF Visited
      <3>4. CASE FunctionAt(input, a) # f /\ FunctionAt(input, a) # f + 1
        BY <1>1, <1>2, <1>4, <3>1, <3>4 DEF Visited
      <3> QED  BY <3>2, <3>3, <3>4
    <2>3. Instructions'
      <3>1. \A a \in DOMAIN input.code : ClosingEnd(a) => ClosingEnd(a)'
        BY <1>1 DEF ClosingEnd
      <3> SUFFICES ASSUME NEW a \in DOMAIN input.code, Visited(a)'
                   PROVE  /\ Listed(input, a)
                          /\ input.code[a].op \in BlockOps => a \in DOMAIN blocks'
                          /\ input.code[a].op = "end" /\ ~EndOfFunction(input, a) =>
                               ClosingEnd(a)'
        BY <1>1 DEF Instructions
      <3>2. Visited(a)  BY <2>2
      <3> QED  BY <1>1, <1>2, <3>1, <3>2 DEF Instructions
    <2>4. Found'
      <3> SUFFICES ASSUME NEW b \in DOMAIN blocks
                   PROVE  FoundOpener(b)' /\ FoundElse(b)' /\ (b \notin OnStack' => FoundEnd(b)')
        BY <1>1 DEF Found
      <3>1. b \in DOMAIN input.code /\ FoundOpener(b) /\ FoundElse(b)
            /\ (b \notin OnStack => FoundEnd(b))
        BY <1>2 DEF Found, FindBlocksInv, TypeOK
      <3>2. Visited(b)'  BY <2>2, <3>1 DEF FoundOpener
      <3> QED  BY <1>1, <3>1, <3>2 DEF FoundOpener, FoundElse, FoundEnd
    <2>5. EarlierEnds'
      <3> SUFFICES ASSUME NEW g \in DOMAIN input.range, g < f + 1, HasCode(input.range[g])
                   PROVE  OpenAround(input, input.range[g].end_addr) = {}
        BY <1>1, <1>4 DEF EarlierEnds
      <3>1. g \in Nat  BY <1>2 DEF IsInput, Numbered
      <3>2. CASE g < f  BY <1>2, <3>2 DEF EarlierEnds
      <3>3. CASE g = f
        <4>1. HasCode(Function) /\ PastEnd /\ opcode = "end"
          BY <1>2, <1>4, <3>3 DEF Function, Complete
        <4>2. Function.end_addr \in DOMAIN input.code
              /\ input.code[Function.end_addr].op = "end"
          BY <4>1 DEF PastEnd
        <4> QED  BY <1>1, <1>2, <2>1, <3>3, <4>1, <4>2 DEF Ended, Function
      <3> QED  BY <1>2, <3>1, <3>2, <3>3
    <2>6. Layered'
      <3>1. \A i \in 0 .. top' : FALSE  BY <1>1, <2>1
      <3> QED  BY <3>1 DEF Layered
    <2>7. status' = "scanning" => Ended'
      <3> SUFFICES ASSUME status' = "scanning" PROVE Ended'
        OBVIOUS
      <3>1. pos' = Function'.start_addr  BY <1>1, <1>4 DEF Function
      <3>2. Within' <=> HasCode(Function')  BY <3>1 DEF Within, HasCode
      <3> QED  BY <3>2 DEF Ended
    <2> QED  BY <1>1, <2>1, <2>3, <2>4, <2>5, <2>6, <2>7 DEF NestingInv
  <1> QED  BY <1>3, <1>4 DEF FunctionDone

LEMMA NestingInit ==
  ASSUME Init
  PROVE  NestingInv
  <1>1. /\ IsInput(input) /\ f \in DOMAIN input.range /\ f \in Nat
        /\ f = input.import_func_count /\ pos = Function.start_addr /\ pos \in Nat
        /\ status = "scanning" /\ top = -1 /\ DOMAIN blocks = {}
    BY InputsAssumption DEF Init, Function, IsInput, Chained
  <1>2. \A a \in DOMAIN input.code : ~Visited(a)
    <2> TAKE a \in DOMAIN input.code
    <2>1. /\ FunctionAt(input, a) \in DOMAIN input.range /\ FunctionAt(input, a) \in Nat
          /\ a \in Scanned(input, input.range[FunctionAt(input, a)]) /\ a \in Nat
      BY <1>1, InFunction
    <2>2. f <= FunctionAt(input, a)  BY <1>1, <2>1 DEF IsInput, Numbered
    <2>3. FunctionAt(input, a) = f => pos <= a  BY <1>1, <2>1 DEF Scanned, Function
    <2> QED  BY <1>1, <2>1, <2>2, <2>3 DEF Visited
  <1>3. Instructions  BY <1>2 DEF Instructions
  <1>4. Found  BY <1>1 DEF Found
  <1>5. EarlierEnds  BY <1>1 DEF EarlierEnds, IsInput, Numbered
  <1>6. Layered
    <2>1. \A i \in 0 .. top : FALSE  BY <1>1
    <2> QED  BY <2>1 DEF Layered
  <1>7. Ended  BY <1>1 DEF Ended, Within, HasCode
  <1> QED  BY <1>1, <1>3, <1>4, <1>5, <1>6, <1>7 DEF NestingInv

LEMMA NestingStep ==
  ASSUME FindBlocksInv, NestingInv, [Next]_vars
  PROVE  NestingInv'
  <1>1. CASE Open  BY <1>1, NestingOpen
  <1>2. CASE Else  BY <1>2, NestingElse
  <1>3. CASE End  BY <1>3, NestingEnd
  <1>4. CASE OtherInstruction
    BY <1>4, NestingOther DEF OtherInstruction, Scan, Within
  <1>5. CASE FunctionDone  BY <1>5, NestingDone
  <1>6. CASE UNCHANGED vars
    <2>1. /\ (\A a : Visited(a)' <=> Visited(a)) /\ OnStack' = OnStack /\ Function' = Function
          /\ UNCHANGED <<input, blocks, status, f, blockstack, top, pos>>
          /\ (Within' <=> Within)
      BY <1>6 DEF vars, Visited, OnStack, Function, Within
    <2>2. \A a : (ClosingEnd(a)' <=> ClosingEnd(a)) /\ (FoundOpener(a)' <=> FoundOpener(a))
                 /\ (FoundElse(a)' <=> FoundElse(a)) /\ (FoundEnd(a)' <=> FoundEnd(a))
      BY <2>1 DEF ClosingEnd, FoundOpener, FoundElse, FoundEnd
    <2>3. (Instructions' <=> Instructions) /\ (Found' <=> Found)
      BY <2>1, <2>2 DEF Instructions, Found
    <2>4. (Ended' <=> Ended) /\ (EarlierEnds' <=> EarlierEnds)
      BY <2>1 DEF Ended, EarlierEnds
    <2>5. Layered' <=> Layered
      <3>1. blockstack' = blockstack /\ top' = top /\ input' = input  BY <1>6 DEF vars
      <3>2. \A i : {blockstack'[j] : j \in 0 .. i - 1} = {blockstack[j] : j \in 0 .. i - 1}
        BY <3>1
      <3> QED  BY <2>1, <3>1, <3>2 DEF Layered
    <2> QED  BY <2>1, <2>3, <2>4, <2>5 DEF NestingInv
  <1> QED  BY <1>1, <1>2, <1>3, <1>4, <1>5, <1>6 DEF Next

(* Every block found has the end, the else and the branch address of the   *)
(* instructions that are nested in it, and keeps them.                     *)
THEOREM NestingInvariant == Spec => []NestingInv
  <1>1. Init => NestingInv  BY NestingInit
  <1>2. FindBlocksInv /\ NestingInv /\ [Next]_vars => NestingInv'  BY NestingStep
  <1> QED  BY <1>1, <1>2, FindBlocksInvariant, PTL DEF Spec
-----------------------------------------------------------------------------
(***************************************************************************)
(* Listing the blocks around an address gives them their labels: what is   *)
(* at depth k is the one that k others are inside of.                      *)
(***************************************************************************)
LEMMA CountIncreasing ==
  ASSUME NEW s, NEW i \in Nat, NEW j \in Int, i <= j + 1,
         \A x \in i .. j : s[x] \in Nat,
         \A x, y \in i .. j : x < y => s[x] < s[y]
  PROVE  Cardinality({s[x] : x \in i .. j}) = j - i + 1
  <1> DEFINE T == {s[x] : x \in i .. j}
             h == [x \in i .. j |-> s[x]]
  <1>1. IsFiniteSet(i .. j) /\ Cardinality(i .. j) = j - i + 1
    <2>1. i \in Int  OBVIOUS
    <2>2. IsFiniteSet(i .. j) /\ Cardinality(i .. j) = IF i > j THEN 0 ELSE j - i + 1
      BY <2>1, FS_Interval
    <2> QED  BY <2>2
  <1>2. h \in Surjection(i .. j, T)  BY DEF Surjection
  <1>3. h \in Injection(i .. j, T)
    <2>1. \A x, y \in i .. j : h[x] = h[y] => x = y
      <3> TAKE x, y \in i .. j
      <3>1. x < y \/ y < x \/ x = y  OBVIOUS
      <3> QED  BY <3>1
    <2>2. h \in [i .. j -> T]  OBVIOUS
    <2> QED  BY <2>1, <2>2 DEF Injection, IsInjective
  <1> HIDE DEF T, h
  <1>4. Cardinality(T) = Cardinality(i .. j)
    BY <1>1, <1>2, <1>3, FS_Surjection
  <1> QED  BY <1>1, <1>4 DEF T

UpTo(t, i) == {t[j] : j \in 0 .. i}

(* t lists the blocks around b and b itself.                               *)
Layout(in, t, n, b) ==
  /\ n \in Nat /\ t \in [0 .. n -> Nat] /\ t[n] = b
  /\ \A i, j \in 0 .. n : i < j => t[i] < t[j]
  /\ \A i \in 0 .. n : OpenAround(in, t[i]) = {t[j] : j \in 0 .. i - 1}
  /\ \A i \in 0 .. n : t[i] \in DOMAIN in.code /\ FunctionAt(in, t[i]) = FunctionAt(in, b)

LEMMA HasLayout ==
  ASSUME NEW in, IsInput(in), NEW b \in DOMAIN in.code, Listed(in, b)
  PROVE  \E n, t : Layout(in, t, n, b)
  <1>1. PICK n \in Nat : \E s \in [0 .. n - 1 -> Nat] : Lists(in, s, n, b)  BY DEF Listed
  <1>2. PICK s \in [0 .. n - 1 -> Nat] : Lists(in, s, n, b)  BY <1>1
  <1> DEFINE t == [i \in 0 .. n |-> IF i = n THEN b ELSE s[i]]
  <1>3. b \in Nat  BY InFunction
  <1>4. /\ \A i \in 0 .. n - 1 : t[i] = s[i] /\ i \in 0 .. n
        /\ t[n] = b /\ t \in [0 .. n -> Nat] /\ 0 .. n = (0 .. n - 1) \cup {n}
    BY <1>3
  <1> HIDE DEF t
  <1>5. \A i \in 0 .. n - 1 : t[i] \in OpenAround(in, b)  BY <1>2, <1>4 DEF Lists
  <1>6. \A i, j \in 0 .. n : i < j => t[i] < t[j]
    <2> SUFFICES ASSUME NEW i \in 0 .. n, NEW j \in 0 .. n, i < j  PROVE t[i] < t[j]
      OBVIOUS
    <2>1. i \in 0 .. n - 1  OBVIOUS
    <2>2. CASE j = n  BY <1>4, <1>5, <2>1, <2>2, AroundFacts
    <2>3. CASE j \in 0 .. n - 1  BY <1>2, <1>4, <2>1, <2>3 DEF Lists
    <2> QED  BY <1>4, <2>2, <2>3
  <1>7. \A i \in 0 .. n : OpenAround(in, t[i]) = {t[j] : j \in 0 .. i - 1}
    <2> TAKE i \in 0 .. n
    <2>1. \A j \in 0 .. i - 1 : t[j] = s[j]
      <3>1. \A j \in 0 .. i - 1 : j \in 0 .. n - 1  OBVIOUS
      <3> QED  BY <1>4, <3>1
    <2>2. OpenAround(in, t[i]) = {s[j] : j \in 0 .. i - 1}
      <3>1. CASE i = n  BY <1>2, <1>4, <3>1 DEF Lists
      <3>2. CASE i \in 0 .. n - 1  BY <1>2, <1>4, <3>2 DEF Lists
      <3> QED  BY <1>4, <3>1, <3>2
    <2> QED  BY <2>1, <2>2
  <1>8. \A i \in 0 .. n : t[i] \in DOMAIN in.code /\ FunctionAt(in, t[i]) = FunctionAt(in, b)
    <2> TAKE i \in 0 .. n
    <2>1. CASE i = n  BY <1>4, <2>1
    <2>2. CASE i \in 0 .. n - 1  BY <1>5, <2>2, AroundFacts
    <2> QED  BY <1>4, <2>1, <2>2
  <1> QED  BY <1>4, <1>6, <1>7, <1>8 DEF Layout

LEMMA LayoutFacts ==
  ASSUME NEW in, IsInput(in), NEW t, NEW n, NEW b, Layout(in, t, n, b), NEW i \in 0 .. n
  PROVE  /\ Around(in, t[i]) = UpTo(t, i) /\ Cardinality(Around(in, t[i])) = i + 1
         /\ Cardinality(OpenAround(in, t[i])) = i
         /\ i = 0 => OpenAround(in, t[i]) = {}
         /\ i > 0 => OpenAround(in, t[i]) # {} /\ InnermostAt(in, t[i]) = t[i - 1]
  <1>0. /\ n \in Nat /\ \A j \in 0 .. n : t[j] \in Nat
        /\ \A x, y \in 0 .. n : x < y => t[x] < t[y]
        /\ OpenAround(in, t[i]) = {t[j] : j \in 0 .. i - 1}
    BY DEF Layout
  <1>1. 0 .. i = (0 .. i - 1) \cup {i} /\ \A j \in 0 .. i : j \in 0 .. n  BY <1>0
  <1>2. Around(in, t[i]) = {t[j] : j \in 0 .. i}  BY <1>0, <1>1 DEF Around
  <1>3. Cardinality({t[j] : j \in 0 .. i}) = i + 1
    <2>1. 0 \in Nat /\ i \in Int /\ 0 <= i + 1 /\ \A j \in 0 .. i : t[j] \in Nat
      BY <1>0, <1>1
    <2>2. \A x, y \in 0 .. i : x < y => t[x] < t[y]  BY <1>0, <1>1
    <2>3. Cardinality({t[j] : j \in 0 .. i}) = i - 0 + 1
      BY ONLY <2>1, <2>2, CountIncreasing
    <2> QED  BY <2>1, <2>3
  <1>4. Cardinality({t[j] : j \in 0 .. i - 1}) = i
    <2>1. i - 1 \in Int /\ 0 <= (i - 1) + 1 /\ \A j \in 0 .. i - 1 : j \in 0 .. n
      BY <1>0
    <2>2. Cardinality({t[j] : j \in 0 .. i - 1}) = (i - 1) - 0 + 1
      BY <1>0, <2>1, CountIncreasing
    <2> QED  BY <2>2
  <1>5. ASSUME i > 0
        PROVE  OpenAround(in, t[i]) # {} /\ InnermostAt(in, t[i]) = t[i - 1]
    <2>1. i - 1 \in Nat /\ i - 1 \in 0 .. i - 1 /\ \A j \in 0 .. i - 1 : j \in 0 .. n
      BY <1>0, <1>5
    <2>2. Innermost({t[j] : j \in 0 .. i - 1}) = t[i - 1]  BY <1>0, <2>1, InnermostIsTop
    <2> QED  BY <1>0, <2>1, <2>2 DEF InnermostAt
  <1>6. i = 0 => OpenAround(in, t[i]) = {}
    <2>1. \A j \in 0 .. -1 : FALSE  OBVIOUS
    <2> QED  BY <1>0, <2>1
  <1> QED  BY <1>0, <1>2, <1>3, <1>4, <1>5, <1>6 DEF UpTo

LEMMA LabelFacts ==
  ASSUME NEW in, IsInput(in), NEW t, NEW n, NEW b, Layout(in, t, n, b), NEW i \in 0 .. n
  PROVE  /\ \A k \in 0 .. i : Label(in, t[i], k) = t[i - k]
         /\ Label(in, t[i], i + 1) = FuncBlock(FunctionAt(in, b))
  <1>0. /\ n \in Nat /\ \A j \in 0 .. n : t[j] \in Nat
        /\ \A x, y \in 0 .. n : x < y => t[x] < t[y]
        /\ FunctionAt(in, t[i]) = FunctionAt(in, b)
    BY DEF Layout
  <1>a. Around(in, t[i]) = UpTo(t, i) /\ Cardinality(Around(in, t[i])) = i + 1
    BY LayoutFacts
  <1>1. Around(in, t[i]) = {t[j] : j \in 0 .. i} /\ Cardinality(Around(in, t[i])) = i + 1
    BY <1>a DEF UpTo
  <1>2. \A j \in 0 .. i : j \in 0 .. n  BY <1>0
  <1>3. ASSUME NEW m \in 0 .. i
        PROVE  Cardinality({c \in Around(in, t[i]) : c > t[m]}) = i - m
    <2>1. {c \in Around(in, t[i]) : c > t[m]} = {t[j] : j \in m + 1 .. i}
      <3>1. \A j \in 0 .. i : t[j] > t[m] <=> j \in m + 1 .. i
        <4> TAKE j \in 0 .. i
        <4>1. t[j] \in Nat /\ t[m] \in Nat /\ (m < j => t[m] < t[j]) /\ (j < m => t[j] < t[m])
          BY <1>0, <1>2
        <4> QED  BY <4>1
      <3>2. \A j \in m + 1 .. i : j \in 0 .. i  OBVIOUS
      <3> QED  BY <1>1, <3>1, <3>2
    <2>2. m + 1 \in Nat /\ i \in Int /\ m + 1 <= i + 1 /\ \A j \in m + 1 .. i : j \in 0 .. n
      BY <1>0
    <2>3. Cardinality({t[j] : j \in m + 1 .. i}) = i - (m + 1) + 1
      BY <1>0, <2>2, CountIncreasing
    <2> QED  BY <2>1, <2>3
  <1>4. ASSUME NEW k \in 0 .. i  PROVE Label(in, t[i], k) = t[i - k]
    <2>1. i - k \in 0 .. i /\ i - (i - k) = k /\ k # i + 1  OBVIOUS
    <2>2. t[i - k] \in Around(in, t[i])
          /\ Cardinality({c \in Around(in, t[i]) : c > t[i - k]}) = k
      BY <1>1, <1>3, <2>1
    <2>3. ASSUME NEW a \in Around(in, t[i]),
                 Cardinality({c \in Around(in, t[i]) : c > a}) = k
          PROVE  a = t[i - k]
      <3>1. PICK m \in 0 .. i : a = t[m]  BY <1>1
      <3>2. i - m = k  BY <1>3, <2>3, <3>1
      <3>3. m = i - k  BY <3>2
      <3> QED  BY <3>1, <3>3
    <2>4. (CHOOSE a \in Around(in, t[i]) :
             Cardinality({c \in Around(in, t[i]) : c > a}) = k) = t[i - k]
      BY <2>2, <2>3
    <2> QED  BY <1>1, <2>1, <2>4 DEF Label
  <1>5. Label(in, t[i], i + 1) = FuncBlock(FunctionAt(in, b))
    BY <1>0, <1>1 DEF Label
  <1> QED  BY <1>4, <1>5
-----------------------------------------------------------------------------
(***************************************************************************)
(* The module that was loaded.                                             *)
(***************************************************************************)
Loaded ==
  /\ FindBlocksInv /\ NestingInv /\ status = "loaded"
  /\ \A g \in DOMAIN input.range : HasCode(input.range[g])

RangeAt(a) == input.range[FunctionAt(input, a)]

LEMMA LoadedFunctions ==
  ASSUME Loaded, NEW g \in DOMAIN input.range
  PROVE  LET r == input.range[g] IN
         /\ IsInput(input) /\ g \in Nat /\ g < f /\ Balanced(input, r)
         /\ r.start_addr \in DOMAIN input.code /\ FunctionAt(input, r.start_addr) = g
         /\ OpenAround(input, r.start_addr) = {}
         /\ r.end_addr \in DOMAIN input.code /\ FunctionAt(input, r.end_addr) = g
         /\ OpenAround(input, r.end_addr) = {} /\ input.code[r.end_addr].op = "end"
  <1> DEFINE r == input.range[g]
  <1>1. IsInput(input) /\ Earlier /\ EarlierEnds /\ HasCode(r) /\ g < f
    BY InputsAssumption DEF Loaded, FindBlocksInv, NestingInv, Earlier
  <1>2. g \in Nat /\ Chained(input, r)  BY <1>1 DEF IsInput, Numbered
  <1>3. Balanced(input, r) /\ OpenAround(input, r.end_addr) = {}
    BY <1>1 DEF Earlier, EarlierEnds
  <1>4. r.end_addr \in Scanned(input, r) /\ r.start_addr \in Scanned(input, r)
    BY <1>1, <1>2, <1>3 DEF Balanced, Scanned, Chained, HasCode
  <1>5. OpenAt(input, r, r.start_addr) = {}  BY <1>1, <1>2, InitialFunction
  <1> HIDE DEF r
  <1>6. /\ r.start_addr \in DOMAIN input.code /\ FunctionAt(input, r.start_addr) = g
        /\ OpenAround(input, r.start_addr) = {}
        /\ r.end_addr \in DOMAIN input.code /\ FunctionAt(input, r.end_addr) = g
    BY <1>1, <1>4, <1>5, FunctionAtIs DEF r
  <1> QED  BY <1>1, <1>2, <1>3, <1>6 DEF r, Balanced

LEMMA LoadedInstructions ==
  ASSUME Loaded, NEW a \in DOMAIN input.code
  PROVE  /\ FunctionAt(input, a) \in DOMAIN input.range /\ a \in Nat /\ Listed(input, a)
         /\ input.code[a].op \in Ops /\ input.code[a].next \in Nat
         /\ input.code[a].op \in BlockOps => a \in DOMAIN blocks
         /\ input.code[a].op = "end" /\ ~EndOfFunction(input, a) => ClosingEnd(a)
         /\ input.code[a].op # "end" => ~EndOfFunction(input, a)
  <1>1. IsInput(input) /\ Instructions
    BY InputsAssumption DEF Loaded, FindBlocksInv, NestingInv
  <1>2. FunctionAt(input, a) \in DOMAIN input.range /\ a \in Nat
    BY <1>1, InFunction
  <1>3. Visited(a) /\ (EndOfFunction(input, a) => input.code[a].op = "end")
    BY <1>2, LoadedFunctions DEF Visited, EndOfFunction
  <1> QED  BY <1>1, <1>2, <1>3 DEF Instructions, IsInput, Decoded

(* Every instruction but the last has another one behind it.               *)
LEMMA LoadedNext ==
  ASSUME Loaded, NEW a \in DOMAIN input.code, ~EndOfFunction(input, a)
  PROVE  LET n == input.code[a].next IN
         /\ n \in DOMAIN input.code /\ FunctionAt(input, n) = FunctionAt(input, a)
         /\ Follows(input, RangeAt(a), a, n)
         /\ OpenAround(input, n) = OpenAt(input, RangeAt(a), n)
         /\ OpenAround(input, a) = OpenAt(input, RangeAt(a), a)
         /\ Decoded(input) /\ RangeAt(a).start_addr \in Nat /\ RangeAt(a).end_addr \in Nat
  <1> DEFINE n == input.code[a].next
             r == RangeAt(a)
             g == FunctionAt(input, a)
  <1>1. /\ IsInput(input) /\ Decoded(input) /\ g \in DOMAIN input.range
        /\ a \in Scanned(input, r) /\ a \in Nat /\ Chained(input, r)
    BY InputsAssumption, InFunction DEF Loaded, FindBlocksInv, IsInput, RangeAt
  <1>2. n \in Nat /\ a < n /\ r.start_addr \in Nat /\ r.end_addr \in Nat
        /\ r.start_addr <= a /\ a <= r.end_addr
    BY <1>1 DEF Decoded, Chained, Scanned
  <1>3. r.end_addr \in Scanned(input, r)
    BY <1>1, <1>2, LoadedFunctions DEF Scanned, RangeAt
  <1>4. a # r.end_addr  BY DEF EndOfFunction, RangeAt
  <1>5. n <= r.end_addr /\ \A b \in Scanned(input, r) : a < b => n <= b
    BY <1>1, <1>2, <1>3, <1>4 DEF Chained
  <1>6. n \in Scanned(input, r)  BY <1>1, <1>2, <1>5 DEF Chained, Scanned
  <1>7. Follows(input, r, a, n)  BY <1>1, <1>2, <1>5 DEF Follows
  <1> HIDE DEF n
  <1>8. FunctionAt(input, n) = g /\ n \in DOMAIN input.code
        /\ OpenAround(input, n) = OpenAt(input, r, n)
    BY <1>1, <1>6, FunctionAtIs DEF RangeAt
  <1>9. OpenAround(input, a) = OpenAt(input, r, a)  BY DEF OpenAround, RangeAt
  <1> QED  BY <1>1, <1>2, <1>7, <1>8, <1>9 DEF n

(* What is open there.                                                     *)
LEMMA LoadedSuccessor ==
  ASSUME Loaded, NEW a \in DOMAIN input.code, ~EndOfFunction(input, a)
  PROVE  LET n == input.code[a].next IN
         /\ input.code[a].op \notin BlockOps \cup {"end"} =>
              OpenAround(input, n) = OpenAround(input, a)
         /\ input.code[a].op \in BlockOps =>
              OpenAround(input, n) # {} /\ InnermostAt(input, n) = a /\ n = a + 2
         /\ input.code[a].op = "end" =>
              /\ OpenAround(input, n) = OpenAround(input, InnermostAt(input, a))
              /\ n = a + 1
  <1> DEFINE n == input.code[a].next
             op == input.code[a].op
  <1>1. /\ Follows(input, RangeAt(a), a, n) /\ Decoded(input) /\ IsInput(input)
        /\ OpenAround(input, n) = OpenAt(input, RangeAt(a), n)
        /\ OpenAround(input, a) = OpenAt(input, RangeAt(a), a)
        /\ RangeAt(a).start_addr \in Nat /\ RangeAt(a).end_addr \in Nat
    BY LoadedNext, InputsAssumption DEF Loaded, FindBlocksInv
  <1>2. n \in Nat /\ a \in Nat /\ Listed(input, a)  BY LoadedInstructions
  <1>3. ASSUME op \in BlockOps
        PROVE  OpenAround(input, n) # {} /\ InnermostAt(input, n) = a /\ n = a + 2
    <2>1. OpenAround(input, n) = OpenAround(input, a) \cup {a}
      BY <1>1, <1>3, OpenAtStep
    <2>2. \A c \in OpenAround(input, a) : c \in Nat /\ c < a
      BY <1>1, AroundFacts
    <2>3. \A c \in OpenAround(input, n) : c \in Nat /\ c <= a  BY <1>2, <2>1, <2>2
    <2>4. a \in OpenAround(input, n)  BY <2>1
    <2>5. ASSUME NEW c \in OpenAround(input, n), \A d \in OpenAround(input, n) : d <= c
          PROVE  c = a
      BY <1>2, <2>3, <2>4, <2>5
    <2>6. Innermost(OpenAround(input, n)) = a  BY <2>3, <2>4, <2>5 DEF Innermost
    <2>7. n = a + 2  BY <1>1, <1>3 DEF Decoded
    <2> QED  BY <2>4, <2>6, <2>7 DEF InnermostAt
  <1>4. ASSUME op = "end"
        PROVE  OpenAround(input, n) = OpenAround(input, InnermostAt(input, a)) /\ n = a + 1
    <2>1. n = a + 1  BY <1>1, <1>4 DEF Decoded
    <2>2. PICK m \in Nat : \E s \in [0 .. m - 1 -> Nat] : Lists(input, s, m, a)
      BY <1>2 DEF Listed
    <2>3. PICK s \in [0 .. m - 1 -> Nat] : Lists(input, s, m, a)  BY <2>2
    <2>4. OpenAround(input, a) # {}  BY <1>4, LoadedInstructions DEF ClosingEnd
    <2>5. m > 0
      <3>1. m = 0 => \A i \in 0 .. m - 1 : FALSE  OBVIOUS
      <3> QED  BY <2>3, <2>4, <3>1 DEF Lists
    <2>6. m - 1 \in Nat /\ m - 1 \in 0 .. m - 1 /\ m - 1 - 1 = m - 2
          /\ 0 .. m - 1 = (0 .. m - 2) \cup {m - 1}
      BY <2>5
    <2>7. InnermostAt(input, a) = s[m - 1]
      <3>1. \A i \in 0 .. m - 1 : s[i] \in Nat  OBVIOUS
      <3>2. \A i, j \in 0 .. m - 1 : i < j => s[i] < s[j]  BY <2>3 DEF Lists
      <3>3. Innermost({s[i] : i \in 0 .. m - 1}) = s[m - 1]
        BY <2>6, <3>1, <3>2, InnermostIsTop
      <3> QED  BY <2>3, <3>3 DEF InnermostAt, Lists
    <2>8. OpenAround(input, s[m - 1]) = {s[j] : j \in 0 .. m - 2}
      <3>1. OpenAround(input, s[m - 1]) = {s[j] : j \in 0 .. m - 1 - 1}
        BY <2>3, <2>6 DEF Lists
      <3> QED  BY <2>6, <3>1
    <2>9. OpenAround(input, n) = {c \in OpenAround(input, a) : Excess(input, c, a + 1) > 0}
      BY <1>1, <1>4, OpenAtStep
    <2>10. ASSUME NEW i \in 0 .. m - 1
           PROVE  Excess(input, s[i], a + 1) > 0 <=> i \in 0 .. m - 2
      <3>1. /\ s[i] \in Nat /\ s[i] <= a /\ RangeAt(a).start_addr <= s[i]
        <4>1. s[i] \in OpenAround(input, a)  BY <2>3 DEF Lists
        <4>2. s[i] \in Nat /\ s[i] < a /\ s[i] \in DOMAIN input.code
              /\ FunctionAt(input, s[i]) = FunctionAt(input, a)
          BY <1>1, <4>1, AroundFacts
        <4>3. s[i] \in Scanned(input, RangeAt(a))  BY <1>1, <4>2, InFunction DEF RangeAt
        <4> QED  BY <1>2, <4>2, <4>3 DEF Scanned
      <3>2. Excess(input, s[i], n) = Excess(input, s[i], a) + Weight(input.code[a].op)
        BY <1>1, <3>1, ExcessStep
      <3>3. Excess(input, s[i], a) = m - i  BY <2>3 DEF Lists
      <3>4. Weight(input.code[a].op) = -1  BY <1>4 DEF Weight, BlockOps
      <3>5. Excess(input, s[i], a + 1) = m - i - 1  BY <2>1, <3>2, <3>3, <3>4
      <3> QED  BY <3>5
    <2>11. OpenAround(input, n) = {s[j] : j \in 0 .. m - 2}
      <3>1. OpenAround(input, a) = {s[i] : i \in 0 .. m - 1}  BY <2>3 DEF Lists
      <3> QED  BY <2>6, <2>9, <2>10, <3>1
    <2> QED  BY <2>1, <2>7, <2>8, <2>11
  <1>5. ASSUME op \notin BlockOps \cup {"end"}
        PROVE  OpenAround(input, n) = OpenAround(input, a)
    BY <1>1, <1>5, OpenAtStep
  <1> QED  BY <1>3, <1>4, <1>5

LEMMA LoadedBlocks ==
  ASSUME Loaded, NEW b \in DOMAIN blocks
  PROVE  /\ b \in DOMAIN input.code /\ b \in Nat /\ blocks[b] \in FoundBlock
         /\ FoundOpener(b) /\ FoundElse(b) /\ FoundEnd(b)
  <1>1. /\ b \in DOMAIN input.code /\ blocks[b] \in FoundBlock
        /\ Found /\ top = -1
    BY DEF Loaded, FindBlocksInv, NestingInv, TypeOK, FoundBlock
  <1>2. OnStack = {}
    <2>1. \A i \in 0 .. -1 : FALSE  OBVIOUS
    <2> QED  BY <1>1, <2>1 DEF OnStack
  <1> QED  BY <1>1, <1>2, LoadedInstructions DEF Found
Local == {FuncBlock(g) : g \in DOMAIN input.range}
Hosts == {FuncBlock(g) : g \in 0 .. input.import_func_count - 1}
Owner(a) ==
  IF OpenAround(input, a) = {} THEN FuncBlock(FunctionAt(input, a)) ELSE InnermostAt(input, a)

FunctionFields(w, g) ==
  /\ w.block[FuncBlock(g)] = FunctionBlock(input.range[g])
  /\ w.nest[FuncBlock(g)] = 0
  /\ w.labels[FuncBlock(g)] = [k \in {0} |-> FuncBlock(g)]
HostFields(w, h) == w.block[h] = FunctionBlock([start_addr |-> 0, end_addr |-> 0])
ControlFields(w, b) ==
  /\ b \notin Local /\ w.block[b] = ControlBlock(blocks[b])
  /\ w.nest[b] = Cardinality(Around(input, b))
  /\ w.labels[b] = [k \in 0 .. Cardinality(Around(input, b)) |-> Label(input, b, k)]

LEMMA LoadedFields ==
  ASSUME Loaded, NEW w, w = LoadedModule
  PROVE  /\ w.code = input.code /\ w.block_lookup = [b \in DOMAIN blocks |-> b]
         /\ DOMAIN w.labels = Local \cup DOMAIN blocks
         /\ DOMAIN w.block = Local \cup DOMAIN blocks \cup Hosts
         /\ \A a \in DOMAIN input.code : w.owner[a] = Owner(a)
         /\ \A g \in DOMAIN input.range : FunctionFields(w, g)
         /\ \A h \in Hosts : HostFields(w, h)
         /\ \A b \in DOMAIN blocks : ControlFields(w, b)
         /\ w.functions = [g \in 0 .. input.import_func_count - 1 \cup DOMAIN input.range |->
                             FuncBlock(g)]
         /\ w.import_func_count = input.import_func_count /\ w.exports = {}
         /\ w.table = [cur_size |-> 0, max_size |-> 0, entries |-> [i \in {} |-> 0]]
  <1>1. IsInput(input)  BY InputsAssumption DEF Loaded, FindBlocksInv
  <1>2. \A g \in DOMAIN input.range : g \in Nat /\ FuncBlock(g) \in Int /\ FuncBlock(g) < 0
                                      /\ -FuncBlock(g) - 1 = g /\ input.import_func_count <= g
    BY <1>1 DEF IsInput, Numbered, FuncBlock
  <1>3. \A g \in 0 .. input.import_func_count - 1 : FuncBlock(g) \in Int /\ FuncBlock(g) < 0
                                                    /\ -FuncBlock(g) - 1 = g
    BY DEF FuncBlock
  <1>4. Local \cap Hosts = {}
    <2>1. ASSUME NEW g \in DOMAIN input.range, NEW h \in 0 .. input.import_func_count - 1,
                 FuncBlock(g) = FuncBlock(h)
          PROVE  FALSE
      BY <1>1, <1>2, <1>3, <2>1 DEF IsInput
    <2> QED  BY <2>1 DEF Local, Hosts
  <1>5. \A b \in DOMAIN blocks : b \notin Local /\ b \notin Hosts
    <2>1. \A b \in DOMAIN blocks : b \in Nat  BY LoadedBlocks
    <2> QED  BY <1>2, <1>3, <2>1 DEF Local, Hosts
  <1>6. w = [code |-> input.code,
      block |-> [b \in (Local \cup DOMAIN blocks) \cup Hosts |->
                   CASE b \in Local -> FunctionBlock(input.range[-b - 1])
                     [] b \in Hosts -> FunctionBlock([start_addr |-> 0, end_addr |-> 0])
                     [] OTHER -> ControlBlock(blocks[b])],
      block_lookup |-> [b \in DOMAIN blocks |-> b],
      functions |-> [g \in 0 .. input.import_func_count - 1 \cup DOMAIN input.range |->
                       FuncBlock(g)],
      import_func_count |-> input.import_func_count,
      table |-> [cur_size |-> 0, max_size |-> 0, entries |-> [i \in {} |-> 0]],
      exports |-> {},
      nest |-> [b \in Local \cup DOMAIN blocks |->
                  IF b \in Local THEN 0 ELSE Cardinality(Around(input, b))],
      owner |-> [a \in DOMAIN input.code |-> Owner(a)],
      labels |-> [b \in Local \cup DOMAIN blocks |->
                   IF b \in Local THEN [k \in {0} |-> b]
                   ELSE [k \in 0 .. Cardinality(Around(input, b)) |-> Label(input, b, k)]]]
    BY DEF LoadedModule, Local, Hosts, Owner, InnermostAt
  <1>7. /\ w.code = input.code /\ w.block_lookup = [b \in DOMAIN blocks |-> b]
        /\ w.functions = [g \in 0 .. input.import_func_count - 1 \cup DOMAIN input.range |->
                             FuncBlock(g)]
        /\ w.import_func_count = input.import_func_count /\ w.exports = {}
        /\ w.table = [cur_size |-> 0, max_size |-> 0, entries |-> [i \in {} |-> 0]]
        /\ w.owner = [a \in DOMAIN input.code |-> Owner(a)]
    BY <1>6
  <1>8. /\ w.nest = [b \in Local \cup DOMAIN blocks |->
                       IF b \in Local THEN 0 ELSE Cardinality(Around(input, b))]
        /\ w.labels = [b \in Local \cup DOMAIN blocks |->
                   IF b \in Local THEN [k \in {0} |-> b]
                   ELSE [k \in 0 .. Cardinality(Around(input, b)) |-> Label(input, b, k)]]
    BY <1>6
  <1>9. w.block = [b \in (Local \cup DOMAIN blocks) \cup Hosts |->
                   CASE b \in Local -> FunctionBlock(input.range[-b - 1])
                     [] b \in Hosts -> FunctionBlock([start_addr |-> 0, end_addr |-> 0])
                     [] OTHER -> ControlBlock(blocks[b])]
    BY <1>6
  <1>10. \A g \in DOMAIN input.range : FuncBlock(g) \in Local  BY DEF Local
  <1>11. ASSUME NEW g \in DOMAIN input.range
         PROVE  FunctionFields(w, g)
    <2> DEFINE l == FuncBlock(g)
    <2>1. l \in Local /\ l \notin Hosts /\ -l - 1 = g  BY <1>2, <1>4, <1>10
    <2> HIDE DEF l
    <2>2. w.block[l] = FunctionBlock(input.range[-l - 1])  BY <1>9, <2>1
    <2>3. w.nest[l] = 0 /\ w.labels[l] = [k \in {0} |-> l]  BY <1>8, <2>1
    <2> QED  BY <2>1, <2>2, <2>3 DEF l, FunctionFields
  <1>12. ASSUME NEW h \in Hosts
         PROVE  HostFields(w, h)
    BY <1>4, <1>9 DEF HostFields
  <1>13. ASSUME NEW b \in DOMAIN blocks
         PROVE  ControlFields(w, b)
    BY <1>5, <1>8, <1>9 DEF ControlFields
  <1>14. \A a \in DOMAIN input.code : w.owner[a] = Owner(a)  BY <1>7
  <1>15. DOMAIN w.labels = Local \cup DOMAIN blocks
         /\ DOMAIN w.block = Local \cup DOMAIN blocks \cup Hosts
    BY <1>8, <1>9
  <1> QED  BY <1>7, <1>11, <1>12, <1>13, <1>14, <1>15

LEMMA LoadedFunctionFields ==
  ASSUME Loaded, NEW w, w = LoadedModule, NEW g \in DOMAIN input.range
  PROVE  /\ FuncBlock(g) \in DOMAIN w.labels
         /\ w.block[FuncBlock(g)] = FunctionBlock(input.range[g])
         /\ w.nest[FuncBlock(g)] = 0
         /\ w.labels[FuncBlock(g)] = [k \in {0} |-> FuncBlock(g)]
  <1>1. FuncBlock(g) \in Local  BY DEF Local
  <1>2. DOMAIN w.labels = Local \cup DOMAIN blocks  BY LoadedFields
  <1>3. FunctionFields(w, g)  BY LoadedFields
  <1> QED  BY <1>1, <1>2, <1>3 DEF FunctionFields

LEMMA LoadedHostFields ==
  ASSUME Loaded, NEW w, w = LoadedModule, NEW h \in Hosts
  PROVE  w.block[h] = FunctionBlock([start_addr |-> 0, end_addr |-> 0])
  <1>1. HostFields(w, h)  BY LoadedFields
  <1> QED  BY <1>1 DEF HostFields

LEMMA LoadedControlFields ==
  ASSUME Loaded, NEW w, w = LoadedModule, NEW b \in DOMAIN blocks
  PROVE  /\ b \in DOMAIN w.labels /\ w.block[b] = ControlBlock(blocks[b])
         /\ w.nest[b] = Cardinality(Around(input, b))
         /\ w.labels[b] = [k \in 0 .. Cardinality(Around(input, b)) |-> Label(input, b, k)]
  <1>1. DOMAIN w.labels = Local \cup DOMAIN blocks  BY LoadedFields
  <1>2. ControlFields(w, b)  BY LoadedFields
  <1> QED  BY <1>1, <1>2 DEF ControlFields

LabelFields(w, b, t, i) ==
  /\ w.nest[t[i]] = i + 1
  /\ w.labels[t[i]] = [k \in 0 .. i + 1 |-> w.labels[t[i]][k]]
  /\ \A k \in 0 .. i : w.labels[t[i]][k] = t[i - k]
  /\ w.labels[t[i]][i + 1] = FuncBlock(FunctionAt(input, b))

LEMMA LabelsOf ==
  ASSUME Loaded, NEW w, w = LoadedModule, NEW b \in DOMAIN blocks,
         NEW t, NEW n, Layout(input, t, n, b), NEW i \in 0 .. n
  PROVE  t[i] \in DOMAIN blocks /\ LabelFields(w, b, t, i)
  <1>1. IsInput(input) /\ n \in Nat /\ t[n] = b
    BY InputsAssumption DEF Loaded, FindBlocksInv, Layout
  <1>2. t[i] \in DOMAIN blocks
    <2>1. CASE i = n  BY <1>1, <2>1
    <2>2. CASE i < n
      <3>1. i + 1 \in 0 .. n /\ i \in 0 .. (i + 1) - 1  BY <1>1, <2>2
      <3>2. t[i] \in OpenAround(input, t[i + 1]) /\ t[i + 1] \in DOMAIN input.code
        BY <3>1 DEF Layout
      <3>3. t[i] \in DOMAIN input.code /\ input.code[t[i]].op \in BlockOps
        BY <1>1, <3>2, AroundFacts
      <3> QED  BY <3>3, LoadedInstructions
    <2> QED  BY <1>1, <2>1, <2>2
  <1>3. Cardinality(Around(input, t[i])) = i + 1  BY <1>1, LayoutFacts
  <1>4. /\ w.nest[t[i]] = i + 1
        /\ w.labels[t[i]] = [k \in 0 .. i + 1 |-> Label(input, t[i], k)]
    <2>1. /\ w.nest[t[i]] = Cardinality(Around(input, t[i]))
          /\ w.labels[t[i]] =
               [k \in 0 .. Cardinality(Around(input, t[i])) |-> Label(input, t[i], k)]
      BY <1>2, LoadedControlFields
    <2> QED  BY <1>3, <2>1
  <1>5. /\ \A k \in 0 .. i : Label(input, t[i], k) = t[i - k]
        /\ Label(input, t[i], i + 1) = FuncBlock(FunctionAt(input, b))
    BY <1>1, LabelFacts
  <1>6. i + 1 \in 0 .. i + 1 /\ \A k \in 0 .. i : k \in 0 .. i + 1  OBVIOUS
  <1> QED  BY <1>2, <1>4, <1>5, <1>6 DEF LabelFields

(* The block that an instruction is in.                                    *)
LEMMA OwnerFacts ==
  ASSUME Loaded, NEW w, w = LoadedModule, NEW a \in DOMAIN input.code
  PROVE  /\ w.owner[a] = Owner(a) /\ Owner(a) \in DOMAIN w.labels
         /\ OpenAround(input, a) = {} => /\ Owner(a) = FuncBlock(FunctionAt(input, a))
                                         /\ w.nest[Owner(a)] = 0
         /\ OpenAround(input, a) # {} => /\ Owner(a) \in DOMAIN blocks
                                         /\ Owner(a) \in OpenAround(input, a)
                                         /\ Owner(a) = InnermostAt(input, a)
         /\ w.nest[Owner(a)] = Cardinality(OpenAround(input, a))
  <1>0. w.owner[a] = Owner(a)  BY LoadedFields
  <1>1. /\ IsInput(input) /\ FunctionAt(input, a) \in DOMAIN input.range /\ Listed(input, a)
        /\ w.owner[a] = Owner(a)
    BY <1>0, InputsAssumption, LoadedInstructions DEF Loaded, FindBlocksInv
  <1>2. PICK n, t : Layout(input, t, n, a)  BY <1>1, HasLayout
  <1>3. n \in Nat /\ t[n] = a /\ n \in 0 .. n  BY <1>2 DEF Layout
  <1>4. CASE OpenAround(input, a) = {}
    <2>1. FuncBlock(FunctionAt(input, a)) \in DOMAIN w.labels
          /\ w.nest[FuncBlock(FunctionAt(input, a))] = 0
      BY <1>1, LoadedFunctionFields
    <2>2. Cardinality(OpenAround(input, a)) = 0  BY <1>4, FS_EmptySet
    <2> QED  BY <1>1, <1>4, <2>1, <2>2 DEF Owner
  <1>5. CASE OpenAround(input, a) # {}
    <2>1. n > 0 /\ InnermostAt(input, a) = t[n - 1] /\ Cardinality(OpenAround(input, a)) = n
      BY <1>1, <1>2, <1>3, <1>5, LayoutFacts
    <2>2. t[n - 1] \in OpenAround(input, a)
      <3>1. n - 1 \in 0 .. n - 1  BY <1>3, <2>1
      <3> QED  BY <1>2, <1>3, <3>1 DEF Layout
    <2>3. t[n - 1] \in DOMAIN blocks
      <3>1. t[n - 1] \in DOMAIN input.code /\ input.code[t[n - 1]].op \in BlockOps
        BY <1>1, <2>2, AroundFacts
      <3> QED  BY <3>1, LoadedInstructions
    <2>4. w.nest[t[n - 1]] = n
      <3>1. n - 1 \in 0 .. n /\ n - 1 + 1 = n  BY <1>3, <2>1
      <3>2. Cardinality(Around(input, t[n - 1])) = n - 1 + 1  BY <1>1, <1>2, <3>1, LayoutFacts
      <3> QED  BY <2>3, <3>1, <3>2, LoadedControlFields
    <2>5. DOMAIN blocks \subseteq DOMAIN w.labels  BY LoadedFields
    <2> QED  BY <1>1, <1>5, <2>1, <2>2, <2>3, <2>4, <2>5 DEF Owner
  <1> QED  BY <1>4, <1>5

LEMMA BelongsToBlock ==
  ASSUME Loaded, NEW w, w = LoadedModule, NEW b \in DOMAIN blocks, NEW a, Belongs(input, a, b)
  PROVE  a \in DOMAIN w.code /\ w.owner[a] = b
  <1>1. a \in DOMAIN input.code /\ OpenAround(input, a) # {} /\ InnermostAt(input, a) = b
    BY DEF Belongs
  <1>2. w.owner[a] = b  BY <1>1, OwnerFacts
  <1> QED  BY <1>1, <1>2, LoadedFields

(* The addresses of a block lie in its body.                               *)
LEMMA BlockAddresses ==
  ASSUME Loaded, NEW w, w = LoadedModule, NEW b \in DOMAIN blocks
  PROVE  LET blk == w.block[b] IN
         /\ blk.block_type = input.code[b].op /\ blk.start_addr = b
         /\ {blk.end_addr, blk.br_addr} \subseteq DOMAIN w.code
         /\ w.owner[blk.end_addr] = b /\ w.owner[blk.br_addr] = b
         /\ w.code[blk.end_addr].op = "end"
         /\ blk.block_type # "loop" => blk.br_addr = blk.end_addr
         /\ blk.else_addr # 0 => /\ blk.else_addr \in DOMAIN w.code
                                 /\ w.owner[blk.else_addr] = b
  <1> DEFINE blk == w.block[b]
             e == blocks[b].end_addr
             x == blocks[b].else_addr - 1
  <1>1. /\ b \in DOMAIN input.code /\ b \in Nat /\ blocks[b] \in FoundBlock
        /\ FoundOpener(b) /\ FoundElse(b) /\ FoundEnd(b)
    BY LoadedBlocks
  <1>2. /\ blk.block_type = blocks[b].block_type /\ blk.start_addr = blocks[b].start_addr
        /\ blk.end_addr = e /\ blk.else_addr = blocks[b].else_addr
        /\ blk.br_addr = blocks[b].br_addr /\ w.code = input.code
    <2>1. w.block[b] = ControlBlock(blocks[b])  BY LoadedControlFields
    <2>2. w.code = input.code  BY LoadedFields
    <2> QED  BY <2>1, <2>2 DEF ControlBlock
  <1>3. e \in DOMAIN w.code /\ w.owner[e] = b
    BY <1>1, BelongsToBlock DEF FoundEnd
  <1>4. ASSUME input.code[b].op = "loop"
        PROVE  b + 2 \in DOMAIN w.code /\ w.owner[b + 2] = b
    <2>1. input.code[b].op \in BlockOps /\ input.code[b].op # "end"  BY <1>4 DEF BlockOps
    <2>2. ~EndOfFunction(input, b)  BY <1>1, <2>1, LoadedInstructions
    <2>3. /\ b + 2 \in DOMAIN input.code /\ OpenAround(input, b + 2) # {}
          /\ InnermostAt(input, b + 2) = b
      BY <1>1, <2>1, <2>2, LoadedNext, LoadedSuccessor
    <2> QED  BY <1>2, <2>3, OwnerFacts
  <1>5. ASSUME blocks[b].else_addr # 0
        PROVE  blocks[b].else_addr \in DOMAIN w.code /\ w.owner[blocks[b].else_addr] = b
    <2>1. Belongs(input, x, b) /\ input.code[x].op = "else"
      BY <1>1, <1>5 DEF FoundElse
    <2>2. x \in DOMAIN input.code /\ OpenAround(input, x) # {} /\ InnermostAt(input, x) = b
      BY <2>1 DEF Belongs
    <2>3. ~EndOfFunction(input, x) /\ x \in Nat  BY <2>1, <2>2, LoadedInstructions
    <2>4. input.code[x].next = blocks[b].else_addr
      <3>1. input.code[x].next = x + 1
        BY <2>1, <2>2, InputsAssumption DEF Loaded, FindBlocksInv, IsInput, Decoded
      <3>2. blocks[b].else_addr \in Nat  BY <1>1 DEF FoundBlock
      <3> QED  BY <3>1, <3>2
    <2>5. blocks[b].else_addr \in DOMAIN input.code  BY <2>2, <2>3, <2>4, LoadedNext
    <2>6. OpenAround(input, blocks[b].else_addr) = OpenAround(input, x)
      <3>1. "else" \notin BlockOps \cup {"end"}  BY DEF BlockOps
      <3> QED  BY <2>1, <2>2, <2>3, <2>4, <3>1, LoadedSuccessor
    <2>7. w.owner[blocks[b].else_addr] = InnermostAt(input, blocks[b].else_addr)
      BY <2>2, <2>5, <2>6, OwnerFacts
    <2> QED  BY <1>2, <2>2, <2>5, <2>6, <2>7 DEF InnermostAt
  <1>6. blocks[b].br_addr = IF input.code[b].op = "loop" THEN b + 2 ELSE e
    BY <1>1 DEF FoundEnd
  <1>7. input.code[e].op = "end" /\ blocks[b].block_type = input.code[b].op
        /\ blocks[b].start_addr = b
    BY <1>1 DEF FoundEnd, FoundOpener
  <1> HIDE DEF e, x, blk
  <1>8. blocks[b].br_addr \in DOMAIN w.code /\ w.owner[blocks[b].br_addr] = b
    BY <1>3, <1>4, <1>6
  <1> QED  BY <1>2, <1>3, <1>5, <1>6, <1>7, <1>8 DEF blk
LEMMA NestedControl ==
  ASSUME Loaded, NEW w, w = LoadedModule, NEW b \in DOMAIN blocks
  PROVE  NestedBlock(w, b)
  <1>1. /\ IsInput(input) /\ b \in DOMAIN input.code /\ Listed(input, b)
        /\ input.code[b].op \in BlockOps
    BY InputsAssumption, LoadedBlocks, LoadedInstructions DEF Loaded, FindBlocksInv, FoundOpener
  <1>2. PICK n, t : Layout(input, t, n, b)  BY <1>1, HasLayout
  <1>3. n \in Nat /\ t[n] = b /\ n \in 0 .. n  BY <1>2 DEF Layout
  <1> DEFINE F0 == FuncBlock(FunctionAt(input, b))
             labels == w.labels[b]
  <1>4. \A i \in 0 .. n :
          /\ t[i] \in DOMAIN blocks /\ w.nest[t[i]] = i + 1
          /\ \A k \in 0 .. i : w.labels[t[i]][k] = t[i - k]
          /\ w.labels[t[i]][i + 1] = F0
    <2> TAKE i \in 0 .. n
    <2>1. t[i] \in DOMAIN blocks /\ LabelFields(w, b, t, i)  BY <1>2, LabelsOf
    <2> QED  BY <2>1 DEF LabelFields
  <1>5. FunctionAt(input, b) \in DOMAIN input.range
    <2> HIDE DEF F0, labels
    <2> QED  BY <1>1, LoadedInstructions
  <1>6. F0 \in DOMAIN w.labels /\ w.nest[F0] = 0 /\ w.labels[F0] = [k \in {0} |-> F0]
    BY <1>5, LoadedFunctionFields
  <1>7. DOMAIN blocks \subseteq DOMAIN w.labels  BY LoadedFields
  <1>8. w.nest[b] = n + 1  BY <1>3, <1>4
  <1>9. labels = [k \in 0 .. n + 1 |-> labels[k]]
    <2>1. w.labels[t[n]] = [k \in 0 .. n + 1 |-> w.labels[t[n]][k]]
      <3>1. LabelFields(w, b, t, n)  BY <1>2, <1>3, LabelsOf
      <3> QED  BY <3>1 DEF LabelFields
    <2> QED  BY <1>3, <2>1
  <1>10. (\A k \in 0 .. n : labels[k] = t[n - k]) /\ labels[n + 1] = F0
    BY <1>3, <1>4
  <1> HIDE DEF labels, F0
  <1>11. \A k \in 0 .. n + 1 : k \in 0 .. n \/ k = n + 1  BY <1>3
  <1>12. \A k \in 0 .. n + 1 : labels[k] \in DOMAIN w.labels /\ w.nest[labels[k]] = n + 1 - k
    <2> TAKE k \in 0 .. n + 1
    <2>1. CASE k \in 0 .. n
      <3>1. n - k \in 0 .. n /\ labels[k] = t[n - k] /\ n - k + 1 = n + 1 - k
        BY <1>3, <1>10, <2>1
      <3>2. t[n - k] \in DOMAIN blocks /\ w.nest[t[n - k]] = n - k + 1  BY <1>4, <3>1
      <3> QED  BY <1>7, <3>1, <3>2
    <2>2. CASE k = n + 1  BY <1>3, <1>6, <1>10, <2>2
    <2> QED  BY <1>11, <2>1, <2>2
  <1>13. labels \in [0 .. n + 1 -> DOMAIN w.labels]
    BY <1>9, <1>12
  <1>14. labels[0] = b
    <2>1. 0 \in 0 .. n /\ n - 0 = n  BY <1>3
    <2> QED  BY <1>3, <1>10, <2>1
  <1>15. LET blk == w.block[b] IN
         /\ blk.block_type = input.code[b].op /\ blk.start_addr = b
         /\ {blk.end_addr, blk.br_addr} \subseteq DOMAIN w.code
         /\ w.owner[blk.end_addr] = b /\ w.owner[blk.br_addr] = b
         /\ w.code[blk.end_addr].op = "end"
         /\ blk.block_type # "loop" => blk.br_addr = blk.end_addr
         /\ blk.else_addr # 0 => /\ blk.else_addr \in DOMAIN w.code
                                 /\ w.owner[blk.else_addr] = b
    BY BlockAddresses
  <1>16. ~IsFunction(w, b) /\ n + 1 # 0 /\ n + 1 \in Nat
    BY <1>1, <1>3, <1>15 DEF IsFunction, BlockOps
  <1>17. LET p == Parent(w, b) IN
         /\ p \in DOMAIN w.labels /\ n + 1 = w.nest[p] + 1
         /\ \A k \in 0 .. w.nest[p] : labels[k + 1] = w.labels[p][k]
    <2> DEFINE p == Parent(w, b)
    <2>1. p = Owner(b) /\ p \in DOMAIN w.labels
      BY <1>1, <1>15, OwnerFacts DEF Parent
    <2>2. CASE n = 0
      <3>1. OpenAround(input, b) = {}  BY <1>1, <1>2, <1>3, <2>2, LayoutFacts
      <3>2. p = F0  BY <1>1, <2>1, <3>1, OwnerFacts DEF F0
      <3>3. \A k \in 0 .. 0 : k = 0  OBVIOUS
      <3> HIDE DEF p
      <3> QED  BY <1>6, <1>10, <2>1, <2>2, <3>2, <3>3 DEF p
    <2>3. CASE n > 0
      <3>1. OpenAround(input, b) # {} /\ InnermostAt(input, b) = t[n - 1]
        BY <1>1, <1>2, <1>3, <2>3, LayoutFacts
      <3>2. p = t[n - 1]  BY <1>1, <2>1, <3>1, OwnerFacts
      <3>3. n - 1 \in 0 .. n /\ n - 1 + 1 = n  BY <1>3, <2>3
      <3>4. /\ w.nest[t[n - 1]] = n /\ w.labels[t[n - 1]][n] = F0
            /\ \A k \in 0 .. n - 1 : w.labels[t[n - 1]][k] = t[n - 1 - k]
        BY <1>4, <3>3
      <3>5. ASSUME NEW k \in 0 .. n  PROVE labels[k + 1] = w.labels[t[n - 1]][k]
        <4>1. CASE k = n  BY <1>10, <3>4, <4>1
        <4>2. CASE k \in 0 .. n - 1
          <5>1. k + 1 \in 0 .. n /\ n - (k + 1) = n - 1 - k  BY <1>3, <4>2
          <5>2. labels[k + 1] = t[n - (k + 1)]  BY <1>10, <5>1
          <5> QED  BY <3>4, <4>2, <5>1, <5>2
        <4> QED  BY <1>3, <4>1, <4>2
      <3> HIDE DEF p
      <3> QED  BY <2>1, <3>2, <3>4, <3>5 DEF p
    <2> QED  BY <1>3, <2>2, <2>3
  <1>18. /\ w.nest[b] \in Nat /\ labels \in [0 .. w.nest[b] -> DOMAIN w.labels]
         /\ \A k \in 0 .. w.nest[b] : w.nest[labels[k]] = w.nest[b] - k
         /\ IsFunction(w, b) <=> w.nest[b] = 0
    <2>1. w.nest[b] \in Nat  BY <1>8, <1>16
    <2>2. labels \in [0 .. w.nest[b] -> DOMAIN w.labels]  BY <1>8, <1>13
    <2>3. ASSUME NEW k \in 0 .. w.nest[b]  PROVE w.nest[labels[k]] = w.nest[b] - k
      <3>1. k \in 0 .. n + 1  BY <1>8
      <3>2. w.nest[labels[k]] = n + 1 - k  BY <1>12, <3>1
      <3>3. w.nest[b] - k = n + 1 - k  BY <1>3, <1>8, <3>1
      <3> QED  BY <3>2, <3>3
    <2>4. IsFunction(w, b) <=> w.nest[b] = 0  BY <1>8, <1>16
    <2> QED  BY <2>1, <2>2, <2>3, <2>4
  <1>19. LET p == Parent(w, b) IN
         /\ p \in DOMAIN w.labels /\ w.nest[b] = w.nest[p] + 1
         /\ \A k \in 0 .. w.nest[p] : labels[k + 1] = w.labels[p][k]
    BY <1>8, <1>17
  <1> QED
    BY <1>14, <1>15, <1>16, <1>18, <1>19 DEF NestedBlock, labels

LEMMA NestedFunction ==
  ASSUME Loaded, NEW w, w = LoadedModule, NEW g \in DOMAIN input.range
  PROVE  NestedBlock(w, FuncBlock(g)) /\ IsFunction(w, FuncBlock(g))
  <1> DEFINE b == FuncBlock(g)
             r == input.range[g]
  <1>1. /\ b \in DOMAIN w.labels /\ w.block[b] = FunctionBlock(r) /\ w.nest[b] = 0
        /\ w.labels[b] = [k \in {0} |-> b]
    BY LoadedFunctionFields
  <1>2. /\ r.start_addr \in DOMAIN input.code /\ FunctionAt(input, r.start_addr) = g
        /\ OpenAround(input, r.start_addr) = {}
        /\ r.end_addr \in DOMAIN input.code /\ FunctionAt(input, r.end_addr) = g
        /\ OpenAround(input, r.end_addr) = {} /\ input.code[r.end_addr].op = "end"
    BY LoadedFunctions
  <1>3. w.owner[r.start_addr] = b /\ w.owner[r.end_addr] = b
    BY <1>2, OwnerFacts
  <1>4. w.code = input.code  BY LoadedFields
  <1>5. /\ w.block[b].block_type = "function" /\ w.block[b].start_addr = r.start_addr
        /\ w.block[b].end_addr = r.end_addr /\ w.block[b].br_addr = r.end_addr
        /\ w.block[b].else_addr = 0
    BY <1>1 DEF FunctionBlock
  <1>6. IsFunction(w, b)  BY <1>5 DEF IsFunction
  <1>7. w.labels[b] \in [0 .. w.nest[b] -> DOMAIN w.labels] /\ w.labels[b][0] = b
        /\ 0 .. w.nest[b] = {0}
    <2>1. 0 .. 0 = {0}  OBVIOUS
    <2> HIDE DEF b
    <2> QED  BY <1>1, <2>1
  <1>8. \A k \in 0 .. w.nest[b] : w.nest[w.labels[b][k]] = w.nest[b] - k
    BY <1>1, <1>7
  <1> HIDE DEF b, r
  <1>9. NestedBlock(w, b)
    BY <1>1, <1>2, <1>3, <1>4, <1>5, <1>6, <1>7, <1>8 DEF NestedBlock
  <1> QED  BY <1>6, <1>9 DEF b

LEMMA NestedCode ==
  ASSUME Loaded, Targeted, NEW w, w = LoadedModule, NEW a \in DOMAIN input.code
  PROVE  NestedInstr(w, a)
  <1> DEFINE i == input.code[a]
             b == w.owner[a]
             g == FunctionAt(input, a)
  <1>1. /\ i.op \in Ops /\ a \in Nat /\ i.next \in Nat
        /\ g \in DOMAIN input.range
        /\ i.op \in BlockOps => a \in DOMAIN blocks
        /\ i.op = "end" /\ ~EndOfFunction(input, a) => ClosingEnd(a)
        /\ i.op # "end" => ~EndOfFunction(input, a)
    BY LoadedInstructions
  <1>2. /\ w.code = input.code /\ w.block_lookup = [c \in DOMAIN blocks |-> c]
        /\ DOMAIN blocks \subseteq DOMAIN w.labels
        /\ w.functions = [h \in 0 .. input.import_func_count - 1 \cup DOMAIN input.range |->
                             FuncBlock(h)]
    <2>1. w.code = input.code /\ w.block_lookup = [c \in DOMAIN blocks |-> c]  BY LoadedFields
    <2>2. DOMAIN blocks \subseteq DOMAIN w.labels  BY LoadedFields
    <2>3. w.functions = [h \in 0 .. input.import_func_count - 1 \cup DOMAIN input.range |->
                             FuncBlock(h)]
      BY LoadedFields
    <2> QED  BY <2>1, <2>2, <2>3
  <1>3. /\ b = Owner(a) /\ b \in DOMAIN w.labels
        /\ w.nest[b] = Cardinality(OpenAround(input, a))
    BY OwnerFacts
  <1>4. ASSUME ~EndOfFunction(input, a)
        PROVE  i.next \in DOMAIN input.code /\ FunctionAt(input, i.next) = g
    BY <1>4, LoadedNext
  <1>5. ASSUME i.op \in PlainOps \cup JumpOps
        PROVE  i.next \in DOMAIN w.code /\ w.owner[i.next] = b
    <2>1. i.op \notin BlockOps \cup {"end"}
      BY <1>5 DEF PlainOps, JumpOps, BlockOps
    <2>2. ~EndOfFunction(input, a)  BY <1>1, <2>1
    <2>3. OpenAround(input, i.next) = OpenAround(input, a)  BY <2>1, <2>2, LoadedSuccessor
    <2>4. Owner(i.next) = Owner(a)  BY <1>4, <2>2, <2>3 DEF Owner, InnermostAt
    <2>5. w.owner[i.next] = Owner(i.next)  BY <1>4, <2>2, OwnerFacts
    <2> QED  BY <1>2, <1>3, <1>4, <2>2, <2>4, <2>5
  <1>6. ASSUME i.op \in BlockOps
        PROVE  /\ a \in DOMAIN w.block_lookup /\ w.block_lookup[a] \in DOMAIN w.labels
               /\ w.block[w.block_lookup[a]].block_type = i.op
               /\ w.block[w.block_lookup[a]].start_addr = a
               /\ i.next \in DOMAIN w.code /\ w.owner[i.next] = w.block_lookup[a]
    <2>1. a \in DOMAIN blocks /\ w.block_lookup[a] = a  BY <1>1, <1>2, <1>6
    <2>2. w.block[a].block_type = i.op /\ w.block[a].start_addr = a
      BY <2>1, BlockAddresses
    <2>3. ~EndOfFunction(input, a)  BY <1>1, <1>6 DEF BlockOps
    <2>4. OpenAround(input, i.next) # {} /\ InnermostAt(input, i.next) = a
      BY <1>6, <2>3, LoadedSuccessor
    <2>5. w.owner[i.next] = a  BY <1>4, <2>3, <2>4, OwnerFacts
    <2> QED  BY <1>2, <1>4, <2>1, <2>2, <2>3, <2>5
  <1>7. ASSUME i.op = "end"
        PROVE  /\ w.block[b].end_addr = a
               /\ ~IsFunction(w, b) => /\ i.next = a + 1 /\ i.next \in DOMAIN w.code
                                       /\ w.owner[i.next] = Parent(w, b)
    <2>1. CASE EndOfFunction(input, a)
      <3>1. OpenAround(input, a) = {} /\ input.range[g].end_addr = a
        BY <1>1, <2>1, LoadedFunctions DEF EndOfFunction
      <3>2. b = FuncBlock(g)  BY <1>3, <3>1, OwnerFacts
      <3>3. IsFunction(w, b)  BY <1>1, <3>2, NestedFunction
      <3>4. w.block[b] = FunctionBlock(input.range[g])
        <4>1. w.block[FuncBlock(g)] = FunctionBlock(input.range[g])
          BY <1>1, LoadedFunctionFields
        <4> HIDE DEF b, g
        <4> QED  BY <3>2, <4>1
      <3> QED  BY <3>1, <3>3, <3>4 DEF FunctionBlock
    <2>2. CASE ~EndOfFunction(input, a)
      <3>1. /\ OpenAround(input, a) # {} /\ InnermostAt(input, a) \in DOMAIN blocks
            /\ blocks[InnermostAt(input, a)].end_addr = a
        BY <1>1, <1>7, <2>2 DEF ClosingEnd
      <3>2. b = InnermostAt(input, a) /\ b \in DOMAIN input.code
        <4>1. b = InnermostAt(input, a)  BY <1>3, <3>1, OwnerFacts
        <4> QED  BY <3>1, <4>1, LoadedBlocks
      <3>3. w.block[b] = ControlBlock(blocks[b])
        <4>1. b \in DOMAIN blocks  BY <3>1, <3>2
        <4> HIDE DEF b
        <4> QED  BY <4>1, LoadedControlFields
      <3>4. OpenAround(input, i.next) = OpenAround(input, b) /\ i.next = a + 1
        BY <1>7, <2>2, <3>2, LoadedSuccessor
      <3>5. FunctionAt(input, b) = g
        <4>1. b \in OpenAround(input, a)  BY <1>3, <3>1, OwnerFacts
        <4> QED  BY <4>1, AroundFacts, InputsAssumption DEF Loaded, FindBlocksInv
      <3>6. Owner(i.next) = Owner(b)  BY <1>4, <2>2, <3>4, <3>5 DEF Owner, InnermostAt
      <3>7. w.owner[i.next] = Owner(i.next) /\ w.owner[b] = Owner(b)
        BY <1>4, <2>2, <3>2, OwnerFacts
      <3>8. Parent(w, b) = w.owner[b]
        BY <3>1, <3>2, BlockAddresses DEF Parent
      <3>9. w.block[b].end_addr = a  BY <3>1, <3>2, <3>3 DEF ControlBlock
      <3> QED  BY <1>2, <1>4, <2>2, <3>4, <3>6, <3>7, <3>8, <3>9
    <2> QED  BY <2>1, <2>2
  <1>8. \A d \in Depths(i) : d \in 0 .. w.nest[b]  BY <1>3 DEF Targeted
  <1>9. i.op = "call" => i.imm \in DOMAIN w.functions  BY DEF Targeted
  <1> HIDE DEF i, b
  <1>10. w.code[a] = i /\ w.owner[a] = b  BY <1>2 DEF i, b
  <1> QED  BY <1>1, <1>3, <1>5, <1>6, <1>7, <1>8, <1>9, <1>10 DEF NestedInstr

(* What find_blocks makes of valid code is what interpret() presumes about *)
(* it without a check: NestingAssumption of Interpreter.tla.               *)
THEOREM LoadedModuleIsWellNested == Spec => []LoadedIsWellNested
  <1>1. ASSUME Loaded, Targeted  PROVE WellNested(LoadedModule)
    <2>1. PICK w : w = LoadedModule  OBVIOUS
    <2>2. IsInput(input)  BY <1>1, InputsAssumption DEF Loaded, FindBlocksInv
    <2>3. \A b \in DOMAIN w.labels :
            /\ NestedBlock(w, b)
            /\ b \in Local \/ b \in DOMAIN blocks
      <3> TAKE b \in DOMAIN w.labels
      <3>1. b \in Local \/ b \in DOMAIN blocks  BY <1>1, <2>1, LoadedFields
      <3>2. CASE b \in DOMAIN blocks  BY <1>1, <2>1, <3>2, NestedControl
      <3>3. CASE b \in Local
        <4>1. PICK g \in DOMAIN input.range : b = FuncBlock(g)  BY <3>3 DEF Local
        <4> QED  BY <1>1, <2>1, <3>1, <4>1, NestedFunction
      <3> QED  BY <3>1, <3>2, <3>3
    <2>4. \A a \in DOMAIN w.code : NestedInstr(w, a)
      <3>1. w.code = input.code  BY <1>1, <2>1, LoadedFields
      <3> QED  BY <1>1, <2>1, <3>1, NestedCode
    <2>5. \A b \in DOMAIN w.block : /\ w.block[b].block_type \in BlockType
                                    /\ w.block[b].type \in FuncType
                                    /\ w.block[b].locals \in Seq(ValueType)
      <3>0. \A r : /\ FunctionBlock(r).block_type \in BlockType
                   /\ FunctionBlock(r).type \in FuncType
                   /\ FunctionBlock(r).locals \in Seq(ValueType)
        <4>1. <<>> \in Seq(ValueType)  OBVIOUS
        <4> QED  BY <4>1 DEF FunctionBlock, BlockType, FuncType
      <3> TAKE b \in DOMAIN w.block
      <3>1. b \in Local \/ b \in DOMAIN blocks \/ b \in Hosts  BY <1>1, <2>1, LoadedFields
      <3>2. CASE b \in Local
        <4>1. PICK g \in DOMAIN input.range : b = FuncBlock(g)  BY <3>2 DEF Local
        <4>2. w.block[b] = FunctionBlock(input.range[g])  BY <1>1, <2>1, <4>1, LoadedFunctionFields
        <4> QED  BY <3>0, <4>2
      <3>3. CASE b \in Hosts
        <4>1. w.block[b] = FunctionBlock([start_addr |-> 0, end_addr |-> 0])
          BY <1>1, <2>1, <3>3, LoadedHostFields
        <4> QED  BY <3>0, <4>1
      <3>4. CASE b \in DOMAIN blocks
        <4>1. w.block[b] = ControlBlock(blocks[b])  BY <1>1, <2>1, <3>4, LoadedControlFields
        <4>2. blocks[b] \in FoundBlock  BY <1>1, <3>4, LoadedBlocks
        <4>3. <<>> \in Seq(ValueType) /\ 0 \in Nat  OBVIOUS
        <4> QED
          BY <4>1, <4>2, <4>3 DEF ControlBlock, FoundBlock, BlockType, BlockOps, FuncType
      <3> QED  BY <3>1, <3>2, <3>3, <3>4
    <2>6. \A h \in DOMAIN w.functions :
            /\ h \in Nat /\ w.functions[h] \in DOMAIN w.block
            /\ h >= w.import_func_count => /\ w.functions[h] \in DOMAIN w.labels
                                           /\ IsFunction(w, w.functions[h])
      <3>1. w.functions = [g \in 0 .. input.import_func_count - 1 \cup DOMAIN input.range |->
                             FuncBlock(g)]
        BY <1>1, <2>1, LoadedFields
      <3>2. w.import_func_count = input.import_func_count /\ w.import_func_count \in Nat
        <4>1. w.import_func_count = input.import_func_count  BY <1>1, <2>1, LoadedFields
        <4> QED  BY <2>2, <4>1 DEF IsInput
      <3>3. DOMAIN w.labels = Local \cup DOMAIN blocks
            /\ DOMAIN w.block = Local \cup DOMAIN blocks \cup Hosts
        BY <1>1, <2>1, LoadedFields
      <3> TAKE h \in DOMAIN w.functions
      <3>4. CASE h \in DOMAIN input.range
        <4>1. h \in Nat  BY <2>2, <3>4 DEF IsInput, Numbered
        <4>2. IsFunction(w, FuncBlock(h))  BY <1>1, <2>1, <3>4, NestedFunction
        <4> QED  BY <3>1, <3>3, <3>4, <4>1, <4>2 DEF Local
      <3>5. CASE h \in 0 .. input.import_func_count - 1
        <4>1. h \in Nat /\ ~(h >= w.import_func_count)  BY <3>2, <3>5
        <4> QED  BY <3>1, <3>3, <3>5, <4>1 DEF Hosts
      <3> QED  BY <3>1, <3>4, <3>5
    <2>7. /\ w.import_func_count \in Nat /\ w.exports = {}
          /\ w.table = [cur_size |-> 0, max_size |-> 0, entries |-> [i \in {} |-> 0]]
      <3>1. w.import_func_count = input.import_func_count  BY <1>1, <2>1, LoadedFields
      <3>2. w.exports = {}  BY <1>1, <2>1, LoadedFields
      <3>3. w.table = [cur_size |-> 0, max_size |-> 0, entries |-> [i \in {} |-> 0]]
        BY <1>1, <2>1, LoadedFields
      <3> QED  BY <2>2, <3>1, <3>2, <3>3 DEF IsInput
    <2>8. w.table.max_size \in Nat
          /\ w.table.entries \in [0 .. w.table.cur_size - 1 -> DOMAIN w.functions]
      <3>1. 0 .. 0 - 1 = {}  OBVIOUS
      <3>2. w.table.max_size = 0 /\ w.table.cur_size = 0 /\ w.table.entries = [i \in {} |-> 0]
        BY <2>7
      <3> QED  BY <3>1, <3>2
    <2>9. DOMAIN w.labels \subseteq DOMAIN w.block  BY <1>1, <2>1, LoadedFields
    <2>10. WellNested(w)
      BY <2>3, <2>4, <2>5, <2>6, <2>7, <2>8, <2>9 DEF WellNested
    <2> QED  BY <2>1, <2>10
  <1>2. FindBlocksInv /\ NestingInv => LoadedIsWellNested
    BY <1>1 DEF LoadedIsWellNested, Loaded
  <1> QED  BY <1>2, FindBlocksInvariant, NestingInvariant, PTL

=============================================================================
