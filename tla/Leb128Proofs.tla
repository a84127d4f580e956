----------------------------- MODULE Leb128Proofs -----------------------------
(***************************************************************************)
(* read_LEB reads what WebAssembly permits as the number it stands for,    *)
(* whatever the widths and whatever the callers ask for.                   *)
(***************************************************************************)
EXTENDS Leb128, TLAPS

(* While no byte is too many, the bits written so far are in place; the    *)
(* last byte may add the sign.                                             *)
Placed ==
  Len(groups) <= Bytes(read.maxbits) =>
    result = (Written \cap Bits)
               \cup (IF status = "done" /\ Negative /\ shift < read.maxbits
                     THEN MinusPowerInt(shift) ELSE {})

LebInv ==
  /\ TypeOK
  /\ Placed
  /\ status = "reading" => Len(groups) <= Bytes(read.maxbits)
  /\ status = "exited" => Len(groups) > Bytes(read.maxbits)

-----------------------------------------------------------------------------
LEMMA ProductNat ==
  ASSUME NEW a \in Nat, NEW b \in Nat
  PROVE  a * b \in Nat
  OBVIOUS

LEMMA ProductMonotone ==
  ASSUME NEW a \in Nat, NEW b \in Nat, NEW c \in Nat, a <= b
  PROVE  c * a <= c * b
  OBVIOUS

LEMMA Distributive ==
  ASSUME NEW a \in Int, NEW b \in Int, NEW c \in Int
  PROVE  a * (b + c) = a * b + a * c
  OBVIOUS

LEMMA QuotientBound ==
  ASSUME NEW x \in Nat, NEW d \in Nat \ {0}
  PROVE  x \div d \in Nat /\ d * (x \div d) <= x
  OBVIOUS

LEMMA ModSmall ==
  ASSUME NEW x \in Nat, NEW d \in Nat, x < d
  PROVE  x % d = x
  OBVIOUS

(* A byte that is not one too many starts below the width asked for.       *)
LEMMA StartsInside ==
  ASSUME NEW m \in Nat, NEW n \in Nat, n + 1 <= Bytes(m)
  PROVE  GROUP * n < m
  <1> DEFINE q == (m + GROUP - 1) \div GROUP
  <1>1. GROUP \in Nat \ {0} /\ m + GROUP - 1 \in Nat
    BY Leb128Assumption
  <1>2. q \in Nat /\ GROUP * q <= m + GROUP - 1
    BY <1>1, QuotientBound
  <1>3. n + 1 <= q
    BY DEF Bytes
  <1> HIDE DEF q
  <1>4. GROUP * (n + 1) <= GROUP * q
    BY <1>1, <1>2, <1>3, ProductMonotone
  <1>5. GROUP * (n + 1) = GROUP * n + GROUP
    BY <1>1, Distributive
  <1>6. GROUP * n \in Nat
    BY <1>1, ProductNat
  <1>7. QED
    BY <1>1, <1>2, <1>4, <1>5, <1>6

LEMMA WrittenStep ==
  ASSUME TypeOK, NEW payload, groups' = Append(groups, payload)
  PROVE  Written' = Written \cup {shift + b : b \in payload}
  <1>1. /\ DOMAIN groups = 1 .. Len(groups) /\ Len(groups) \in Nat
        /\ DOMAIN groups' = 1 .. Len(groups) + 1
        /\ \A i \in 1 .. Len(groups) : groups'[i] = groups[i]
        /\ groups'[Len(groups) + 1] = payload
    BY DEF TypeOK
  <1>2. \A i \in DOMAIN groups : Group(i)' = Group(i)
    BY <1>1 DEF Group
  <1>3. (Len(groups) + 1) - 1 = Len(groups)
    BY <1>1
  <1>4. {GROUP * ((Len(groups) + 1) - 1) + b : b \in groups'[Len(groups) + 1]}
          = {shift + b : b \in payload}
    BY <1>1, <1>3 DEF TypeOK
  <1>5. DOMAIN groups' = DOMAIN groups \cup {Len(groups) + 1}
    BY <1>1
  <1>6. \A i : i = Len(groups) + 1 => Group(i)' = {shift + b : b \in payload}
    BY <1>4 DEF Group
  <1>7. \A x : x \in Written' <=> \E i \in DOMAIN groups' : x \in Group(i)'
    BY DEF Written
  <1>8. \A x : x \in Written <=> \E i \in DOMAIN groups : x \in Group(i)
    BY DEF Written
  <1>9. \A x : x \in Written' <=> x \in Written \/ x \in {shift + b : b \in payload}
    <2> SUFFICES ASSUME NEW x
                 PROVE x \in Written' <=> x \in Written \/ x \in {shift + b : b \in payload}
      OBVIOUS
    <2>1. (\E i \in DOMAIN groups' : x \in Group(i)')
            <=> \/ \E i \in DOMAIN groups : x \in Group(i)'
                \/ x \in {shift + b : b \in payload}
      BY <1>5, <1>6
    <2>2. QED
      BY <1>2, <1>6, <1>7, <1>8, <2>1
  <1>10. QED
    BY <1>9

(* No bit is written beyond the last byte.                                 *)
LEMMA WrittenBelow ==
  ASSUME TypeOK, NEW b \in Written
  PROVE  b \in Nat /\ b < Length
  <1>1. GROUP \in Nat /\ Len(groups) \in Nat /\ DOMAIN groups = 1 .. Len(groups)
        /\ \A i \in DOMAIN groups : groups[i] \subseteq 0 .. GROUP - 1
    BY Leb128Assumption DEF TypeOK
  <1>2. PICK i \in DOMAIN groups : \E d \in groups[i] : b = GROUP * (i - 1) + d
    BY DEF Written, Group
  <1>3. PICK d \in groups[i] : b = GROUP * (i - 1) + d
    BY <1>2
  <1> DEFINE k == i - 1
  <1>4. /\ k \in Nat /\ k + 1 <= Len(groups) /\ d \in Nat /\ d < GROUP
        /\ b = GROUP * k + d
    BY <1>1, <1>3
  <1> HIDE DEF k
  <1>5. GROUP * (k + 1) <= GROUP * Len(groups)
    BY <1>1, <1>4, ProductMonotone
  <1>6. GROUP * (k + 1) = GROUP * k + GROUP
    BY <1>1, <1>4, Distributive
  <1>7. GROUP * k \in Nat /\ GROUP * Len(groups) \in Nat
    BY <1>1, <1>4, ProductNat
  <1>8. QED
    BY <1>1, <1>4, <1>5, <1>6, <1>7 DEF Length

LEMMA BytesNat ==
  ASSUME NEW m \in Nat \ {0}
  PROVE  Bytes(m) \in Nat
  <1>1. GROUP \in Nat \ {0} /\ m + GROUP - 1 \in Nat
    BY Leb128Assumption
  <1>2. QED
    BY <1>1, QuotientBound DEF Bytes

LEMMA ReadType ==
  ASSUME read \in Reads
  PROVE  /\ read.maxbits \in Nat \ {0} /\ read.maxbits <= WORD
         /\ read.sign = "signed" => read.maxbits \in {INT, WORD}
  BY Leb128Assumption

-----------------------------------------------------------------------------
LEMMA InitLebInv == Init => LebInv
  <1> SUFFICES ASSUME Init PROVE LebInv
    OBVIOUS
  <1>1. Bytes(read.maxbits) \in Nat
    BY ReadType, BytesNat DEF Init
  <1>2. groups = <<>> /\ Len(groups) = 0 /\ GROUP * 0 = 0
    BY Leb128Assumption DEF Init
  <1>3. Written = {}
    BY <1>2 DEF Written
  <1>4. TypeOK
    BY <1>1, <1>2 DEF Init, TypeOK
  <1>5. QED
    BY <1>1, <1>2, <1>3, <1>4 DEF Init, LebInv, Placed

LEMMA MinusPowerType ==
  ASSUME NEW count \in Nat
  PROVE  MinusPowerInt(count) \subseteq Bits
  BY Leb128Assumption DEF MinusPowerInt, Bits

LEMMA PayloadType ==
  ASSUME read \in Reads, NEW payload \in Payloads[read.maxbits]
  PROVE  payload \subseteq 0 .. GROUP - 1
  <1>1. Payloads[read.maxbits] \subseteq SUBSET (0 .. GROUP - 1)
    BY Leb128Assumption
  <1>2. QED
    BY <1>1

LEMMA StepType ==
  ASSUME LebInv, NEW payload \in Payloads[read.maxbits], NEW more \in BOOLEAN,
         ReadByte(payload, more)
  PROVE  TypeOK'
  <1>1. /\ GROUP \in Nat \ {0} /\ payload \subseteq 0 .. GROUP - 1
        /\ groups \in Seq(SUBSET (0 .. GROUP - 1)) /\ Len(groups) \in Nat
        /\ read \in Reads /\ read' = read
        /\ status = "reading"
    BY Leb128Assumption, PayloadType DEF LebInv, TypeOK, ReadByte
  <1>2. Bytes(read.maxbits) \in Nat
    BY <1>1, ReadType, BytesNat
  <1>3. groups' \in Seq(SUBSET (0 .. GROUP - 1)) /\ Len(groups') = Len(groups) + 1
    BY <1>1 DEF ReadByte
  <1>4. shift' = GROUP * Len(groups') /\ shift' \in Nat /\ shift' = shift + GROUP
    <2>1. GROUP * (Len(groups) + 1) = GROUP * Len(groups) + GROUP
      BY <1>1, Distributive
    <2>2. GROUP * Len(groups) \in Nat
      BY <1>1, ProductNat
    <2>3. QED
      BY <1>1, <1>3, <2>1, <2>2 DEF LebInv, TypeOK, ReadByte
  <1>5. Continues(payload) \subseteq Bits
    BY DEF Continues, ShiftLeft, LebInv, TypeOK
  <1>6. MinusPowerInt(shift + GROUP) \subseteq Bits
    BY <1>4, MinusPowerType
  <1>7. bcnt \in Nat /\ bcnt = Len(groups) /\ bcnt <= Bytes(read.maxbits)
    BY <1>1, <1>2 DEF LebInv, TypeOK
  <1>8. CASE more
    BY <1>1, <1>2, <1>3, <1>4, <1>5, <1>7, <1>8 DEF ReadByte, More, TypeOK
  <1>9. CASE ~more
    BY <1>1, <1>2, <1>3, <1>4, <1>5, <1>6, <1>7, <1>9 DEF ReadByte, Last, TypeOK
  <1>10. QED
    BY <1>8, <1>9

LEMMA StepPlaced ==
  ASSUME LebInv, NEW payload \in Payloads[read.maxbits], NEW more \in BOOLEAN,
         ReadByte(payload, more), TypeOK'
  PROVE  Placed'
  <1> DEFINE n == Len(groups)
  <1>1. /\ GROUP \in Nat \ {0} /\ payload \subseteq 0 .. GROUP - 1
        /\ groups' = Append(groups, payload) /\ n \in Nat /\ Len(groups') = n + 1
        /\ groups' # <<>> /\ groups'[Len(groups')] = payload
        /\ read' = read /\ read \in Reads /\ status = "reading"
        /\ shift = GROUP * n /\ shift \in Nat /\ shift' = shift + GROUP
        /\ WORD \in Nat
    <2>1. GROUP * n \in Nat
      BY Leb128Assumption, ProductNat DEF LebInv, TypeOK
    <2>2. payload \subseteq 0 .. GROUP - 1
      BY PayloadType DEF LebInv, TypeOK
    <2>3. groups \in Seq(SUBSET (0 .. GROUP - 1)) /\ groups' = Append(groups, payload)
      BY DEF LebInv, TypeOK, ReadByte
    <2>4. n \in Nat /\ Len(groups') = n + 1 /\ groups' # <<>> /\ groups'[n + 1] = payload
      BY <2>2, <2>3
    <2>5. QED
      BY <2>1, <2>2, <2>3, <2>4, Leb128Assumption DEF LebInv, TypeOK, ReadByte
  <1> SUFFICES ASSUME n + 1 <= Bytes(read.maxbits)
               PROVE result' = (Written' \cap Bits)
                                 \cup (IF status' = "done" /\ Negative' /\ shift' < read.maxbits
                                       THEN MinusPowerInt(shift') ELSE {})
    BY <1>1 DEF Placed, MinusPowerInt, Bits
  <1>2. shift < read.maxbits /\ read.maxbits <= WORD
    BY <1>1, StartsInside, ReadType
  <1>3. shift % WORD = shift
    BY <1>1, <1>2, ReadType, ModSmall
  <1>4. result = Written \cap Bits
    <2>1. n <= Bytes(read.maxbits)
      BY <1>1 DEF LebInv
    <2>2. QED
      BY <1>1, <2>1 DEF LebInv, Placed
  <1>5. Written' = Written \cup {shift + b : b \in payload}
    BY <1>1, WrittenStep DEF LebInv
  <1>6. Continues(payload) = Written' \cap Bits
    <2>1. \A b \in payload : b + (shift % WORD) = shift + b
      BY <1>1, <1>3
    <2>2. ShiftLeft(payload, shift) = {shift + b : b \in payload} \cap Bits
      BY <2>1 DEF ShiftLeft
    <2>3. QED
      BY <1>4, <1>5, <2>2 DEF Continues
  <1>7. CASE more
    BY <1>1, <1>6, <1>7 DEF ReadByte, More
  <1>8. CASE ~more
    <2>1. Negative' <=> read.sign = "signed" /\ GROUP - 1 \in payload
      BY <1>1 DEF Negative
    <2>2. Extends(payload) <=> Negative' /\ shift' < read.maxbits
      BY <1>1, <2>1 DEF Extends
    <2>3. QED
      BY <1>1, <1>6, <1>8, <2>2 DEF ReadByte, Last
  <1>9. QED
    BY <1>7, <1>8

LEMMA NextLebInv == LebInv /\ [Next]_vars => LebInv'
  <1> SUFFICES ASSUME LebInv, [Next]_vars PROVE LebInv'
    OBVIOUS
  <1>1. CASE Next
    <2>1. PICK payload \in Payloads[read.maxbits], more \in BOOLEAN : ReadByte(payload, more)
      BY <1>1 DEF Next
    <2>2. TypeOK' /\ Placed'
      BY <2>1, StepType, StepPlaced
    <2>3. bcnt = Len(groups) /\ bcnt \in Nat /\ read' = read /\ Len(groups') = bcnt + 1
      BY <2>1 DEF LebInv, TypeOK, ReadByte
    <2>4. Bytes(read.maxbits) \in Nat
      BY ReadType, BytesNat DEF LebInv, TypeOK
    <2>5. QED
      BY <2>1, <2>2, <2>3, <2>4 DEF LebInv, ReadByte, More, Last, TooLong
  <1>2. CASE UNCHANGED vars
    BY <1>2 DEF vars, LebInv, TypeOK, Placed, Written, Group, Negative
  <1>3. QED
    BY <1>1, <1>2

LEMMA InvDecodes ==
  ASSUME LebInv
  PROVE  DecodesAgree
  <1>1. /\ read.maxbits \in Nat \ {0} /\ read.maxbits <= WORD
        /\ (read.sign = "signed" => read.maxbits \in {INT, WORD})
        /\ Bytes(read.maxbits) \in Nat /\ Len(groups) \in Nat
        /\ INT \in Nat \ {0} /\ WORD \in Nat /\ INT <= WORD
    BY ReadType, BytesNat, Leb128Assumption DEF LebInv, TypeOK
  <1>2. ASSUME status = "done", Permitted, ~Misextended
        PROVE  Assigned = Number
    <2>1. Length \in Nat /\ shift = Length
      BY <1>1, ProductNat, Leb128Assumption DEF LebInv, TypeOK, Length
    <2>2. result = (Written \cap Bits) \cup (IF Negative /\ Length < read.maxbits
                                           THEN MinusPowerInt(Length) ELSE {})
      BY <1>2, <2>1 DEF LebInv, Placed, Permitted
    <2>3. Negative /\ Length < read.maxbits => MinusPowerInt(Length) = Length .. WORD - 1
      <3> SUFFICES ASSUME Negative, Length < read.maxbits
                   PROVE MinusPowerInt(Length) = Length .. WORD - 1
        OBVIOUS
      <3>1. Length < INT
        BY <1>1, <1>2, <2>1 DEF Misextended
      <3>2. Length % INT = Length
        BY <1>1, <2>1, <3>1, ModSmall
      <3>3. QED
        BY <3>2 DEF MinusPowerInt
    <2>4. \A b \in Written : b \in Nat /\ b < Length
      BY WrittenBelow DEF LebInv
    <2>5. Width \in Nat /\ Width <= WORD /\ (read.sign = "signed" => Width = read.maxbits)
      BY <1>1 DEF Width
    <2>6. Negative => read.sign = "signed"
      BY DEF Negative
    <2>7. ASSUME NEW b \in 0 .. Width - 1
          PROVE  b \in result <=> (IF b < read.maxbits THEN Bit(b) ELSE SignBit)
      <3>1. b \in Bits /\ b \in Nat
        BY <1>1, <2>5 DEF Bits
      <3>2. b \in result <=> b \in Written \/ (Negative /\ Length < read.maxbits /\ Length <= b)
        BY <1>1, <2>1, <2>2, <2>3, <3>1 DEF Bits
      <3>3. CASE b < read.maxbits
        BY <1>1, <2>1, <2>4, <3>1, <3>2, <3>3 DEF Bit
      <3>4. CASE ~(b < read.maxbits) /\ b < Length
        <4>1. Bit(b) <=> SignBit
          BY <1>1, <1>2, <2>1, <3>1, <3>4 DEF Permitted
        <4>2. QED
          BY <2>1, <3>1, <3>2, <3>4, <4>1 DEF Bit
      <3>5. CASE ~(b < read.maxbits) /\ ~(b < Length)
        <4>1. read.sign # "signed"
          BY <1>1, <2>5, <3>5
        <4>2. QED
          BY <2>4, <2>6, <3>1, <3>2, <3>5, <4>1 DEF SignBit
      <3>6. QED
        BY <3>3, <3>4, <3>5
    <2>8. QED
      BY <2>7 DEF Assigned, Number
  <1>3. status = "exited" => Len(groups) >= Bytes(read.maxbits)
    BY <1>1 DEF LebInv
  <1>4. QED
    BY <1>2, <1>3 DEF DecodesAgree

(* At the boundary of every width a byte may be: read_LEB accepts what     *)
(* WebAssembly permits and returns the number it stands for, except for    *)
(* the negative numbers of more bits than an int that utils.c:65 extends   *)
(* in an int.                                                              *)
THEOREM NumbersAreReadAsWritten == Spec => []DecodesAgree
  <1>1. Spec => []LebInv
    BY InitLebInv, NextLebInv, PTL DEF Spec
  <1>2. LebInv => DecodesAgree
    BY InvDecodes
  <1>3. QED
    BY <1>1, <1>2, PTL

(* The position, the shift and the count of bytes stay in step and within  *)
(* one byte of what the width asked for needs.                             *)
THEOREM ReadsAreBounded == Spec => []TypeOK
  <1>1. Spec => []LebInv
    BY InitLebInv, NextLebInv, PTL DEF Spec
  <1>2. LebInv => TypeOK
    BY DEF LebInv
  <1>3. QED
    BY <1>1, <1>2, PTL

=============================================================================
