------------------------------- MODULE Leb128 --------------------------------
(***************************************************************************)
(* read_LEB: every number of a binary module, from section lengths to the  *)
(* operands of instructions, is read by it, a byte for each turn of its    *)
(* loop.  A number is the set of its bits that are 1; a byte is the set of *)
(* its GROUP payload bits and whether its top bit says that more follow.   *)
(***************************************************************************)
EXTENDS Integers, Sequences

CONSTANTS
  GROUP,      \* payload bits of a byte, 7 in the code
  WORD,       \* bits of uint64_t
  INT,        \* bits of int and of uint32_t
  Reads,      \* [maxbits, sign]: what the callers ask for
  Payloads    \* bound: the payloads bytes may have, for each of maxbits

ASSUME Leb128Assumption ==
  /\ GROUP \in Nat \ {0} /\ WORD \in Nat /\ INT \in Nat \ {0}
  /\ INT <= WORD
  /\ Reads \subseteq [maxbits : 1 .. WORD, sign : {"unsigned"}]
                     \cup [maxbits : {INT, WORD}, sign : {"signed"}]
  /\ \A r \in Reads : Payloads[r.maxbits] \subseteq SUBSET (0 .. GROUP - 1)

VARIABLES
  read,       \* the arguments maxbits and sign
  result,
  shift,
  bcnt,
  groups,     \* the payloads of the bytes between startpos and *pos
  status      \* "reading", "done", or "exited" by FATAL

vars == <<read, result, shift, bcnt, groups, status>>

Bits == 0 .. WORD - 1
Bytes(bits) == (bits + GROUP - 1) \div GROUP

Init ==
  /\ read \in Reads
  /\ result = {} /\ shift = 0 /\ bcnt = 0
  /\ groups = <<>>
  /\ status = "reading"

-----------------------------------------------------------------------------
(* The shift is undefined from WORD on, where the one byte too many of a   *)
(* 64-bit number is put: shift instructions reduce their count.            *)
ShiftLeft(payload, count) == {b + (count % WORD) : b \in payload} \cap Bits

(* -(1 << shift) is an int, extended to 64 bits by |=.  From INT on this   *)
(* shift is undefined, and reduced, too.                                   *)
MinusPowerInt(count) == (count % INT) .. WORD - 1

Continues(payload) == result \cup ShiftLeft(payload, shift)

ExtendsPositive(payload) ==    \* fault: the sign bit is not tested
  read.sign = "signed" /\ shift + GROUP < read.maxbits

Extends(payload) ==
  /\ read.sign = "signed"
  /\ shift + GROUP < read.maxbits
  /\ GROUP - 1 \in payload

TooLongLate(count) == count > Bytes(read.maxbits) + 1       \* fault: another byte late
TooLong(count) == count > Bytes(read.maxbits)

Last(payload) ==
  /\ result' = Continues(payload)
                 \cup IF Extends(payload) THEN MinusPowerInt(shift + GROUP) ELSE {}
  /\ status' = "done"
  /\ UNCHANGED bcnt

More(payload) ==
  /\ result' = Continues(payload)
  /\ bcnt' = bcnt + 1
  /\ status' = IF TooLong(bcnt + 1) THEN "exited" ELSE "reading"

ReadByte(payload, more) ==
  /\ status = "reading"
  /\ groups' = Append(groups, payload)
  /\ shift' = shift + GROUP
  /\ IF more THEN More(payload) ELSE Last(payload)
  /\ UNCHANGED read

Next == \E payload \in Payloads[read.maxbits], more \in BOOLEAN : ReadByte(payload, more)

Spec == Init /\ [][Next]_vars

-----------------------------------------------------------------------------
(***************************************************************************)
(* The number the bytes stand for.                                         *)
(***************************************************************************)
Group(i) == {GROUP * (i - 1) + b : b \in groups[i]}
Written == UNION {Group(i) : i \in DOMAIN groups}

Length == GROUP * Len(groups)
Negative == read.sign = "signed" /\ groups # <<>> /\ GROUP - 1 \in groups[Len(groups)]
Bit(b) == IF b < Length THEN b \in Written ELSE Negative

(* Callers that ask for at most INT bits assign to a uint32_t.             *)
Width == IF read.maxbits > INT THEN WORD ELSE INT
Assigned == result \cap 0 .. Width - 1

SignBit == read.sign = "signed" /\ Bit(read.maxbits - 1)
Number == {b \in 0 .. Width - 1 : IF b < read.maxbits THEN Bit(b) ELSE SignBit}

(* WebAssembly's uN and sN: no more bytes than N bits need, and what the   *)
(* last of them has beyond N bits repeats the sign, or is zero.            *)
Permitted ==
  /\ Len(groups) <= Bytes(read.maxbits)
  /\ \A p \in read.maxbits .. Length - 1 : Bit(p) <=> SignBit

(* A negative number of 64 bits in five to nine bytes: the int of          *)
(* utils.c:65 is too narrow for the shift.                                 *)
Misextended == Negative /\ INT <= shift /\ shift < read.maxbits

TypeOK ==
  /\ read \in Reads
  /\ result \subseteq Bits
  /\ bcnt \in 0 .. Bytes(read.maxbits) + 1
  /\ groups \in Seq(SUBSET (0 .. GROUP - 1))
  /\ Len(groups) = IF status = "done" THEN bcnt + 1 ELSE bcnt
  /\ shift = GROUP * Len(groups)
  /\ status \in {"reading", "done", "exited"}

(* What WebAssembly permits is accepted and read as the number it stands   *)
(* for, at every width and sign the loader and the interpreter ask for -   *)
(* but for the negative numbers whose extension is computed in an int.     *)
DecodesAgree ==
  /\ status = "done" /\ Permitted /\ ~Misextended => Assigned = Number
  /\ status = "exited" => Len(groups) >= Bytes(read.maxbits)

=============================================================================
