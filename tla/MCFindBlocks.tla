---------------------------- MODULE MCFindBlocks -----------------------------
(***************************************************************************)
(* Every sequence of instruction kinds up to a length, balanced or not, as *)
(* the body of a function; and pairs of shorter ones.                      *)
(***************************************************************************)
EXTENDS FindBlocks, SequencesExt

CONSTANTS MaxBody, MaxPairBody   \* instructions before the last one

(* nop stands for an instruction without immediates, const for one whose   *)
(* immediate may be the byte 0x0b; "untyped" is a block whose next byte is *)
(* no block type.  A br of depth 1 has a target in a block only.           *)
Kinds == {"block", "loop", "if", "else", "end", "nop", "br"}
Size(k) == IF k \in {"block", "loop", "if", "br", "const", "untyped"} THEN 2 ELSE 1
Instr(k, addr) ==
  [op |-> IF k = "untyped" THEN "block" ELSE k, next |-> addr + Size(k),
   imm |-> CASE k = "untyped" -> "invalid" [] k = "loop" -> "i32" [] k = "br" -> 1
             [] OTHER -> "void"]

(* The last byte of a body is 0x0b: an end, or the immediate of a const.   *)
(* A body may also be empty: 0x0b was then read as the type of a local.    *)
Sequences(ks, n) == UNION {[1 .. k -> ks] : k \in 0 .. n}
Bodies(ks, n) == {s \o <<last>> : s \in Sequences(ks, n), last \in {"end", "const"}}

(* The function itself; TLC evaluates it here and not at each application. *)
Strict(fn) == fn @@ [x \in {} |-> x]

Start(body, n) == FoldLeft(LAMBDA sum, k : sum + Size(k), 0, SubSeq(body, 1, n - 1))
BodySize(body) == Start(body, Len(body) + 1)

Place(base, body) ==
  FoldLeft(LAMBDA code, n : code @@ (base + Start(body, n) :> Instr(body[n], base + Start(body, n))),
           [x \in {} |-> 0], [n \in 1 .. Len(body) |-> n])

(* Two bytes, a size and a count of locals, come before each body.         *)
Input(bodies) ==
  LET Base(x) == 2 + FoldLeft(LAMBDA sum, b : sum + 2 + BodySize(b), 0,
                              SubSeq(bodies, 1, x - 1))
  IN [code |-> FoldLeft(LAMBDA code, x : code @@ Place(Base(x), bodies[x]), [a \in {} |-> 0],
                        [x \in 1 .. Len(bodies) |-> x]),
      import_func_count |-> 1,
      range |-> Strict([x \in 1 .. Len(bodies) |->
                  [start_addr |-> Base(x), end_addr |-> Base(x) + BodySize(bodies[x]) - 1]])]

MCInputs ==
  {Input(<<b>>) : b \in Bodies(Kinds, MaxBody) \cup Bodies({"untyped", "end"}, 2)} \cup
  {Input(<<b, c>>) : b, c \in Bodies(Kinds, MaxPairBody) \cup {<<>>}}

=============================================================================
