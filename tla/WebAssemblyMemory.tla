-------------------------- MODULE WebAssemblyMemory --------------------------
(***************************************************************************)
(* What WebAssembly promises a program about its linear memory: bytes,     *)
(* zero until something is stored, that grow by whole pages up to a limit, *)
(* and that change through the instructions below only.  The promise is    *)
(* made to programs that stay inside: from the first access outside of the *)
(* memory, or the first memory.grow that is refused, anything may happen;  *)
(* an implementation may also decline a memory from the start.             *)
(***************************************************************************)
EXTENDS Integers

CONSTANTS PAGE_SIZE, Byte, Negative, FF, Limits

VARIABLES
  mem,       \* address -> byte
  pages,     \* its size
  limit,     \* the most pages it may have
  asked,     \* the last instruction, with its operands
  answer,    \* the operand it pushed
  kept       \* whether the promise still holds

vars == <<mem, pages, limit, asked, answer, kept>>

Types == {"i32", "i64", "f32", "f64"}
WidthOf(type) == IF type \in {"i32", "f32"} THEN 4 ELSE 8

Loads == [op : {"load"}, type : Types, n : {1, 2, 4, 8}, ext : {"s", "u"}, address : Nat]
Stores == [op : {"store"}, n : {1, 2, 4, 8}, address : Nat, value : [0 .. 7 -> Byte]]
Growths == [op : {"grow"}, delta : Nat]

Inside(address, n) == address + n <= pages * PAGE_SIZE

Nothing == [type |-> "none", value |-> [i \in 0 .. 7 |-> 0]]

Init ==
  /\ \E limits \in Limits : /\ pages = limits.min
                            /\ limits.flags = 1 => limit <= limits.max
  /\ limit \in Nat
  /\ mem = [i \in 0 .. pages * PAGE_SIZE - 1 |-> 0]
  /\ answer = Nothing
  /\ kept \in BOOLEAN

(* n bytes, little-endian, extended to the width of the type with zeros or *)
(* with the sign of the last byte.                                         *)
Extension(ext, last) == IF ext = "s" /\ last \in Negative THEN FF ELSE 0

ByteOf(type, n, ext, address, i) ==
  CASE i < n -> mem[address + i]
    [] i >= n /\ i < WidthOf(type) -> Extension(ext, mem[address + n - 1])
    [] OTHER -> 0

Load(type, n, ext, address) ==
  /\ kept /\ Inside(address, n)
  /\ answer' = [type |-> type,
                value |-> [i \in 0 .. 7 |-> ByteOf(type, n, ext, address, i)]]
  /\ UNCHANGED <<mem, pages, limit, kept>>

Store(n, address, value) ==
  /\ kept /\ Inside(address, n)
  /\ mem' = [i \in DOMAIN mem |->
               IF i - address \in 0 .. n - 1 THEN value[i - address] ELSE mem[i]]
  /\ answer' = Nothing
  /\ UNCHANGED <<pages, limit, kept>>

Size ==
  /\ kept
  /\ answer' = [type |-> "i32", pages |-> pages]
  /\ UNCHANGED <<mem, pages, limit, kept>>

Grow(delta) ==
  /\ kept
  /\ delta # 0 => pages + delta <= limit
  /\ pages' = pages + delta
  /\ mem' = [i \in 0 .. pages' * PAGE_SIZE - 1 |-> IF i \in DOMAIN mem THEN mem[i] ELSE 0]
  /\ answer' = [type |-> "i32", pages |-> pages]
  /\ UNCHANGED <<limit, kept>>

End == ~kept'

Next ==
  \/ asked' \in Loads /\ Load(asked'.type, asked'.n, asked'.ext, asked'.address)
  \/ asked' \in Stores /\ Store(asked'.n, asked'.address, asked'.value)
  \/ asked' = [op |-> "size"] /\ Size
  \/ asked' \in Growths /\ Grow(asked'.delta)
  \/ End

Spec == Init /\ [][Next]_vars

=============================================================================
