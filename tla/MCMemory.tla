------------------------------ MODULE MCMemory -------------------------------
(***************************************************************************)
(* A 4-bit uint32_t.  As in the code a page has 2 ^ (w / 2) bytes and a    *)
(* memory may grow to 2 ^ (w / 2 - 1) pages, so 2 ^ (w / 2) pages, which   *)
(* WebAssembly allows, are more bytes than a uint32_t counts.              *)
(***************************************************************************)
EXTENDS LawfulMemory

Limit(min, max) == [flags |-> 1, min |-> min, max |-> max]
AtLeast(min) == [flags |-> 0, min |-> min, max |-> 0]

MCLimits == {AtLeast(0), Limit(1, 3), Limit(2, 2), AtLeast(4)}

(* Bytes with and without a sign bit, and what sign extension writes.      *)
MCByte == {0, 127, 128, 255}
MCNegative == {128, 255}

MCValues == {[i \in 0 .. 7 |-> IF i % 2 = 0 THEN 128 ELSE 127]}

=============================================================================
