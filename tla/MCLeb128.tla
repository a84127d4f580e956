------------------------------ MODULE MCLeb128 -------------------------------
(***************************************************************************)
(* The widths of the code itself.  Among the payloads are what a last byte *)
(* of 32 or 64 bits has below the top bit of the number.                   *)
(***************************************************************************)
EXTENDS Leb128

Unsigned(bits) == [maxbits |-> bits, sign |-> "unsigned"]
Signed(bits) == [maxbits |-> bits, sign |-> "signed"]

MCReads == {Unsigned(1), Unsigned(7), Unsigned(8), Unsigned(32), Unsigned(64),
            Signed(32), Signed(64)}

MCPayloads ==
  [bits \in {1, 7, 8, 32, 64} |->
     IF bits = 64 THEN {{}, {0}, 0 .. 6} ELSE {{}, {0}, {6}, 0 .. 3, 0 .. 6}]

=============================================================================
