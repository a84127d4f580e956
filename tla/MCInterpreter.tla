---------------------------- MODULE MCInterpreter ----------------------------
(***************************************************************************)
(* Every valid function body up to a length, for the control instructions. *)
(***************************************************************************)
EXTENDS InterpreterProperties, Assembler

CONSTANT MaxBody   \* instructions in a generated body, the last end included

I32 == <<"i32">>
Sig(params, results) == [params |-> params, results |-> results, mask |-> 0]
MCBits == [t \in ValueType |-> IF t = "i32" THEN 2 ELSE 4]
Number(v) == Val("i32", v)

Function(type, locals, body) ==
  [type |-> type, locals |-> locals, body |-> body, exported |-> TRUE]

Program(funcs) ==
  [imports |-> <<>>, funcs |-> funcs, types |-> <<>>,
   table |-> [cur_size |-> 0, max_size |-> 0, entries |-> [i \in {} |-> 0]],
   globals |-> [i \in {} |-> ZeroSlot], residue |-> ZeroSlot]

(***************************************************************************)
(* Bodies(n, ctrl, h): the instruction sequences of at most n instructions *)
(* that complete a body when the open blocks are ctrl, innermost first,    *)
(* and h operands are on the stack (-1 after an instruction that never     *)
(* falls through: only else or end can follow).                            *)
(***************************************************************************)
Open(op, entry, res) == [op |-> op, entry |-> entry, res |-> res]
LabelArityOf(c) == IF c.op = "loop" THEN 0 ELSE c.res

RECURSIVE Bodies(_, _, _)
Bodies(n, ctrl, h) ==
  IF Len(ctrl) > n THEN {} ELSE
  LET c == Head(ctrl)
      Then(op, imm, next, h2) == {<<<<op, imm>>>> \o r : r \in Bodies(n - 1, next, h2)}
      Results(res) == IF res = 1 THEN I32 ELSE <<>>
      Depths0(need) == {d \in 0 .. Len(ctrl) - 1 : h - need >= c.entry + LabelArityOf(ctrl[d + 1])}
      ended == h \in {-1, c.entry + c.res} /\ (c.op = "if" => c.res = 0)
  IN (IF ~ended THEN {}
      ELSE IF Len(ctrl) = 1 THEN {<<<<"end", 0>>>>}
      ELSE Then("end", 0, Tail(ctrl), c.entry + c.res))
     \cup (IF c.op = "if" /\ h \in {-1, c.entry + c.res}
             THEN Then("else", 0, <<Open("else", c.entry, c.res)>> \o Tail(ctrl), c.entry)
             ELSE {})
     \cup (IF h = -1 THEN {} ELSE
       UNION {Then("const", Number(v), ctrl, h + 1) : v \in {0, 1}}
       \cup UNION {Then(op, Results(res), <<Open(op, h, res)>> \o ctrl, h) :
                     op \in {"block", "loop"}, res \in {0, 1}}
       \cup UNION {Then("br", d, ctrl, -1) : d \in Depths0(0)}
       \cup (IF h = c.entry THEN {} ELSE
         Then("drop", 0, ctrl, h - 1)
         \cup UNION {Then("if", Results(res), <<Open("if", h - 1, res)>> \o ctrl, h - 1) :
                       res \in {0, 1}}
         \cup UNION {Then("br_if", d, ctrl, h - 1) : d \in Depths0(1)}))

(* TLC evaluates a definition such as Generated once, but one that a .cfg  *)
(* substitutes for a constant at each use: hence the second name.          *)
Generated ==
  {Assemble(Program(<<Function(Sig(<<>>, I32), <<>>, body)>>)) :
     body \in Bodies(MaxBody, <<Open("function", 0, 1)>>, 0)}

MCModules == Generated

=============================================================================
