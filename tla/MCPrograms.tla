----------------------------- MODULE MCPrograms ------------------------------
(***************************************************************************)
(* Programs written by hand for the opcodes that MCInterpreter.tla leaves  *)
(* out: calls, imports, the table, locals, globals, numbers and traps.     *)
(***************************************************************************)
EXTENDS StackRefinement, Assembler

I32 == <<"i32">>
I64 == <<"i64">>
Void == <<>>
(* As get_type_mask: a digit for each parameter, then one for the result.  *)
Digit(t) == IF t = "i32" THEN 1 ELSE 2
Mask(params, results) ==
  FoldLeft(LAMBDA m, t : 4 * m + Digit(t), 0, params) * 4
    + (IF results = Void THEN 0 ELSE Digit(results[1]))
Sig(params, results) ==
  [params |-> params, results |-> results, mask |-> Mask(params, results)]
Number(v) == Val("i32", v)
MCBits == [t \in ValueType |-> IF t = "i32" THEN 2 ELSE 3]

(* Instructions.                                                           *)
const(v) == <<"const", Number(v)>>
plain(op) == <<op, 0>>
end == plain("end")
op2(op) == <<"arith", [type |-> "i32", op |-> op]>>
wide(v) == <<"const", Val("i64", v)>>
op3(op) == <<"arith", [type |-> "i64", op |-> op]>>
convert(op) == <<"convert", [op |-> op]>>
rel(op) == <<"compare", [type |-> "i32", op |-> op]>>
table(targets, default) == <<"br_table", [targets |-> targets, default |-> default]>>

Table(entries, max) ==
  [cur_size |-> Len(entries), max_size |-> max,
   entries |-> Strict([e \in 0 .. Len(entries) - 1 |-> entries[e + 1]])]
NoTable == Table(<<>>, 0)
NoGlobals == [i \in {} |-> ZeroSlot]

Function(params, results, locals, body) ==
  [type |-> Sig(params, results), locals |-> locals, body |-> body, exported |-> TRUE]

Program(funcs) ==
  [imports |-> <<>>, funcs |-> funcs, types |-> NoGlobals,
   table |-> NoTable, globals |-> NoGlobals, residue |-> ZeroSlot]

(* 3 -> 2 -> 1 -> 0: each call waits inside an if.  And a caller that      *)
(* still needs the argument its callee overwrites a copy of.               *)
Recursive == Program(<<
  Function(I32, I32, I32,
    <<<<"local.get", 0>>,
      <<"if", I32>>,
        <<"local.get", 0>>, const(1), op2("sub"), <<"call", 0>>,
        <<"local.set", 1>>, <<"local.get", 1>>, const(1), op2("add"),
      plain("else"),
        const(0),
      end, end>>),
  Function(I32, I32, Void, <<<<"local.get", 0>>, <<"call", 2>>, <<"local.get", 0>>, end>>),
  Function(I32, Void, Void, <<const(1), <<"local.set", 0>>, end>>)>>)

(* Endless recursion that needs a frame and no operands; one that fills    *)
(* the operand stack with locals; two that leave the frame behind the call *)
(* stack to a br_table, which is lost if the jump goes there and dropped   *)
(* if it goes further out.                                                 *)
Runaway == Program(<<
  Function(Void, Void, Void, <<<<"call", 0>>, end>>),
  Function(Void, Void, I32 \o I64, <<<<"call", 1>>, end>>),
  Function(I32, Void, Void,
    <<<<"local.get", 0>>, table(<<0>>, 0), end>>),
  Function(I32, Void, Void,
    <<<<"block", Void>>, <<"block", Void>>, <<"block", Void>>, const(1), <<"call", 2>>,
      end, end, end, end>>),
  Function(Void, Void, Void,
    <<<<"block", Void>>, <<"block", Void>>, <<"block", Void>>, <<"block", Void>>,
      const(1), <<"if", Void>>, end, end, end, end, end, end>>),
  Function(Void, Void, Void,
    <<<<"block", Void>>, <<"block", Void>>, <<"block", Void>>, <<"block", Void>>,
      <<"block", Void>>, end, end, end, end, end, end>>),
  Function(I32, Void, Void,
    <<<<"block", Void>>, <<"block", Void>>, <<"block", Void>>, <<"block", Void>>,
      <<"local.get", 0>>, table(<<0, 1>>, 2), end, end, end, end, end>>) >>)

(* Each turn of a loop leaves an operand behind.                           *)
Leaks == [Program(<<
  Function(Void, Void, Void, <<<<"loop", Void>>, const(1), <<"br", 0>>, end, end>>),
  Function(I32, Void, Void, <<<<"loop", Void>>, <<"local.get", 0>>, <<"br", 0>>, end, end>>),
  Function(Void, Void, Void, <<<<"loop", Void>>, <<"global.get", 0>>, <<"br", 0>>, end, end>>)>>)
  EXCEPT !.globals = Strict([i \in {0} |-> Number(1)]), !.residue = Number(1)]

(* A loop that counts a global down, an early return from inside it, and a *)
(* jump table with one target too many.                                    *)
Loops == [Program(<<
  Function(I32, I32, Void,
    <<<<"local.get", 0>>, <<"global.set", 0>>,
      <<"loop", Void>>,
        <<"global.get", 0>>, const(1), op2("sub"), <<"global.set", 0>>,
        <<"global.get", 0>>, <<"br_if", 0>>,
      end, <<"global.get", 0>>, <<"eqz", "i32">>, end>>),
  Function(I32, I32, I32,
    <<const(2), <<"block", Void>>, <<"block", Void>>, <<"loop", Void>>,
        <<"local.get", 0>>, <<"local.tee", 1>>, table(<<0, 1>>, 2),
      end, end, end, plain("drop"), const(3), plain("return"), end>>),
  Function(I32, I32, Void,
    <<<<"local.get", 0>>, const(2), rel("lt_s"), <<"if", Void>>, const(1), plain("return"), end,
      const(0), end>>),
  Function(I32, I32, Void,
    <<const(1), <<"local.get", 0>>, table(<<0, 0, 0>>, 0), end>>)>>)
  EXCEPT !.globals = Strict([i \in {0} |-> Number(0)])]

(* Function 0 is imported.  Entry 0 of the table names it, the way an      *)
(* entry no element segment filled does; entry 2 has another signature,    *)
(* entry 3 does not exist.                                                 *)
Indirect == [Program(<<
  Function(I32, I32, Void, <<<<"local.get", 0>>, const(2), op2("mul"), end>>),
  Function(Void, Void, Void, <<plain("nop"), end>>),
  Function(I32, I32, Void,
    <<const(1), <<"local.get", 0>>, <<"call_indirect", 0>>, end>>),
  Function(Void, I32, Void,
    <<const(1), <<"block", I32>>, <<"block", Void>>, <<"block", Void>>, const(3), const(0),
      <<"call_indirect", 0>>, <<"br", 2>>, end, end, const(1), end,
      op2("add"), end>>),
  Function(I32, I32, I32 \o I32 \o I32,
    <<const(1), const(0), <<"call_indirect", 0>>, end>>) >>)
  EXCEPT !.imports = <<Sig(I32, I32)>>,
         !.types = Strict([t \in {0} |-> Sig(I32, I32)]),
         !.table = Table(<<0, 1, 2>>, 3)]

(* Nothing is imported and no branch leaves an operand: entry 0 of the     *)
(* table can be called, entry 1 has another signature, 2 does not exist.   *)
Dispatch == [Program(<<
  Function(I32, I32, I32, <<<<"local.get", 0>>, const(2), op2("mul"), end>>),
  Function(Void, Void, Void, <<plain("nop"), end>>),
  Function(I32, I32, Void,
    <<const(1), <<"local.get", 0>>, <<"call_indirect", 0>>, <<"local.get", 0>>, op2("add"), end>>),
  Function(Void, I32, Void,
    <<const(1), <<"block", I32>>, <<"block", Void>>, const(3), const(0),
      <<"call_indirect", 0>>, <<"br", 1>>, end, const(1), end, op2("add"), end>>),
  Function(I32, I32, Void,
    <<const(1), const(2), <<"local.get", 0>>, plain("select"), end>>)>>)
  EXCEPT !.types = Strict([t \in {0} |-> Sig(I32, I32)]), !.table = Table(<<0, 1>>, 2)]

(* The import is declared i64 -> i32, so skipping the call leaves an i64.  *)
(* The table may grow to two entries and has one.                          *)
Imports == [Program(<<
  Function(I64, I32, Void, <<<<"local.get", 0>>, <<"call", 0>>, end>>),
  Function(I64, I32, Void,
    <<const(1), const(2), <<"local.get", 0>>, <<"call", 0>>, plain("select"), end>>),
  Function(I32, I32, Void, <<const(1), const(2), <<"local.get", 0>>, plain("select"), end>>),
  Function(I64, I32, Void,
    <<<<"local.get", 0>>, <<"call", 0>>, const(0), <<"call_indirect", 0>>, end>>),
  Function(I32, I32, Void,
    <<<<"local.get", 0>>, <<"local.get", 0>>, <<"call_indirect", 0>>, end>>)>>)
  EXCEPT !.imports = <<Sig(I64, I32)>>,
         !.types = Strict([t \in {0} |-> Sig(I32, I32)]),
         !.table = Table(<<3>>, 2)]

Traps == Program(<<
  Function(I64, I32, Void, <<<<"local.get", 0>>, <<"eqz", "i64">>, end>>),
  Function(Void, Void, Void, <<<<"call", 5>>, end>>),
  Function(I32, I32, Void, <<const(1), <<"local.get", 0>>, op2("div_u"), end>>),
  Function(Void, Void, Void, <<plain("unreachable"), end>>),
  Function(Void, Void, Void, <<plain("unsupported"), end>>),
  Function(Void, Void, Void, <<plain("nop"), end>>)>>)

(* An indirect call that finds the call stack full, or no room for the     *)
(* locals of its callee; and a function that has too many for any call.    *)
TwoI32 == I32 \o I32
Full == [Program(<<
  Function(I32, I32, TwoI32 \o I32, <<<<"local.get", 0>>, end>>),
  Function(Void, Void, Void,
    <<<<"block", Void>>, <<"block", Void>>, <<"block", Void>>, <<"block", Void>>,
      const(1), const(0), <<"call_indirect", 0>>, plain("drop"), end, end, end, end, end>>),
  Function(Void, I32, TwoI32 \o TwoI32 \o I32, <<const(1), const(0), <<"call_indirect", 0>>, end>>),
  Function(I32, Void, TwoI32 \o TwoI32 \o TwoI32 \o TwoI32, <<end>>)>>)
  EXCEPT !.types = Strict([t \in {0} |-> Sig(I32, I32)]), !.table = Table(<<0>>, 1)]

(* Changes of width, and the division of the least number by -1: as an     *)
(* i32, and as an i64 where no test catches it.                            *)
Widths == Program(<<
  Function(I64, I64, Void,
    <<<<"local.get", 0>>, convert("wrap"), <<"count", [type |-> "i32", op |-> "clz"]>>,
      convert("extend_u"), end>>),
  Function(Void, I64, Void,
    <<const(2), convert("extend_s"), wide(7), op3("div_s"), end>>),
  Function(Void, I64, Void, <<wide(4), wide(7), op3("rem_s"), end>>),
  Function(I32, I32, Void,
    <<<<"local.get", 0>>, const(3), op2("div_s"),
      <<"convert", [op |-> "extend_n", type |-> "i32", bits |-> 1]>>, end>>)>>)

(* A branch leaves an operand behind in an if: below what the function     *)
(* needs next, and between the result of the if and an i64.                *)
Leftover == Program(<<
  Function(Void, I32, Void,
    <<const(2), const(1), <<"if", Void>>, const(3), <<"br", 0>>, end, const(1), op2("sub"),
      <<"return", 0>>, end>>),
  Function(Void, I64, Void,
    <<wide(5), const(1), <<"if", I32>>, const(3), const(2), <<"br", 0>>,
      plain("else"), const(2), end, plain("drop"), end>>)>>)

Programs ==
  {Assemble(p) : p \in {Recursive, Runaway, Leaks, Loops, Indirect, Dispatch, Imports,
                      Traps, Full, Widths, Leftover}}

RunawayPrograms == {Assemble(Runaway)}
LeftoverPrograms == {Assemble(Leftover)}

(* TLC evaluates Programs once, but what a .cfg substitutes at each use.   *)
MCModules == Programs
MCRunaway == RunawayPrograms
MCLeftover == LeftoverPrograms

=============================================================================
