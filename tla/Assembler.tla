------------------------------ MODULE Assembler ------------------------------
(***************************************************************************)
(* Builds module records of WasmModule.tla from readable programs, for     *)
(* TLC.  A program is [imports, funcs, types, table, globals]; a function  *)
(* is [type, locals, body] and a body is a sequence of instructions, each  *)
(* <<opcode, immediate>>, ended by an <<"end", 0>>.  Addresses are those   *)
(* of an encoding with one-byte immediates; the typing derivation is       *)
(* computed the way a WebAssembly validator does.                          *)
(***************************************************************************)
EXTENDS WasmModule, SequencesExt, FiniteSetsExt

(* The function itself; TLC evaluates it here and not at each application. *)
Strict(f) == f @@ [x \in {} |-> x]

LOCAL Size(i) ==
  CASE i[1] \in {"unreachable", "unsupported", "nop", "else", "end", "return",
                 "drop", "select", "eqz", "compare", "arith", "count", "convert"} -> 1
    [] i[1] = "br_table" -> 3 + Len(i[2].targets)
    [] i[1] = "call_indirect" -> 3
    [] OTHER -> 2

(* The first address of the first body is 1, so that 0 can mean "no else". *)
LOCAL Addr(base, body, n) ==
  base + FoldLeft(LAMBDA sum, i : sum + Size(i), 0, SubSeq(body, 1, n - 1))

LOCAL BodySize(f) == Addr(0, f.body, Len(f.body) + 1)

(* Function fidx is the block -(fidx + 1); other blocks have the address   *)
(* of their opcode.                                                        *)
FuncBlock(fidx) == -(fidx + 1)

LOCAL TypeOfBlock(results) == [params |-> <<>>, results |-> results, mask |-> 0]

(* Index of the end that closes the block opened at n, and of its else.    *)
LOCAL DepthAfter(body, n, m) ==
  FoldLeft(LAMBDA d, i : CASE i[1] \in BlockOps -> d + 1 [] i[1] = "end" -> d - 1 [] OTHER -> d,
           0, SubSeq(body, n, m))
LOCAL EndOf(body, n) == CHOOSE m \in n .. Len(body) :
  DepthAfter(body, n, m) = 0 /\ \A k \in n .. m - 1 : DepthAfter(body, n, k) > 0
LOCAL ElseOf(body, n) == {m \in n .. EndOf(body, n) :
  body[m][1] = "else" /\ DepthAfter(body, n, m) = 1}

(* Opcode index of the block around instruction n, 0 for the function.     *)
LOCAL Around(body, n) ==
  LET open == {m \in 1 .. n - 1 : body[m][1] \in BlockOps /\ EndOf(body, m) >= n}
  IN IF open = {} THEN 0 ELSE Max(open)

LOCAL Instruction(base, body, n) ==
  [op |-> body[n][1], imm |-> body[n][2], next |-> Addr(base, body, n + 1)]

(***************************************************************************)
(* The types of the operands, instruction by instruction, or Dead where    *)
(* the code cannot be reached.  `entry` has the operands each block began  *)
(* with, the function's first.                                             *)
(***************************************************************************)
LOCAL Dead == <<"dead">>

LOCAL Typing(w, fidx, f) ==
  LET body == f.body
      Results(m) == IF m = 0 THEN f.type.results ELSE body[m][2]
      At(s, n) ==
        IF body[n][1] # "end" THEN s.t
        ELSE LET m == Around(body, n) IN
             IF s.entry[m + 1] = Dead THEN Dead ELSE s.entry[m + 1] \o Results(m)
      Effect(i, t) ==
        LET kept == SubSeq(t, 1, Len(t) - Pops(w, i)) IN
        IF Pushes(w, i) = 0 THEN kept
        ELSE Append(kept, Given(w, FuncBlock(fidx), i, t, Len(t)))
      After(s, n, t) ==
        LET i == Instruction(0, body, n) IN
        CASE i.op = "else" -> s.entry[Around(body, n) + 1]
          [] i.op # "else" /\ (t = Dead \/ i.op \in JumpOps) -> Dead
          [] i.op \in PlainOps \cup BlockOps /\ t # Dead -> Effect(i, t)
          [] i.op = "end" /\ t # Dead -> t
      Visit(s, n) ==
        LET t == At(s, n)  next == After(s, n, t) IN
        [t |-> next, found |-> Append(s.found, t), entry |-> Append(s.entry, next)]
  IN FoldLeft(Visit, [t |-> <<>>, found |-> <<>>, entry |-> <<<<>>>>],
              [n \in 1 .. Len(body) |-> n]).found

(***************************************************************************)
(* The module a program is loaded as.                                      *)
(***************************************************************************)
Assemble(p) ==
  LET imports == Len(p.imports)
      count == imports + Len(p.funcs)
      Local == imports .. count - 1
      Fn(x) == p.funcs[x - imports + 1]
      Body(x) == Fn(x).body
      Base(x) == 1 + FoldLeft(LAMBDA sum, f : sum + BodySize(f), 0,
                              SubSeq(p.funcs, 1, x - imports))
      At(x, n) == Addr(Base(x), Body(x), n)
      Opens == {<<x, n>> \in Local \X (1 .. Max({Len(f.body) : f \in ToSet(p.funcs)})) :
                  n <= Len(Body(x)) /\ Body(x)[n][1] \in BlockOps}
      Instrs == {<<x, n>> \in Local \X (1 .. Max({Len(f.body) : f \in ToSet(p.funcs)})) :
                  n <= Len(Body(x))}
      addrOf == Strict([xn \in Instrs |-> At(xn[1], xn[2])])
      atAddr == Strict([a \in {addrOf[xn] : xn \in Instrs} |->
                  CHOOSE xn \in Instrs : addrOf[xn] = a])
      aroundOf == Strict([xn \in Instrs |-> Around(Body(xn[1]), xn[2])])
      BlockId(x, m) == IF m = 0 THEN FuncBlock(x) ELSE addrOf[<<x, m>>]
      owner == Strict([a \in DOMAIN atAddr |->
                  BlockId(atAddr[a][1], aroundOf[atAddr[a]])])
      RECURSIVE Labels(_, _)
      Labels(x, m) ==
        IF m = 0 THEN <<FuncBlock(x)>>
        ELSE <<addrOf[<<x, m>>]>> \o Labels(x, aroundOf[<<x, m>>])
      ZeroBased(q) == Strict([k \in 0 .. Len(q) - 1 |-> q[k + 1]])
      funcBlocks == {FuncBlock(x) : x \in Local}
      importBlocks == {FuncBlock(x) : x \in 0 .. imports - 1}
      openBlocks == {addrOf[xn] : xn \in Opens}
      labels == Strict([b \in funcBlocks \cup openBlocks |->
                   IF b < 0 THEN ZeroBased(Labels(-b - 1, 0))
                   ELSE ZeroBased(Labels(atAddr[b][1], atAddr[b][2]))])
      ImportBlock(x) ==
        [block_type |-> "function", type |-> p.imports[x + 1], locals |-> <<>>,
         start_addr |-> 0, end_addr |-> 0, else_addr |-> 0, br_addr |-> 0]
      FunctionBlock(x) ==
        [block_type |-> "function", type |-> Fn(x).type, locals |-> Fn(x).locals,
         start_addr |-> Base(x), end_addr |-> At(x, Len(Body(x))), else_addr |-> 0,
         br_addr |-> At(x, Len(Body(x)))]
      OpenBlock(x, n) ==
        LET end == At(x, EndOf(Body(x), n))
            op == Body(x)[n][1] IN
        [block_type |-> op, type |-> TypeOfBlock(Body(x)[n][2]), locals |-> <<>>,
         start_addr |-> At(x, n), end_addr |-> end,
         else_addr |-> IF ElseOf(Body(x), n) = {} THEN 0
                       ELSE At(x, Max(ElseOf(Body(x), n))) + 1,
         br_addr |-> IF op = "loop" THEN At(x, n) + 2 ELSE end]
      block == Strict([b \in funcBlocks \cup importBlocks \cup openBlocks |->
                  CASE b \in importBlocks -> ImportBlock(-b - 1)
                    [] b \in funcBlocks -> FunctionBlock(-b - 1)
                    [] OTHER -> OpenBlock(atAddr[b][1], atAddr[b][2])])
      w0 == [functions |-> Strict([x \in 0 .. count - 1 |-> FuncBlock(x)]),
             block |-> block, types |-> p.types, globals |-> p.globals]
      typing == Strict([x \in Local |-> Typing(w0, x, Fn(x))])
      TypesAt(a) == typing[atAddr[a][1]][atAddr[a][2]]
      live == {a \in DOMAIN atAddr : TypesAt(a) # Dead}
  IN [code |-> Strict([a \in DOMAIN atAddr |->
                  Instruction(Base(atAddr[a][1]), Body(atAddr[a][1]), atAddr[a][2])]),
      block |-> block,
      block_lookup |-> Strict([a \in openBlocks |-> a]),
      functions |-> w0.functions,
      import_func_count |-> imports,
      types |-> p.types,
      table |-> p.table,
      globals |-> p.globals,
      exports |-> {x \in Local : Fn(x).exported},
      residue |-> p.residue,
      nest |-> Strict([b \in DOMAIN labels |-> Cardinality(DOMAIN labels[b]) - 1]),
      owner |-> owner,
      labels |-> labels,
      height |-> Strict([a \in live |-> Len(TypesAt(a))]),
      operands |-> Strict([a \in live |-> TypesAt(a)])]

=============================================================================
