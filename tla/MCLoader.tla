------------------------------- MODULE MCLoader -------------------------------
(***************************************************************************)
(* Modules put together from a few possibilities for each section: the     *)
(* whole of the index spaces in small, segments that overlap, that fit and *)
(* that do not, initializers that look up a global, imports that match and *)
(* that do not, and custom sections between.                               *)
(***************************************************************************)
EXTENDS LoaderProperties

I32 == 127
I64 == 126

Signature(params, results) == [params |-> params, results |-> results]
Limit(min, max) == [flags |-> 1, min |-> min, max |-> max]
AtLeast(min) == [flags |-> 0, min |-> min, max |-> 0]
Funcs(limits) == [elem_type |-> ANYFUNC] @@ limits
Externs(limits) == [elem_type |-> 111] @@ limits
Const(v) == [op |-> "const", type |-> I32, value |-> v]
Const64(v) == [op |-> "const", type |-> I64, value |-> v]
Get(i) == [op |-> "get", index |-> i]

(* What dlsym finds: a table of 3 entries, a memory of one page.           *)
HostTable == [cur_size |-> 2, max_size |-> 3, entries |-> [i \in 0 .. 1 |-> 7]]
HostMemory == [cur_size |-> 1, max_size |-> 2, bytes |-> [i \in 0 .. PAGE_SIZE - 1 |-> 9]]

F(type) == [kind |-> "func", type |-> type]
G(type, value) == [kind |-> "global", type |-> type, host |-> value]
T(limits) == [kind |-> "table", limits |-> Funcs(limits), host |-> HostTable]
M(limits) == [kind |-> "memory", limits |-> limits, host |-> HostMemory]

Code(name, locals) == [code |-> name, locals |-> locals, last |-> "end"]
Group(count, type) == [count |-> count, type |-> type]

Section0(id, items) == IF items = <<>> THEN <<>> ELSE <<[id |-> id, items |-> items]>>
Custom == <<[id |-> "custom", items |-> <<>>]>>

Imports == {<<>>, <<F(0)>>, <<G(I32, 1)>>, <<F(1), G(I64, 2), F(0)>>, <<T(AtLeast(2))>>,
            <<M(AtLeast(1)), F(1)>>, <<G(I32, 1), T(AtLeast(1)), M(Limit(1, 2))>>,
            <<T(AtLeast(4))>>, <<T(AtLeast(3))>>, <<M(AtLeast(3))>>,
            <<T(AtLeast(1)), T(AtLeast(1))>>, <<M(AtLeast(1)), M(AtLeast(1))>>}

Functions == {<<>>, <<0>>, <<1, 0>>}
Codes(n) ==
  SubSeq(<<Code("a", <<Group(1, I64), Group(2, I32)>>), Code("b", <<Group(0, I32), Group(1, I32)>>)>>,
         1, n)

Globals == {<<>>, <<[type |-> I32, init |-> Const(0)], [type |-> I64, init |-> Const64(3)]>>,
            <<[type |-> I32, init |-> Get(0)]>>}

Elem(init, funcs) == [index |-> 0, init |-> init, funcs |-> funcs]
Data(init, bytes) == [index |-> 0, init |-> init, bytes |-> bytes]

Elems == {<<>>, <<Elem(Const(0), <<0, 1>>), Elem(Const(1), <<1>>)>>, <<Elem(Get(0), <<1>>)>>}
Datas == {<<>>, <<Data(Const(0), <<5, 6>>), Data(Const(1), <<8>>)>>, <<Data(Get(0), <<5, 6>>)>>}

Count(imports, kind) == Len(SelectSeq(imports, LAMBDA i : i.kind = kind))
Looks(items) == \E i \in ToSet(items) : i.init.op = "get"

ExportsOf(functions) ==
  [f \in 1 .. functions |-> [name |-> f, kind |-> "func", index |-> functions - f]]
    \o <<[name |-> 0, kind |-> "memory", index |-> 0]>>

Types == <<Signature(<<>>, <<>>), Signature(<<I32>>, <<I32>>)>>

Whole ==
  {Section0("type", Types) \o Section0("import", i) \o Section0("func", f)
     \o Section0("table", t) \o Section0("mem", n) \o Custom \o Section0("global", g)
     \o Section0("export", ExportsOf(Count(i, "func") + Len(f))) \o Section0("start", s)
     \o Section0("elem", e) \o Section0("code", Codes(Len(f))) \o Section0("data", d) :
     i \in Imports, f \in Functions, t \in {<<>>, <<Funcs(Limit(2, 2))>>}, n \in {<<>>, <<AtLeast(1)>>},
     g \in Globals, s \in {<<>>, <<0>>, <<1>>}, e \in Elems, d \in Datas}

(* Indexes mean something.                                                 *)
Indexed(b) ==
  LET Of(id) == FlattenSeq([s \in DOMAIN b |-> IF b[s].id = id THEN b[s].items ELSE <<>>])
      imports == Of("import")
      functions == Count(imports, "func") + Len(Of("func"))
      tables == Count(imports, "table") + Len(Of("table"))
      memories == Count(imports, "memory") + Len(Of("mem"))
  IN
  /\ Looks(Of("global") \o Of("elem") \o Of("data")) => Count(imports, "global") > 0
  /\ \A s \in ToSet(Of("start")) : s < functions
  /\ Of("elem") # <<>> => functions > 1 /\ tables > 0
  /\ Of("data") # <<>> => memories > 0
  /\ tables > 1 => Of("table") = <<>>
  /\ memories > 1 => Of("mem") = <<>>

(* Sections no valid module of this version has, or that are empty, or      *)
(* that initialize what is not there.                                      *)
Odd ==
  {<<[id |-> "unknown", items |-> <<>>]>>, <<[id |-> "table", items |-> <<>>]>>,
   <<[id |-> "mem", items |-> <<>>]>>, <<[id |-> "import", items |-> <<>>]>>,
   <<[id |-> "table", items |-> <<Funcs(Limit(1, 9))>>], [id |-> "mem", items |-> <<Limit(0, 9)>>]>>,
   <<[id |-> "table", items |-> <<Funcs(AtLeast(1))>>],
     [id |-> "elem", items |-> <<Elem(Const64(0), <<0>>)>>]>>,
   <<[id |-> "mem", items |-> <<AtLeast(1)>>],
     [id |-> "data", items |-> <<Data(Const64(0), <<1>>)>>]>>,
   <<[id |-> "table", items |-> <<Funcs(AtLeast(1))>>],
     [id |-> "elem", items |-> <<[Elem(Const(0), <<0>>) EXCEPT !.index = 1]>>]>>,
   <<[id |-> "mem", items |-> <<AtLeast(1)>>],
     [id |-> "data", items |-> <<[Data(Const(0), <<1>>) EXCEPT !.index = 1]>>]>>,
   <<[id |-> "table", items |-> <<Funcs(AtLeast(1))>>],
     [id |-> "elem", items |-> <<Elem(Const(15), <<0, 0>>)>>]>>,
   <<[id |-> "export", items |-> <<[name |-> 1, kind |-> "table", index |-> 1]>>]>>,
   <<[id |-> "import", items |-> <<[kind |-> "tag"]>>]>>,
   <<[id |-> "import", items |-> <<[T(AtLeast(1)) EXCEPT !.limits = Externs(AtLeast(1))]>>]>>,
   <<[id |-> "table", items |-> <<Externs(AtLeast(1))>>]>>,
   <<[id |-> "start", items |-> <<0>>]>>, <<[id |-> "start", items |-> <<15>>]>>,
   <<[id |-> "type", items |-> Types], [id |-> "func", items |-> <<0>>],
     [id |-> "code", items |-> <<[Code("a", <<>>) EXCEPT !.last = "nop"]>>]>>,
   <<[id |-> "type", items |-> Types], [id |-> "func", items |-> <<0>>],
     [id |-> "code", items |-> <<Code("a", <<Group(15, I32), Group(1, I64)>>)>>]>>,
   <<[id |-> "code", items |-> <<Code("a", <<>>)>>]>>}

(* Two types each: any two of up to three parameters, and longer ones.     *)
Params == UNION {[1 .. n -> {I32, I64}] : n \in 0 .. 3}
            \cup {[i \in 1 .. n |-> IF i = n THEN t ELSE I32] : n \in 4 .. 6, t \in {I32, I64}}
Signatures == {Signature(p, r) : p \in Params, r \in {<<>>, <<I32>>, <<I64>>}}
TypePairs == {Section0("type", <<s, t>>) : s, t \in Signatures}

MCBinaries == {b \in Whole : Indexed(b)} \cup Odd \cup TypePairs

=============================================================================
