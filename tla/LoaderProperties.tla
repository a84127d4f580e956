--------------------------- MODULE LoaderProperties ---------------------------
(***************************************************************************)
(* What WebAssembly says an instance of a module is, read off the binary   *)
(* as a whole and in no order, and the properties that compare with it     *)
(* what load_module builds section by section.                             *)
(***************************************************************************)
EXTENDS Loader

(* There is one section of each number, or none.                           *)
Collected(id) ==
  LET sections == {s \in ToSet(binary) : s.id = id} IN
  IF sections = {} THEN <<>> ELSE (CHOOSE s \in sections : TRUE).items

(* How many of the first n imports are of a kind, and which these are.     *)
OfKind(kind, n) == Cardinality({i \in 1 .. n : Collected("import")[i].kind = kind})
Imported(kind) ==
  LET imports == Collected("import") IN
  [n \in 1 .. OfKind(kind, Len(imports)) |->
     imports[CHOOSE i \in DOMAIN imports : imports[i].kind = kind /\ OfKind(kind, i) = n]]
Declared(kind, id) == Len(Imported(kind)) + Len(Collected(id))

(***************************************************************************)
(* The parts of an instance.                                               *)
(***************************************************************************)
ImportedFunctions == Len(Imported("func"))

FunctionsAgree ==
  /\ m.import_func_count = ImportedFunctions
  /\ m.function_count = Declared("func", "func")
  /\ DOMAIN m.functions = 1 .. Declared("func", "func")
  /\ \A f \in 1 .. ImportedFunctions :
       m.functions[f].imported /\ m.functions[f].type = Imported("func")[f].type
  /\ \A f \in DOMAIN Collected("code") :
       LET function == m.functions[ImportedFunctions + f]
           code == Collected("code")[f]
       IN /\ ~function.imported
          /\ function.type = Collected("func")[f]
          /\ function.code = code.code
          /\ function.local_count = Len(function.locals)
          /\ \A g \in DOMAIN code.locals, n \in 1 .. 2 :
               n <= code.locals[g].count =>
                 function.locals[LocalCount(SubSeq(code.locals, 1, g - 1)) + n] = code.locals[g].type

(* Initializers are constants or look-ups of imported globals.             *)
Initial(init) ==
  IF init.op = "const" THEN [type |-> init.type, value |-> init.value]
  ELSE LET g == Imported("global")[init.index + 1] IN [type |-> g.type, value |-> g.host]

GlobalsAgree ==
  m.globals = [g \in 1 .. Len(Imported("global")) |->
                 [type |-> Imported("global")[g].type, value |-> Imported("global")[g].host]]
              \o [g \in DOMAIN Collected("global") |-> Initial(Collected("global")[g].init)]

(* The last segment that covers a place decides what is there.             *)
Covering(segments, Size(_), place) ==
  {c \in DOMAIN segments :
     place - Initial(segments[c].init).value \in 0 .. Size(segments[c]) - 1}

ElemSize(segment) == Len(segment.funcs)
DataSize(segment) == Len(segment.bytes)

TableLength ==
  IF Imported("table") # <<>> THEN Imported("table")[1].host.cur_size
  ELSE IF Collected("table") # <<>> THEN Collected("table")[1].min ELSE 0

TableAgrees ==
  /\ m.table.cur_size = TableLength
  /\ \A i \in 0 .. TableLength - 1 :
       LET segments == Covering(Collected("elem"), ElemSize, i)
           last == Collected("elem")[Max(segments)]
       IN m.table.entries[i] =
            IF segments # {} THEN last.funcs[i - Initial(last.init).value + 1]
            ELSE IF Imported("table") # <<>> THEN Imported("table")[1].host.entries[i]
            ELSE 0

MemoryPages ==
  IF Imported("memory") # <<>> THEN Imported("memory")[1].host.cur_size
  ELSE IF Collected("mem") # <<>> THEN Collected("mem")[1].min ELSE 0

MemoryAgrees ==
  /\ m.memory.cur_size = MemoryPages
  /\ \A i \in 0 .. MemoryPages * PAGE_SIZE - 1 :
       LET segments == Covering(Collected("data"), DataSize, i)
           last == Collected("data")[Max(segments)]
       IN m.memory.bytes[i] =
            IF segments # {} THEN last.bytes[i - Initial(last.init).value + 1]
            ELSE IF Imported("memory") # <<>> THEN Imported("memory")[1].host.bytes[i]
            ELSE 0

ExportsAgree ==
  /\ Len(m.exports) = Len(Collected("export"))
  /\ \A e \in DOMAIN m.exports :
       LET export == Collected("export")[e] IN
       /\ m.exports[e].export_name = export.name
       /\ m.exports[e].value = [kind |-> export.kind, index |-> export.index]
       /\ export.kind = "func" /\ export.index >= ImportedFunctions =>
            At(m.functions, export.index).code # "none"

Instantiated == FunctionsAgree /\ GlobalsAgree /\ TableAgrees /\ MemoryAgrees /\ ExportsAgree

(***************************************************************************)
(* What is asked of a module, and of what it imports.                      *)
(***************************************************************************)
Available(init) == init.op # "const" => init.index < Len(Imported("global"))

Valid ==
  /\ \A id \in {"global", "elem", "data"} : \A i \in ToSet(Collected(id)) : Available(i.init)
  /\ Len(Collected("code")) = Len(Collected("func"))
  /\ \A e \in ToSet(Collected("export")) :
       e.kind = "func" => e.index \in 0 .. Declared("func", "func") - 1
  /\ Declared("table", "table") <= 1 /\ Declared("memory", "mem") <= 1
  /\ \A g \in ToSet(Collected("global")) : Initial(g.init).type = g.type
  /\ \A id \in {"elem", "data"} : \A s \in ToSet(Collected(id)) :
       s.index = 0 /\ Initial(s.init).type = 127
  /\ \A e \in ToSet(Collected("export")) : e.kind \in OnlyOne => e.index = 0
  /\ \A c \in ToSet(Collected("code")) : c.last = "end" /\ LocalCount(c.locals) < U32
  /\ \A i \in ToSet(Collected("import")) : i.kind \in {"func", "table", "memory", "global"}
  /\ \A i \in ToSet(Imported("table")) : OfFunctions(i.limits)
  /\ \A limits \in ToSet(Collected("table")) : OfFunctions(limits)
  /\ \A f \in ToSet(Collected("start")) : f \in 0 .. Declared("func", "func") - 1

Matches(import) ==
  /\ import.host.cur_size >= import.limits.min
  /\ import.limits.flags = 1 => import.host.max_size <= import.limits.max

Linked == \A kind \in {"table", "memory"} : \A i \in ToSet(Imported(kind)) : Matches(i)

(* A memory of 4 GiB is more than the product in load_module can count.    *)
(* Segments that do not fit are undefined behaviour of module.c:778 and    *)
(* module.c:905, or land in what calloc provided beyond the last page.     *)
Fits ==
  /\ MemoryPages * PAGE_SIZE < U32
  /\ \A s \in ToSet(Collected("elem")) : Initial(s.init).value + ElemSize(s) <= TableLength
  /\ \A s \in ToSet(Collected("data")) :
       Initial(s.init).value + DataSize(s) <= MemoryPages * PAGE_SIZE

-----------------------------------------------------------------------------
TypeOK ==
  /\ pos.section \in 1 .. Len(binary) + 1 /\ pos.item \in Nat
  /\ status \in {"loading", "loaded", "exited", "wild"}
  /\ status = "exited" <=> error # "none"
  /\ started \in 0 .. 1
  /\ m.import_func_count <= m.function_count /\ m.function_count = Len(m.functions)
  /\ m.table.max_size \in 0 .. MAX_ENTRIES
  /\ m.memory.max_size \in 0 .. MAX_PAGES
  /\ \A i \in ToSet(m.types) : i.mask \in [0 .. NIBBLES - 1 -> 0 .. 15]

(* Whatever sections a valid module has and whatever the order its parts   *)
(* depend on each other in, load_module builds the instance WebAssembly    *)
(* specifies: every index means what it means in the binary.               *)
InstanceAsSpecified ==
  status = "loaded" /\ started = 0 /\ Valid /\ Linked /\ Fits => Instantiated

(* The start function is invoked once, and on the whole instance: not      *)
(* before the segments, though its section comes before theirs.            *)
StartSeesInstance ==
  started > 0 /\ Valid /\ Linked /\ Fits => started = 1 /\ Instantiated

(* A valid module whose imports match is never taken for a broken one: it  *)
(* is refused for what is not implemented, or by what runs.                *)
ValidIsAccepted ==
  status \in {"exited", "wild"} /\ Valid /\ Linked /\ Fits =>
    error \in {"unresolved", "section", "table_count", "memory_count",
               "imported_start", "start_failed"}

(* main() invokes the function whose number is in the block that an       *)
(* export names: of a function of the module that is its own number, in    *)
(* the index space that the imports come first in.  An imported function   *)
(* has no number.                                                          *)
ExportsRunThemselves ==
  \A e \in DOMAIN m.exports :
    LET value == m.exports[e].value IN
    value.kind = "func" /\ value.index \in m.import_func_count .. m.function_count - 1 =>
      At(m.functions, value.index).fidx = value.index

(* Types of the same mask are the same type, so that call_indirect may     *)
(* compare masks, as long as the parameters leave room for the result.     *)
MasksTellTypesApart ==
  \A s, t \in ToSet(m.types) :
    Distinguishable(s) /\ Distinguishable(t) /\ s.mask = t.mask =>
      s.params = t.params /\ s.results = t.results

=============================================================================
