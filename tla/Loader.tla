------------------------------- MODULE Loader --------------------------------
(***************************************************************************)
(* load_module: a binary module, already cut into sections and items, is   *)
(* turned into a struct Module.  A step is what the switch does for one    *)
(* section, or, where the items of a section depend on each other, one     *)
(* turn of the loop over them; the last step is what follows the loop over *)
(* the sections.  exit(1) of FATAL and ASSERT is the status "exited", an   *)
(* access outside of what was allocated is the status "wild".              *)
(*                                                                         *)
(* Pointers into m->types, m->functions and m->globals are indexes.        *)
(***************************************************************************)
EXTENDS MemoryType, TypeMask, SequencesExt

CONSTANTS
  MAX_ENTRIES,   \* the most elements of a table, 0x10000 in the code
  Binaries       \* the modules that are loaded: sequences of sections

(* What the file format promises of the order of the sections, and what    *)
(* the types of C promise of their items.                                  *)
Rank == [type |-> 1, import |-> 2, func |-> 3, table |-> 4, mem |-> 5, global |-> 6,
         export |-> 7, start |-> 8, elem |-> 9, code |-> 10, data |-> 11]

Ordered(b) ==
  \A i, j \in DOMAIN b :
    i < j /\ b[i].id \in DOMAIN Rank /\ b[j].id \in DOMAIN Rank => Rank[b[i].id] < Rank[b[j].id]

ASSUME LoaderAssumption ==
  /\ PAGE_SIZE \in Nat \ {0} /\ MAX_PAGES \in Nat /\ U32 \in Nat \ {0}
  /\ MAX_ENTRIES \in Nat /\ NIBBLES \in Nat
  /\ \A b \in Binaries :
       /\ Len(b) \in Nat /\ DOMAIN b = 1 .. Len(b) /\ Ordered(b)
       /\ \A s \in ToSet(b) :
            /\ Len(s.items) \in Nat /\ DOMAIN s.items = 1 .. Len(s.items)
            /\ s.id = "start" => Len(s.items) = 1
            /\ s.id = "type" => \A t \in ToSet(s.items) : t \in FunctionTypes
            /\ s.id \in {"table", "mem"} => \A limits \in ToSet(s.items) : limits.max \in Nat
            /\ s.id = "import" => \A i \in ToSet(s.items) :
                 /\ i.kind = "table" => i.host.max_size \in 0 .. MAX_ENTRIES
                 /\ i.kind = "memory" => i.host.max_size \in 0 .. MAX_PAGES

(* Numbers in the file are decoded to uint32_t, and what dlsym finds is a  *)
(* table, a memory or a global of this program.                            *)
InitAssumption(init) ==
  /\ init.op = "const" /\ init.type = 127 => init.value \in 0 .. U32 - 1
  /\ init.op # "const" => init.index \in Nat

ImportAssumption(i) ==
  /\ i.kind \in {"table", "memory"} =>
       /\ i.limits.min \in Nat /\ i.limits.max \in Nat
       /\ i.host.cur_size \in 0 .. i.host.max_size
  /\ i.kind = "table" => DOMAIN i.host.entries = 0 .. i.host.cur_size - 1
  /\ i.kind = "memory" => DOMAIN i.host.bytes = 0 .. i.host.cur_size * PAGE_SIZE - 1
  /\ i.kind = "global" /\ i.type = 127 => i.host \in 0 .. U32 - 1

CodeAssumption(c) ==
  /\ c.code # "none"
  /\ c.locals \in Seq(ToSet(c.locals)) /\ \A group \in ToSet(c.locals) : group.count \in Nat

ASSUME ItemsAssumption ==
  /\ MAX_ENTRIES <= U32
  /\ \A b \in Binaries : \A s \in ToSet(b) : \A n \in 1 .. Len(s.items) :
       LET i == s.items[n] IN
       /\ s.id = "import" => ImportAssumption(i)
       /\ s.id \in {"table", "mem"} => i.min \in 0 .. U32 - 1
       /\ s.id \in {"global", "elem", "data"} => InitAssumption(i.init)
       /\ s.id = "elem" => Len(i.funcs) \in Nat
       /\ s.id = "data" => Len(i.bytes) \in Nat
       /\ s.id = "code" => CodeAssumption(i)
       /\ s.id = "start" => i \in 0 .. U32 - 1

VARIABLES
  binary,     \* bytes: [id, items] for each section
  m,          \* the struct Module that load_module fills
  pos,        \* [section, item]: what is read next
  status,     \* "loading", "loaded", "exited" or "wild"
  error,      \* the message of FATAL or ASSERT, in a word
  started     \* how often the start function was invoked

vars == <<binary, m, pos, status, error, started>>

At(array, index) == array[index + 1]
NoStart == U32 - 1     \* the uint32_t that -1 becomes
Zeros(count) == [i \in 0 .. count - 1 |-> 0]

Table(t) ==
  [allocated |-> TRUE, cur_size |-> t.cur_size, max_size |-> t.max_size, entries |-> t.entries]
Memory(t) ==
  [allocated |-> TRUE, cur_size |-> t.cur_size, max_size |-> t.max_size, bytes |-> t.bytes]

NoTable == [allocated |-> FALSE, cur_size |-> 0, max_size |-> 0, entries |-> Zeros(0)]
NoMemory == [allocated |-> FALSE, cur_size |-> 0, max_size |-> 0, bytes |-> Zeros(0)]

Init ==
  /\ binary \in Binaries
  /\ m = [types |-> <<>>, import_func_count |-> 0, function_count |-> 0,
          functions |-> <<>>, table |-> NoTable, memory |-> NoMemory,
          globals |-> <<>>, exports |-> <<>>, start_function |-> NoStart]
  /\ pos = [section |-> 1, item |-> 1]
  /\ status = "loading" /\ error = "none"
  /\ started = 0

-----------------------------------------------------------------------------
Section == binary[pos.section]
Item == Section.items[pos.item]

In(id) ==
  /\ status = "loading"
  /\ pos.section <= Len(binary)
  /\ Section.id = id
  /\ UNCHANGED binary

AtItem(id) == In(id) /\ pos.item <= Len(Section.items)

NextItem == pos' = [pos EXCEPT !.item = @ + 1]
NextSection == pos' = [section |-> pos.section + 1, item |-> 1]

Continue == UNCHANGED <<status, error>>

Fatal(message) ==
  /\ status' = "exited" /\ error' = message
  /\ UNCHANGED <<m, pos, started>>

Wild ==
  /\ status' = "wild"
  /\ UNCHANGED <<m, pos, error, started>>

ByItems == {"import", "global", "export", "elem", "code", "data"}

EndOfItems ==
  /\ \E id \in ByItems : In(id)
  /\ pos.item > Len(Section.items)
  /\ NextSection /\ Continue
  /\ UNCHANGED <<m, started>>

CustomSection ==
  /\ In("custom")
  /\ NextSection /\ Continue
  /\ UNCHANGED <<m, started>>

UnknownSection == In("unknown") /\ Fatal("section")

TypeSection ==
  /\ In("type")
  /\ m' = [m EXCEPT !.types =
             [i \in DOMAIN Section.items |->
                [params |-> Section.items[i].params, results |-> Section.items[i].results,
                 mask |-> Mask(Section.items[i])]]]
  /\ NextSection /\ Continue
  /\ UNCHANGED started

-----------------------------------------------------------------------------
(***************************************************************************)
(* Imports, with what dlsym finds for them as `host`.                      *)
(***************************************************************************)
NewBlock(fidx, type) ==
  [fidx |-> fidx, type |-> type, imported |-> FALSE, local_count |-> 0, locals |-> <<>>,
   code |-> "none"]

(* parse_table_type reads the type of a table, imported or not, and takes  *)
(* tables of function references only.                                     *)
ANYFUNC == 112
OfFunctions(limits) == limits.elem_type = ANYFUNC

Unresolved ==
  /\ AtItem("import")
  /\ Item.kind = "table" => OfFunctions(Item.limits)
  /\ Fatal("unresolved")

ImportOther ==
  AtItem("import") /\ Item.kind \notin {"func", "table", "memory", "global"} /\ Fatal("kind")

ImportFunction ==
  /\ AtItem("import") /\ Item.kind = "func"
  /\ m' = [m EXCEPT !.import_func_count = @ + 1, !.function_count = @ + 1,
                    !.functions = Append(@, [NewBlock(0, Item.type) EXCEPT !.imported = TRUE])]
  /\ NextItem /\ Continue
  /\ UNCHANGED started

(* parse_table_type has stored the declared size when these are compared.  *)
ImportTable ==
  LET typed == OfFunctions(Item.limits)
      fits == Item.limits.min <= Item.host.max_size
  IN
  /\ AtItem("import") /\ Item.kind = "table"
  /\ \/ ~typed /\ Fatal("elem_type")
     \/ typed /\ m.table.allocated /\ Fatal("second_table")
     \/ typed /\ ~m.table.allocated /\ ~fits /\ Fatal("table_size")
     \/ /\ typed /\ ~m.table.allocated /\ fits
        /\ m' = [m EXCEPT !.table = Table(Item.host)]
        /\ NextItem /\ Continue
        /\ UNCHANGED started

ImportMemory ==
  /\ AtItem("import") /\ Item.kind = "memory"
  /\ \/ m.memory.allocated /\ Fatal("second_memory")
     \/ ~m.memory.allocated /\ Item.limits.min > Item.host.max_size /\ Fatal("memory_size")
     \/ /\ ~m.memory.allocated /\ Item.limits.min <= Item.host.max_size
        /\ m' = [m EXCEPT !.memory = Memory(Item.host)]
        /\ NextItem /\ Continue
        /\ UNCHANGED started

GlobalUntyped(type, value) == [type |-> 0, value |-> value]    \* fault: no value_type
Global(type, value) == [type |-> type, value |-> value]

ImportGlobal ==
  /\ AtItem("import") /\ Item.kind = "global"
  /\ m' = [m EXCEPT !.globals = Append(@, Global(Item.type, Item.host))]
  /\ NextItem /\ Continue
  /\ UNCHANGED started

-----------------------------------------------------------------------------
(* The imported functions are copied to the new array.                     *)
FidxOfItem(f) == f - m.import_func_count     \* fault: counts without imports
Fidx(f) == f

FuncSection ==
  LET count == m.function_count + Len(Section.items) IN
  /\ In("func")
  /\ m' = [m EXCEPT !.function_count = count,
                    !.functions =
                      [i \in 1 .. count |->
                         IF i <= m.import_func_count THEN m.functions[i]
                         ELSE NewBlock(Fidx(i - 1), Section.items[i - m.import_func_count])]]
  /\ NextSection /\ Continue
  /\ UNCHANGED started

MaxEntriesUnclamped(limits) ==    \* fault: the bound of 64K left out
  IF limits.flags = 1 THEN limits.max ELSE MAX_ENTRIES
MaxEntries(limits) ==
  IF limits.flags = 1 /\ limits.max < MAX_ENTRIES THEN limits.max ELSE MAX_ENTRIES

TableSection ==
  /\ In("table")
  /\ \/ Len(Section.items) # 1 /\ Fatal("table_count")
     \/ Len(Section.items) = 1 /\ ~OfFunctions(Section.items[1]) /\ Fatal("elem_type")
     \/ /\ Len(Section.items) = 1 /\ OfFunctions(Section.items[1])
        /\ m' = [m EXCEPT !.table = Table([cur_size |-> Section.items[1].min,
                                           max_size |-> MaxEntries(Section.items[1]),
                                           entries |-> Zeros(Section.items[1].min)])]
        /\ NextSection /\ Continue
        /\ UNCHANGED started

MemSection ==
  /\ In("mem")
  /\ \/ Len(Section.items) # 1 /\ Fatal("memory_count")
     \/ /\ Len(Section.items) = 1
        /\ m' = [m EXCEPT !.memory = Memory(DefinedMemory(Section.items[1]))]
        /\ NextSection /\ Continue
        /\ UNCHANGED started

-----------------------------------------------------------------------------
(***************************************************************************)
(* run_init_expr runs a constant, or the look-up of a global, and end; the *)
(* caller pops the operand.                                                *)
(***************************************************************************)
InitExpr(init) ==
  IF init.op = "const" THEN [type |-> init.type, value |-> init.value]
  ELSE At(m.globals, init.index)

Mismatch(init, type) == InitExpr(init).type # type

GlobalItem ==
  /\ AtItem("global")
  /\ \/ Mismatch(Item.init, Item.type) /\ Fatal("init_type")
     \/ /\ ~Mismatch(Item.init, Item.type)
        /\ m' = [m EXCEPT !.globals = Append(@, InitExpr(Item.init))]
        /\ NextItem /\ Continue
        /\ UNCHANGED started

OnlyOne == {"table", "memory"}

ExportItem ==
  /\ AtItem("export")
  /\ \/ Item.kind \in OnlyOne /\ Item.index # 0 /\ Fatal("index")
     \/ /\ Item.kind \in OnlyOne => Item.index = 0
        /\ m' = [m EXCEPT !.exports =
                   Append(@, [export_name |-> Item.name, external_kind |-> Item.kind,
                              value |-> [kind |-> Item.kind, index |-> Item.index]])]
        /\ NextItem /\ Continue
        /\ UNCHANGED started

Invoked(fidx) == started' = started + 1

StartSectionInvoking ==     \* fault: invoked where it is declared
  /\ In("start")
  /\ m' = [m EXCEPT !.start_function = Section.items[1]]
  /\ NextSection /\ Continue
  /\ Invoked(Section.items[1])

StartSection ==
  /\ In("start")
  /\ m' = [m EXCEPT !.start_function = Section.items[1]]
  /\ NextSection /\ Continue
  /\ UNCHANGED started

(* The index offset + n is a uint32_t.                                     *)
Targets(offset, count) == {(offset + n) % U32 : n \in 0 .. count - 1}

ElemItem ==
  LET offset == InitExpr(Item.init).value
      funcs == Item.funcs
      targets == Targets(offset, Len(funcs))
  IN
  /\ AtItem("elem")
  /\ \/ Item.index # 0 /\ Fatal("index")
     \/ Item.index = 0 /\ Mismatch(Item.init, 127) /\ Fatal("init_type")
     \/ Item.index = 0 /\ ~Mismatch(Item.init, 127) /\ ~(targets \subseteq DOMAIN m.table.entries) /\ Wild
     \/ /\ Item.index = 0 /\ ~Mismatch(Item.init, 127) /\ targets \subseteq DOMAIN m.table.entries
        /\ m' = [m EXCEPT !.table.entries =
                   [i \in DOMAIN @ |->
                      IF i \in targets THEN funcs[((i - offset) % U32) + 1] ELSE @[i]]]
        /\ NextItem /\ Continue
        /\ UNCHANGED started

(* The first pass over the groups of locals adds up how many there are,    *)
(* the second gives each its type.                                         *)
LocalCount(groups) ==
  LET sum[l \in 0 .. Len(groups)] == IF l = 0 THEN 0 ELSE sum[l - 1] + groups[l].count
  IN sum[Len(groups)]

LocalTypes(groups) ==
  LET added[l \in 0 .. Len(groups)] ==
        IF l = 0 THEN <<>> ELSE added[l - 1] \o [n \in 1 .. groups[l].count |-> groups[l].type]
  IN added[Len(groups)]

CodeTargetWithoutImports(c) == c                        \* fault: the imports not skipped
CodeTarget(c) == m.import_func_count + c

(* There is a function to set, and the sum of its locals, which is how     *)
(* many are allocated, is a uint32_t.                                      *)
Holds(c) == CodeTarget(c) \in DOMAIN m.functions /\ LocalCount(Item.locals) < U32

(* last: the byte where the declared size says that the code ends.         *)
CodeItem ==
  /\ AtItem("code")
  /\ \/ ~Holds(pos.item) /\ Wild
     \/ Holds(pos.item) /\ Item.last # "end" /\ Fatal("no_end")
     \/ /\ Holds(pos.item) /\ Item.last = "end"
        /\ m' = [m EXCEPT !.functions[CodeTarget(pos.item)] =
                   [@ EXCEPT !.local_count = LocalCount(Item.locals),
                             !.locals = LocalTypes(Item.locals),
                             !.code = Item.code]]
        /\ NextItem /\ Continue
        /\ UNCHANGED started

DataItem ==
  LET offset == InitExpr(Item.init).value
      targets == offset .. offset + Len(Item.bytes) - 1
  IN
  /\ AtItem("data")
  /\ \/ Item.index # 0 /\ Fatal("index")
     \/ Item.index = 0 /\ Mismatch(Item.init, 127) /\ Fatal("init_type")
     \/ Item.index = 0 /\ ~Mismatch(Item.init, 127) /\ ~(targets \subseteq DOMAIN m.memory.bytes) /\ Wild
     \/ /\ Item.index = 0 /\ ~Mismatch(Item.init, 127) /\ targets \subseteq DOMAIN m.memory.bytes
        /\ m' = [m EXCEPT !.memory.bytes =
                   [i \in DOMAIN @ |-> IF i \in targets THEN Item.bytes[i - offset + 1] ELSE @[i]]]
        /\ NextItem /\ Continue
        /\ UNCHANGED started

-----------------------------------------------------------------------------
(* find_blocks, which FindBlocks.tla models and which succeeds here, and   *)
(* the start function, of which only the outcome is modelled: m stays what *)
(* the start function found.  An index that no function has leads outside  *)
(* of m->functions.                                                        *)
Finish ==
  /\ status = "loading" /\ pos.section > Len(binary)
  /\ UNCHANGED binary
  /\ \/ /\ m.start_function = NoStart
        /\ status' = "loaded"
        /\ UNCHANGED <<m, pos, error, started>>
     \/ /\ m.start_function # NoStart /\ m.start_function < m.import_func_count
        /\ Fatal("imported_start")
     \/ /\ m.start_function # NoStart
        /\ m.start_function >= m.import_func_count /\ m.start_function >= m.function_count
        /\ Wild
     \/ /\ m.start_function # NoStart
        /\ m.start_function \in m.import_func_count .. m.function_count - 1
        /\ Invoked(m.start_function)
        /\ \/ status' = "loaded" /\ UNCHANGED error
           \/ status' = "exited" /\ error' = "start_failed"
        /\ UNCHANGED <<m, pos>>

Next ==
  \/ CustomSection \/ UnknownSection \/ TypeSection
  \/ Unresolved \/ ImportOther \/ ImportFunction \/ ImportTable \/ ImportMemory
  \/ ImportGlobal \/ FuncSection \/ TableSection \/ MemSection \/ GlobalItem \/ ExportItem
  \/ StartSection \/ ElemItem \/ CodeItem \/ DataItem
  \/ EndOfItems \/ Finish

Spec == Init /\ [][Next]_vars

=============================================================================
