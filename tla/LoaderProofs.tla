----------------------------- MODULE LoaderProofs -----------------------------
(***************************************************************************)
(* What load_module establishes for every binary: functions carry their    *)
(* own numbers, masks tell types apart, the bounds of tables and memories  *)
(* are kept; and of a valid binary it builds the instance that WebAssembly *)
(* specifies.                                                              *)
(***************************************************************************)
EXTENDS LoaderProperties, FiniteSetTheorems, WellFoundedInduction, TLAPS

-----------------------------------------------------------------------------
(***************************************************************************)
(* Up to 14 parameters the mask is as good as the type.                    *)
(***************************************************************************)
(* Under the parameters there is no zero and no 8; above them, one zero.   *)
LEMMA DigitsOfTypes ==
  ASSUME NEW t \in ValueTypes
  PROVE  Digit(t) \in 1 .. 4
  BY DEF ValueTypes, Digit

LEMMA DigitInjective ==
  ASSUME NEW s \in ValueTypes, NEW t \in ValueTypes, Digit(s) = Digit(t)
  PROVE  s = t
  BY DEF ValueTypes, Digit

LEMMA MaskNibbles ==
  ASSUME NEW type \in FunctionTypes, Distinguishable(type), NIBBLES \in Nat
  PROVE  LET n == Len(type.params) IN
         /\ n \in Nat /\ n + 1 \in 0 .. NIBBLES - 1 /\ n \in 0 .. NIBBLES - 1
         /\ \A i \in 0 .. n - 1 : Mask(type)[i] = Digit(type.params[n - i]) /\ Mask(type)[i] # 0
         /\ Mask(type)[n] = 0
         /\ Mask(type)[n + 1] = IF type.results = <<>> THEN 0 ELSE Digit(type.results[1])
  <1> DEFINE n == Len(type.params)
  <1>1. /\ type.params \in Seq(ValueTypes) /\ n \in Nat
        /\ type.results = <<>> \/ \E t \in ValueTypes : type.results = <<t>>
    BY DEF FunctionTypes
  <1>2. n + 1 \in 0 .. NIBBLES - 1 /\ n \in 0 .. NIBBLES - 1
    BY <1>1 DEF Distinguishable
  <1>3. \A i \in 0 .. n - 1 : Mask(type)[i] = Digit(type.params[n - i]) /\ Mask(type)[i] # 0
    <2> SUFFICES ASSUME NEW i \in 0 .. n - 1
                 PROVE Mask(type)[i] = Digit(type.params[n - i]) /\ Mask(type)[i] # 0
      OBVIOUS
    <2>1. i \in 0 .. NIBBLES - 1 /\ i < n /\ n - i \in 1 .. n
      BY <1>1, <1>2
    <2>2. type.params[n - i] \in ValueTypes
      BY <1>1, <2>1
    <2>3. Mask(type)[i] = Digit(type.params[n - i])
      BY <2>1 DEF Mask
    <2>4. QED
      BY <2>2, <2>3, DigitsOfTypes
  <1>4. Mask(type)[n] = 0
    BY <1>1, <1>2 DEF Mask
  <1>5. Mask(type)[n + 1] = IF type.results = <<>> THEN 0 ELSE Digit(type.results[1])
    <2>1. Len(type.results) = IF type.results = <<>> THEN 0 ELSE 1
      <3>1. CASE type.results = <<>>
        BY <3>1
      <3>2. CASE \E t \in ValueTypes : type.results = <<t>>
        BY <3>2
      <3>3. QED
        BY <1>1, <3>1, <3>2
    <2>2. QED
      BY <1>1, <1>2, <2>1 DEF Mask
  <1>6. QED
    BY <1>1, <1>2, <1>3, <1>4, <1>5

(* get_type_mask gives different types of at most 14 parameters different  *)
(* masks, so call_indirect (interpreter.c:435) may compare masks instead.  *)
THEOREM MaskIdentifiesType ==
  ASSUME NEW s \in FunctionTypes, NEW t \in FunctionTypes, NIBBLES \in Nat,
         Distinguishable(s), Distinguishable(t), Mask(s) = Mask(t)
  PROVE  s = t
  <1> DEFINE n == Len(s.params)
             p == Len(t.params)
  <1>1. /\ n \in Nat /\ n + 1 \in 0 .. NIBBLES - 1 /\ n \in 0 .. NIBBLES - 1
        /\ \A i \in 0 .. n - 1 : Mask(s)[i] = Digit(s.params[n - i]) /\ Mask(s)[i] # 0
        /\ Mask(s)[n] = 0
        /\ Mask(s)[n + 1] = IF s.results = <<>> THEN 0 ELSE Digit(s.results[1])
    BY MaskNibbles
  <1>2. /\ p \in Nat /\ p + 1 \in 0 .. NIBBLES - 1 /\ p \in 0 .. NIBBLES - 1
        /\ \A i \in 0 .. p - 1 : Mask(t)[i] = Digit(t.params[p - i]) /\ Mask(t)[i] # 0
        /\ Mask(t)[p] = 0
        /\ Mask(t)[p + 1] = IF t.results = <<>> THEN 0 ELSE Digit(t.results[1])
    BY MaskNibbles
  <1>3. /\ s = [params |-> s.params, results |-> s.results]
        /\ t = [params |-> t.params, results |-> t.results]
        /\ s.params \in Seq(ValueTypes) /\ t.params \in Seq(ValueTypes)
        /\ s.results = <<>> \/ \E v \in ValueTypes : s.results = <<v>>
        /\ t.results = <<>> \/ \E v \in ValueTypes : t.results = <<v>>
    BY DEF FunctionTypes
  <1>4. n = p
    <2>1. ~(n < p)
      <3> SUFFICES ASSUME n < p PROVE FALSE
        OBVIOUS
      <3>1. n \in 0 .. p - 1
        BY <1>1, <1>2
      <3>2. QED
        BY <1>1, <1>2, <3>1
    <2>2. ~(p < n)
      <3> SUFFICES ASSUME p < n PROVE FALSE
        OBVIOUS
      <3>1. p \in 0 .. n - 1
        BY <1>1, <1>2
      <3>2. QED
        BY <1>1, <1>2, <3>1
    <2>3. QED
      BY <1>1, <1>2, <2>1, <2>2
  <1>5. \A j \in 1 .. n : s.params[j] = t.params[j]
    <2> SUFFICES ASSUME NEW j \in 1 .. n PROVE s.params[j] = t.params[j]
      OBVIOUS
    <2>1. n - j \in 0 .. n - 1 /\ n - (n - j) = j
      BY <1>1
    <2>2. Digit(s.params[j]) = Digit(t.params[j])
      BY <1>1, <1>2, <1>4, <2>1
    <2>3. s.params[j] \in ValueTypes /\ t.params[j] \in ValueTypes
      BY <1>3, <1>4
    <2>4. QED
      BY <2>2, <2>3, DigitInjective
  <1>6. s.params = t.params
    BY <1>3, <1>4, <1>5
  <1>7. s.results = t.results
    <2>1. CASE s.results = <<>> \/ t.results = <<>>
      <3>1. \A v \in ValueTypes : <<v>>[1] = v /\ Digit(v) # 0
        BY DigitsOfTypes
      <3>2. s.results = <<>> <=> Mask(s)[n + 1] = 0
        BY <1>1, <1>3, <3>1
      <3>3. t.results = <<>> <=> Mask(t)[n + 1] = 0
        BY <1>2, <1>3, <1>4, <3>1
      <3>4. QED
        BY <2>1, <3>2, <3>3
    <2>2. CASE s.results # <<>> /\ t.results # <<>>
      <3>1. PICK v \in ValueTypes : s.results = <<v>>
        BY <1>3, <2>2
      <3>2. PICK w \in ValueTypes : t.results = <<w>>
        BY <1>3, <2>2
      <3>3. Digit(v) = Digit(w)
        BY <1>1, <1>2, <1>4, <2>2, <3>1, <3>2
      <3>4. QED
        BY <3>1, <3>2, <3>3, DigitInjective
    <2>3. QED
      BY <2>1, <2>2
  <1>8. QED
    BY <1>3, <1>6, <1>7

-----------------------------------------------------------------------------
IsSequence(s) == \E S : s \in Seq(S)

(***************************************************************************)
(* The inductive invariant.  That a function behind the imports carries    *)
(* its own number needs that no import comes after the function section:   *)
(* as long as that has not been read, there are imports only.              *)
(***************************************************************************)
Shape ==
  /\ DOMAIN m = {"types", "import_func_count", "function_count", "functions", "table",
                 "memory", "globals", "exports", "start_function"}
  /\ DOMAIN m.table = {"allocated", "cur_size", "max_size", "entries"}
  /\ DOMAIN m.memory = {"allocated", "cur_size", "max_size", "bytes"}
  /\ IsSequence(m.functions)
  /\ \A f \in 1 .. Len(m.functions) :
       DOMAIN m.functions[f] = {"fidx", "type", "imported", "local_count", "locals", "code"}

Counted ==
  /\ m.import_func_count \in Nat /\ m.function_count \in Nat
  /\ m.import_func_count <= m.function_count /\ m.function_count = Len(m.functions)

Sized == m.table.max_size \in 0 .. MAX_ENTRIES /\ m.memory.max_size \in 0 .. MAX_PAGES

Numbered ==
  \A f \in 1 .. m.function_count : f > m.import_func_count => m.functions[f].fidx = f - 1

Masked ==
  \A i \in DOMAIN m.types :
    \E t \in FunctionTypes :
      m.types[i] = [params |-> t.params, results |-> t.results, mask |-> Mask(t)]

Reading ==
  /\ binary \in Binaries
  /\ pos.section \in 1 .. Len(binary) + 1 /\ pos.item \in Nat \ {0}
  /\ DOMAIN pos = {"section", "item"}
  /\ m.function_count # m.import_func_count =>
       \E i \in 1 .. pos.section - 1 : binary[i].id = "func"

Ending ==
  /\ status \in {"loading", "loaded", "exited", "wild"}
  /\ status = "exited" <=> error # "none"
  /\ started \in 0 .. 1
  /\ status = "loading" => started = 0

LoaderInv == Shape /\ Counted /\ Sized /\ Numbered /\ Masked /\ Reading /\ Ending

-----------------------------------------------------------------------------
LEMMA AppendedSequence ==
  ASSUME NEW s, NEW e, IsSequence(s)
  PROVE  /\ IsSequence(Append(s, e)) /\ Len(s) \in Nat /\ Len(Append(s, e)) = Len(s) + 1
         /\ \A i \in 1 .. Len(s) : Append(s, e)[i] = s[i]
         /\ Append(s, e)[Len(s) + 1] = e
  <1>1. PICK S : s \in Seq(S)
    BY DEF IsSequence
  <1> DEFINE T == S \cup {e}
  <1>2. s \in Seq(T) /\ e \in T
    BY <1>1
  <1> HIDE DEF T
  <1>3. Append(s, e) \in Seq(T)
    BY <1>2
  <1>4. QED
    BY <1>2, <1>3 DEF IsSequence

-----------------------------------------------------------------------------
LEMMA InvInit == Init => LoaderInv
  <1> SUFFICES ASSUME Init PROVE LoaderInv
    OBVIOUS
  <1>1. Shape
    BY DEF Init, Shape, NoTable, NoMemory, IsSequence
  <1>2. Counted /\ Numbered /\ Masked
    BY DEF Init, Counted, Numbered, Masked
  <1>3. Sized
    BY LoaderAssumption DEF Init, Sized, NoTable, NoMemory
  <1>4. Reading
    <2>1. Len(binary) \in Nat
      BY LoaderAssumption DEF Init
    <2>2. QED
      BY <2>1 DEF Init, Reading
  <1>5. Ending
    BY DEF Init, Ending
  <1>6. QED
    BY <1>1, <1>2, <1>3, <1>4, <1>5 DEF LoaderInv

(* What is known of the section a step reads.                              *)
LEMMA SectionRead ==
  ASSUME LoaderInv, NEW id, In(id)
  PROVE  /\ binary \in Binaries /\ pos.section \in DOMAIN binary /\ Section \in ToSet(binary)
         /\ Section.id = id /\ Len(Section.items) \in Nat
         /\ DOMAIN Section.items = 1 .. Len(Section.items)
         /\ \A i \in DOMAIN Section.items : Section.items[i] \in ToSet(Section.items)
         /\ status = "loading" /\ binary' = binary
  <1>1. /\ binary \in Binaries /\ pos.section \in 1 .. Len(binary) + 1
        /\ pos.section <= Len(binary) /\ Section.id = id
        /\ status = "loading" /\ binary' = binary
    BY DEF LoaderInv, Reading, In
  <1>2. Len(binary) \in Nat /\ DOMAIN binary = 1 .. Len(binary)
    BY <1>1, LoaderAssumption
  <1>3. pos.section \in DOMAIN binary /\ Section \in ToSet(binary)
    BY <1>1, <1>2 DEF Section, ToSet
  <1>4. Len(Section.items) \in Nat /\ DOMAIN Section.items = 1 .. Len(Section.items)
    BY <1>1, <1>3, LoaderAssumption
  <1>5. QED
    BY <1>1, <1>3, <1>4 DEF ToSet

(* A step that goes on reads the next item or the next section.            *)
LEMMA ReadingOn ==
  ASSUME LoaderInv, NEW id, In(id), NextItem \/ NextSection, Continue, UNCHANGED started,
         \/ m'.function_count = m.function_count /\ m'.import_func_count = m.import_func_count
         \/ id = "func" /\ NextSection
         \/ /\ m.function_count = m.import_func_count =>
                 m'.function_count = m'.import_func_count
            /\ m.function_count = m.import_func_count
  PROVE  Reading' /\ Ending'
  <1>1. /\ binary \in Binaries /\ pos.section \in DOMAIN binary /\ Section.id = id
        /\ status = "loading" /\ binary' = binary
    BY SectionRead
  <1>2. Len(binary) \in Nat /\ DOMAIN binary = 1 .. Len(binary)
    BY <1>1, LoaderAssumption
  <1>3. Ending'
    BY DEF LoaderInv, Ending, Continue
  <1>4. /\ pos'.section \in {pos.section, pos.section + 1} /\ pos'.item \in Nat \ {0}
        /\ DOMAIN pos' = {"section", "item"}
        /\ NextSection => pos'.section = pos.section + 1
    BY DEF LoaderInv, Reading, NextItem, NextSection
  <1>5. m'.function_count # m'.import_func_count =>
          \E i \in 1 .. pos'.section - 1 : binary[i].id = "func"
    <2>1. CASE m'.function_count = m.function_count
                 /\ m'.import_func_count = m.import_func_count
      BY <1>1, <1>2, <1>4, <2>1 DEF LoaderInv, Reading
    <2>2. CASE id = "func" /\ NextSection
      BY <1>1, <1>2, <1>4, <2>2 DEF Section
    <2>3. QED
      BY <2>1, <2>2
  <1>6. QED
    BY <1>1, <1>2, <1>3, <1>4, <1>5 DEF Reading

(* A step that stops, and what follows the sections.                       *)
LEMMA Stopping ==
  ASSUME LoaderInv, UNCHANGED <<binary, m, pos>>, Ending'
  PROVE  LoaderInv'
  BY DEF LoaderInv, Shape, Counted, Sized, Numbered, Masked, Reading

LEMMA FatalStops ==
  ASSUME LoaderInv, UNCHANGED binary, status = "loading", NEW message, message # "none",
         Fatal(message)
  PROVE  LoaderInv'
  <1>1. Ending'
    BY DEF LoaderInv, Ending, Fatal
  <1>2. QED
    BY <1>1, Stopping DEF Fatal

LEMMA WildStops ==
  ASSUME LoaderInv, UNCHANGED binary, status = "loading", Wild
  PROVE  LoaderInv'
  <1>1. Ending'
    BY DEF LoaderInv, Ending, Wild
  <1>2. QED
    BY <1>1, Stopping DEF Wild

(* Steps that leave functions, types and sizes alone.                      *)
LEMMA ElsewhereKept ==
  ASSUME LoaderInv, NEW id, In(id), NextItem \/ NextSection, Continue, UNCHANGED started,
         NEW field \in {"globals", "exports", "start_function"}, NEW value,
         m' = m \/ m' = [m EXCEPT ![field] = value]
  PROVE  LoaderInv'
  <1>1. Shape' /\ Counted' /\ Sized' /\ Numbered' /\ Masked'
    BY DEF LoaderInv, Shape, Counted, Sized, Numbered, Masked
  <1>2. m'.function_count = m.function_count /\ m'.import_func_count = m.import_func_count
    BY DEF LoaderInv, Shape
  <1>3. Reading' /\ Ending'
    BY <1>2, ReadingOn
  <1>4. QED
    BY <1>1, <1>3 DEF LoaderInv

LEMMA TypesKept ==
  ASSUME LoaderInv, TypeSection
  PROVE  LoaderInv'
  <1>1. /\ Section \in ToSet(binary) /\ Section.id = "type" /\ binary \in Binaries
        /\ \A i \in DOMAIN Section.items : Section.items[i] \in ToSet(Section.items)
    BY SectionRead DEF TypeSection
  <1>2. \A i \in DOMAIN Section.items : Section.items[i] \in FunctionTypes
    BY <1>1, LoaderAssumption
  <1>3. m'.types = [i \in DOMAIN Section.items |->
                      [params |-> Section.items[i].params, results |-> Section.items[i].results,
                       mask |-> Mask(Section.items[i])]]
    BY DEF TypeSection, LoaderInv, Shape
  <1>4. Masked'
    BY <1>2, <1>3 DEF Masked
  <1>5. Shape' /\ Counted' /\ Sized' /\ Numbered'
    BY DEF TypeSection, LoaderInv, Shape, Counted, Sized, Numbered
  <1>6. m'.function_count = m.function_count /\ m'.import_func_count = m.import_func_count
    BY DEF TypeSection, LoaderInv, Shape
  <1>7. Reading' /\ Ending'
    BY <1>6, ReadingOn DEF TypeSection
  <1>8. QED
    BY <1>4, <1>5, <1>7 DEF LoaderInv

(* Imports come before the section that declares functions.                *)
LEMMA OnlyImportsSoFar ==
  ASSUME LoaderInv, In("import")
  PROVE  m.function_count = m.import_func_count
  <1>1. /\ binary \in Binaries /\ pos.section \in DOMAIN binary /\ Section.id = "import"
    BY SectionRead
  <1>2. Len(binary) \in Nat /\ DOMAIN binary = 1 .. Len(binary) /\ Ordered(binary)
    BY <1>1, LoaderAssumption
  <1>3. ASSUME NEW i \in 1 .. pos.section - 1, binary[i].id = "func" PROVE FALSE
    <2>1. i \in DOMAIN binary /\ i < pos.section
      BY <1>1, <1>2
    <2>2. Rank["func"] < Rank["import"]
      BY <1>1, <1>2, <1>3, <2>1 DEF Ordered, Section, Rank
    <2>3. QED
      BY <2>2 DEF Rank
  <1>4. QED
    BY <1>3 DEF LoaderInv, Reading

LEMMA ImportedFunctionKept ==
  ASSUME LoaderInv, ImportFunction
  PROVE  LoaderInv'
  <1> DEFINE new == [NewBlock(0, Item.type) EXCEPT !.imported = TRUE]
  <1>1. m.function_count = m.import_func_count
    BY OnlyImportsSoFar DEF ImportFunction, AtItem
  <1>2. DOMAIN new = {"fidx", "type", "imported", "local_count", "locals", "code"}
    BY DEF NewBlock
  <1>3. /\ m'.functions = Append(m.functions, new)
        /\ m'.import_func_count = m.import_func_count + 1
        /\ m'.function_count = m.function_count + 1
        /\ DOMAIN m' = DOMAIN m /\ m'.table = m.table /\ m'.memory = m.memory
        /\ m'.types = m.types
    BY DEF ImportFunction, LoaderInv, Shape
  <1> HIDE DEF new
  <1>4. /\ IsSequence(m'.functions) /\ Len(m'.functions) = Len(m.functions) + 1
        /\ Len(m.functions) \in Nat
        /\ \A i \in 1 .. Len(m.functions) : m'.functions[i] = m.functions[i]
        /\ m'.functions[Len(m.functions) + 1] = new
    BY <1>3, AppendedSequence DEF LoaderInv, Shape
  <1>5. Shape'
    <2>1. \A f \in 1 .. Len(m'.functions) :
            DOMAIN m'.functions[f] = {"fidx", "type", "imported", "local_count", "locals", "code"}
      BY <1>2, <1>4 DEF LoaderInv, Shape
    <2>2. QED
      BY <1>3, <1>4, <2>1 DEF LoaderInv, Shape
  <1>6. Counted' /\ Sized' /\ Masked' /\ Numbered'
    BY <1>1, <1>3, <1>4 DEF LoaderInv, Counted, Sized, Masked, Numbered
  <1>7. Reading' /\ Ending'
    BY <1>1, <1>3, ReadingOn DEF ImportFunction, AtItem
  <1>8. QED
    BY <1>5, <1>6, <1>7 DEF LoaderInv

LEMMA DeclaredFunctionsKept ==
  ASSUME LoaderInv, FuncSection
  PROVE  LoaderInv'
  <1> DEFINE count == m.function_count + Len(Section.items)
             Element(i) == IF i <= m.import_func_count THEN m.functions[i]
                           ELSE NewBlock(Fidx(i - 1), Section.items[i - m.import_func_count])
  <1>1. Len(Section.items) \in Nat
    BY SectionRead DEF FuncSection
  <1>2. /\ count \in Nat /\ m.import_func_count <= count
        /\ m.import_func_count \in Nat /\ m.import_func_count <= Len(m.functions)
        /\ m.function_count <= count
    <2>1. /\ m.import_func_count \in Nat /\ m.function_count \in Nat
          /\ m.import_func_count <= m.function_count /\ m.function_count = Len(m.functions)
      BY DEF LoaderInv, Counted
    <2> DEFINE more == Len(Section.items)
    <2>2. more \in Nat
      BY <1>1
    <2> HIDE DEF more
    <2>3. /\ m.function_count + more \in Nat /\ m.function_count <= m.function_count + more
          /\ m.import_func_count <= m.function_count + more
      BY <2>1, <2>2
    <2>4. QED
      BY <2>1, <2>3 DEF more
  <1>3. /\ m'.functions = [i \in 1 .. count |-> Element(i)]
        /\ m'.import_func_count = m.import_func_count /\ m'.function_count = count
        /\ DOMAIN m' = DOMAIN m /\ m'.table = m.table /\ m'.memory = m.memory
        /\ m'.types = m.types
    BY DEF FuncSection, LoaderInv, Shape
  <1>4. \A i \in 1 .. count :
          DOMAIN Element(i) = {"fidx", "type", "imported", "local_count", "locals", "code"}
    BY <1>2 DEF LoaderInv, Shape, Counted, NewBlock
  <1>5. \A i \in 1 .. count : i > m.import_func_count => Element(i).fidx = i - 1
    BY <1>2 DEF NewBlock, Fidx
  <1> HIDE DEF count, Element
  <1>6. IsSequence(m'.functions) /\ Len(m'.functions) = count
    <2> DEFINE S == {Element(i) : i \in 1 .. count}
    <2>1. m'.functions \in [1 .. count -> S]
      BY <1>3
    <2> HIDE DEF S
    <2>2. m'.functions \in Seq(S)
      BY <1>2, <2>1
    <2>3. QED
      BY <1>2, <2>1, <2>2 DEF IsSequence
  <1>7. Shape' /\ Counted' /\ Sized' /\ Masked' /\ Numbered'
    BY <1>2, <1>3, <1>4, <1>5, <1>6 DEF LoaderInv, Shape, Counted, Sized, Masked, Numbered
  <1>8. Reading' /\ Ending'
    BY <1>3, ReadingOn DEF FuncSection
  <1>9. QED
    BY <1>7, <1>8 DEF LoaderInv

LEMMA CodeKept ==
  ASSUME LoaderInv, CodeItem
  PROVE  LoaderInv'
  <1>1. CASE (Item.last # "end" /\ Fatal("no_end")) \/ Wild
    BY <1>1, FatalStops, WildStops DEF CodeItem, AtItem, In
  <1>2. CASE ~((Item.last # "end" /\ Fatal("no_end")) \/ Wild)
    <2> DEFINE k == CodeTarget(pos.item)
               new == [m.functions[k] EXCEPT !.local_count = LocalCount(Item.locals),
                                             !.locals = LocalTypes(Item.locals),
                                             !.code = Item.code]
    <2>1. /\ m'.functions = [m.functions EXCEPT ![k] = new]
          /\ m'.import_func_count = m.import_func_count
          /\ m'.function_count = m.function_count
          /\ DOMAIN m' = DOMAIN m /\ m'.table = m.table /\ m'.memory = m.memory
          /\ m'.types = m.types
      BY <1>2 DEF CodeItem, LoaderInv, Shape
    <2>2. DOMAIN new = DOMAIN m.functions[k]
          /\ ("fidx" \in DOMAIN m.functions[k] => new.fidx = m.functions[k].fidx)
      OBVIOUS
    <2> HIDE DEF k, new
    <2>3. /\ IsSequence(m'.functions) /\ Len(m'.functions) = Len(m.functions)
          /\ \A i \in 1 .. Len(m.functions) :
               m'.functions[i] = IF i = k THEN new ELSE m.functions[i]
      <3>1. IsSequence(m.functions)
        BY DEF LoaderInv, Shape
      <3>2. PICK S : m.functions \in Seq(S)
        BY <3>1 DEF IsSequence
      <3> DEFINE T == S \cup {new}
                 n == Len(m.functions)
      <3>3. m.functions \in [1 .. n -> T] /\ n \in Nat /\ new \in T
        BY <3>2
      <3> HIDE DEF T, n
      <3>4. m'.functions \in [1 .. n -> T]
        BY <2>1, <3>3
      <3>5. m'.functions \in Seq(T) /\ Len(m'.functions) = n
        BY <3>3, <3>4
      <3>6. \A i \in 1 .. n : m'.functions[i] = IF i = k THEN new ELSE m.functions[i]
        BY <2>1, <3>3
      <3>7. QED
        BY <3>5, <3>6 DEF IsSequence, n
    <2>4. Shape' /\ Counted' /\ Sized' /\ Masked' /\ Numbered'
      BY <2>1, <2>2, <2>3 DEF LoaderInv, Shape, Counted, Sized, Masked, Numbered
    <2>5. Reading' /\ Ending'
      BY <1>2, <2>1, ReadingOn DEF CodeItem, AtItem
    <2>6. QED
      BY <2>4, <2>5 DEF LoaderInv
  <1>3. QED
    BY <1>1, <1>2

(* Tables and memories, imported or defined.                               *)
LEMMA SizeKept ==
  ASSUME LoaderInv, NEW id, In(id), NextItem \/ NextSection, Continue, UNCHANGED started,
         \/ /\ DOMAIN m'.table = {"allocated", "cur_size", "max_size", "entries"}
            /\ m'.table.max_size \in 0 .. MAX_ENTRIES
            /\ m' = [m EXCEPT !.table = m'.table]
         \/ /\ DOMAIN m'.memory = {"allocated", "cur_size", "max_size", "bytes"}
            /\ m'.memory.max_size \in 0 .. MAX_PAGES
            /\ m' = [m EXCEPT !.memory = m'.memory]
  PROVE  LoaderInv'
  <1>1. /\ DOMAIN m' = DOMAIN m /\ m'.types = m.types /\ m'.functions = m.functions
        /\ m'.function_count = m.function_count /\ m'.import_func_count = m.import_func_count
        /\ m'.table = m.table \/ m'.memory = m.memory
    BY DEF LoaderInv, Shape
  <1>2. Shape' /\ Sized'
    BY <1>1 DEF LoaderInv, Shape, Sized
  <1>3. Counted' /\ Numbered' /\ Masked'
    BY <1>1 DEF LoaderInv, Counted, Numbered, Masked
  <1>4. Reading' /\ Ending'
    BY <1>1, ReadingOn
  <1>5. QED
    BY <1>2, <1>3, <1>4 DEF LoaderInv

LEMMA Reads ==
  ASSUME NEW id, AtItem(id), LoaderInv
  PROVE  In(id) /\ UNCHANGED binary /\ status = "loading" /\ pos.item \in DOMAIN Section.items
         /\ Item \in ToSet(Section.items) /\ Section \in ToSet(binary) /\ binary \in Binaries
         /\ Section.id = id
  <1>1. In(id) /\ pos.item <= Len(Section.items) /\ pos.item \in Nat \ {0}
    BY DEF AtItem, LoaderInv, Reading
  <1>2. QED
    BY <1>1, SectionRead DEF Item

LEMMA ImportedTableKept ==
  ASSUME LoaderInv, ImportTable
  PROVE  LoaderInv'
  <1>1. AtItem("import") /\ Item.kind = "table"
    BY DEF ImportTable
  <1>2. /\ In("import") /\ UNCHANGED binary /\ status = "loading"
        /\ Item.host.max_size \in 0 .. MAX_ENTRIES
    BY <1>1, Reads, LoaderAssumption
  <1>3. CASE Fatal("second_table")
    BY <1>2, <1>3, FatalStops
  <1>4. CASE Fatal("table_size")
    BY <1>2, <1>4, FatalStops
  <1>5. CASE m' = [m EXCEPT !.table = Table(Item.host)] /\ NextItem /\ Continue
               /\ UNCHANGED started
    <2>1. m'.table = Table(Item.host)
      BY <1>5 DEF LoaderInv, Shape
    <2>2. QED
      BY <1>2, <1>5, <2>1, SizeKept DEF Table
  <1>6. CASE Fatal("elem_type")
    BY <1>2, <1>6, FatalStops
  <1>7. QED
    BY <1>3, <1>4, <1>5, <1>6 DEF ImportTable

LEMMA ImportedMemoryKept ==
  ASSUME LoaderInv, ImportMemory
  PROVE  LoaderInv'
  <1>1. AtItem("import") /\ Item.kind = "memory"
    BY DEF ImportMemory
  <1>2. /\ In("import") /\ UNCHANGED binary /\ status = "loading"
        /\ Item.host.max_size \in 0 .. MAX_PAGES
    BY <1>1, Reads, LoaderAssumption
  <1>3. CASE Fatal("second_memory")
    BY <1>2, <1>3, FatalStops
  <1>4. CASE Fatal("memory_size")
    BY <1>2, <1>4, FatalStops
  <1>5. CASE m' = [m EXCEPT !.memory = Memory(Item.host)] /\ NextItem /\ Continue
               /\ UNCHANGED started
    <2>1. m'.memory = Memory(Item.host)
      BY <1>5 DEF LoaderInv, Shape
    <2>2. QED
      BY <1>2, <1>5, <2>1, SizeKept DEF Memory
  <1>6. QED
    BY <1>3, <1>4, <1>5 DEF ImportMemory

LEMMA DefinedTableKept ==
  ASSUME LoaderInv, TableSection
  PROVE  LoaderInv'
  <1>1. In("table") /\ UNCHANGED binary /\ status = "loading"
    BY DEF TableSection, In
  <1>2. CASE Fatal("table_count") \/ Fatal("elem_type")
    BY <1>1, <1>2, FatalStops
  <1>3. CASE ~Fatal("table_count") /\ ~Fatal("elem_type")
    <2> DEFINE limits == Section.items[1]
               table == Table([cur_size |-> limits.min, max_size |-> MaxEntries(limits),
                               entries |-> Zeros(limits.min)])
    <2>1. limits.max \in Nat
      <3>1. Len(Section.items) = 1
        BY <1>3 DEF TableSection
      <3>2. /\ binary \in Binaries /\ Section \in ToSet(binary) /\ Section.id = "table"
            /\ Section.items[1] \in ToSet(Section.items)
        BY <1>1, <3>1, SectionRead
      <3>3. QED
        BY <3>2, LoaderAssumption
    <2>2. MaxEntries(limits) \in 0 .. MAX_ENTRIES
      BY <2>1, LoaderAssumption DEF MaxEntries
    <2>3. DOMAIN table = {"allocated", "cur_size", "max_size", "entries"}
          /\ table.max_size \in 0 .. MAX_ENTRIES
      BY <2>2 DEF Table
    <2>4. m' = [m EXCEPT !.table = table] /\ NextSection /\ Continue /\ UNCHANGED started
      BY <1>3 DEF TableSection
    <2> HIDE DEF table
    <2>5. m'.table = table
      BY <2>4 DEF LoaderInv, Shape
    <2>6. QED
      BY <1>1, <2>3, <2>4, <2>5, SizeKept
  <1>4. QED
    BY <1>2, <1>3

LEMMA DefinedMemoryKept ==
  ASSUME LoaderInv, MemSection
  PROVE  LoaderInv'
  <1>1. In("mem") /\ UNCHANGED binary /\ status = "loading"
    BY DEF MemSection, In
  <1>2. CASE Fatal("memory_count")
    BY <1>1, <1>2, FatalStops
  <1>3. CASE ~Fatal("memory_count")
    <2> DEFINE limits == Section.items[1]
               memory == Memory(DefinedMemory(limits))
    <2>1. limits.max \in Nat
      <3>1. Len(Section.items) = 1
        BY <1>3 DEF MemSection
      <3>2. /\ binary \in Binaries /\ Section \in ToSet(binary) /\ Section.id = "mem"
            /\ Section.items[1] \in ToSet(Section.items)
        BY <1>1, <3>1, SectionRead
      <3>3. QED
        BY <3>2, LoaderAssumption
    <2>2. MaxSize(limits) \in 0 .. MAX_PAGES
      BY <2>1, LoaderAssumption DEF MaxSize
    <2>3. DOMAIN memory = {"allocated", "cur_size", "max_size", "bytes"}
          /\ memory.max_size \in 0 .. MAX_PAGES
      BY <2>2 DEF Memory, DefinedMemory
    <2>4. m' = [m EXCEPT !.memory = memory] /\ NextSection /\ Continue /\ UNCHANGED started
      BY <1>3 DEF MemSection
    <2> HIDE DEF memory
    <2>5. m'.memory = memory
      BY <2>4 DEF LoaderInv, Shape
    <2>6. QED
      BY <1>1, <2>3, <2>4, <2>5, SizeKept
  <1>4. QED
    BY <1>2, <1>3

-----------------------------------------------------------------------------
LEMMA ElemKept ==
  ASSUME LoaderInv, ElemItem
  PROVE  LoaderInv'
  <1>1. In("elem") /\ UNCHANGED binary /\ status = "loading"
    BY Reads DEF ElemItem
  <1>2. CASE Fatal("index") \/ Fatal("init_type")
    BY <1>1, <1>2, FatalStops
  <1>3. CASE Wild
    BY <1>1, <1>3, WildStops
  <1>4. CASE ~(Fatal("index") \/ Fatal("init_type")) /\ ~Wild
    <2>1. PICK entries : m' = [m EXCEPT !.table.entries = entries]
      BY <1>4 DEF ElemItem
    <2>2. NextItem /\ Continue /\ UNCHANGED started
      BY <1>4 DEF ElemItem
    <2>3. m'.table = [m.table EXCEPT !.entries = entries]
      BY <2>1 DEF LoaderInv, Shape
    <2>4. /\ m' = [m EXCEPT !.table = m'.table] /\ m'.table.max_size = m.table.max_size
          /\ DOMAIN m'.table = DOMAIN m.table
      BY <2>1, <2>3 DEF LoaderInv, Shape
    <2>5. QED
      BY <1>1, <2>2, <2>4, SizeKept DEF LoaderInv, Shape, Sized
  <1>5. QED
    BY <1>2, <1>3, <1>4

LEMMA DataKept ==
  ASSUME LoaderInv, DataItem
  PROVE  LoaderInv'
  <1>1. In("data") /\ UNCHANGED binary /\ status = "loading"
    BY Reads DEF DataItem
  <1>2. CASE Fatal("index") \/ Fatal("init_type")
    BY <1>1, <1>2, FatalStops
  <1>3. CASE Wild
    BY <1>1, <1>3, WildStops
  <1>4. CASE ~(Fatal("index") \/ Fatal("init_type")) /\ ~Wild
    <2>1. PICK bytes : m' = [m EXCEPT !.memory.bytes = bytes]
      BY <1>4 DEF DataItem
    <2>2. NextItem /\ Continue /\ UNCHANGED started
      BY <1>4 DEF DataItem
    <2>3. m'.memory = [m.memory EXCEPT !.bytes = bytes]
      BY <2>1 DEF LoaderInv, Shape
    <2>4. /\ m' = [m EXCEPT !.memory = m'.memory] /\ m'.memory.max_size = m.memory.max_size
          /\ DOMAIN m'.memory = DOMAIN m.memory
      BY <2>1, <2>3 DEF LoaderInv, Shape
    <2>5. QED
      BY <1>1, <2>2, <2>4, SizeKept DEF LoaderInv, Shape, Sized
  <1>5. QED
    BY <1>2, <1>3, <1>4

LEMMA GlobalsKept ==
  ASSUME LoaderInv, ImportGlobal \/ GlobalItem
  PROVE  LoaderInv'
  <1>1. CASE ImportGlobal
    BY <1>1, ElsewhereKept, Reads DEF ImportGlobal
  <1>2. CASE GlobalItem
    <2>1. In("global") /\ UNCHANGED binary /\ status = "loading"
      BY <1>2, Reads DEF GlobalItem
    <2>2. CASE Fatal("init_type")
      BY <2>1, <2>2, FatalStops
    <2>3. CASE ~Fatal("init_type")
      BY <1>2, <2>1, <2>3, ElsewhereKept DEF GlobalItem
    <2>4. QED
      BY <2>2, <2>3
  <1>3. QED
    BY <1>1, <1>2

LEMMA ExportsKept ==
  ASSUME LoaderInv, ExportItem \/ StartSection
  PROVE  LoaderInv'
  <1>1. CASE StartSection
    BY <1>1, ElsewhereKept DEF StartSection
  <1>2. CASE ExportItem
    <2>1. In("export") /\ UNCHANGED binary /\ status = "loading"
      BY <1>2, Reads DEF ExportItem
    <2>2. CASE Fatal("index")
      BY <2>1, <2>2, FatalStops
    <2>3. CASE ~Fatal("index")
      BY <1>2, <2>1, <2>3, ElsewhereKept DEF ExportItem
    <2>4. QED
      BY <2>2, <2>3
  <1>3. QED
    BY <1>1, <1>2

LEMMA OthersKept ==
  ASSUME LoaderInv, CustomSection \/ UnknownSection \/ Unresolved \/ ImportOther \/ EndOfItems
  PROVE  LoaderInv'
  <1>1. CASE CustomSection
    BY <1>1, ElsewhereKept DEF CustomSection
  <1>2. CASE UnknownSection
    BY <1>2, SectionRead, FatalStops DEF UnknownSection
  <1>3. CASE Unresolved
    BY <1>3, Reads, FatalStops DEF Unresolved
  <1>4. CASE ImportOther
    BY <1>4, Reads, FatalStops DEF ImportOther
  <1>5. CASE EndOfItems
    BY <1>5, ElsewhereKept DEF EndOfItems
  <1>6. QED
    BY <1>1, <1>2, <1>3, <1>4, <1>5

LEMMA FinishKept ==
  ASSUME LoaderInv, Finish
  PROVE  LoaderInv'
  <1>1. UNCHANGED <<binary, m, pos>>
    BY DEF Finish, Fatal, Wild
  <1>2. Ending'
    <2>1. status = "loading" /\ started = 0 /\ error = "none"
      BY DEF LoaderInv, Ending, Finish
    <2>2. CASE Fatal("imported_start") \/ (Wild /\ status = "loading")
      BY <2>1, <2>2 DEF Fatal, Wild, Ending
    <2>3. CASE status' = "loaded" /\ UNCHANGED error
      <3>1. started' \in {0, 1}
        BY <2>1, <2>3 DEF Finish, Fatal, Wild, Invoked
      <3>2. QED
        BY <2>1, <2>3, <3>1 DEF Ending
    <2>4. CASE status' = "exited" /\ error' = "start_failed"
      <3>1. started' \in {0, 1}
        BY <2>1, <2>4 DEF Finish, Fatal, Wild, Invoked
      <3>2. QED
        BY <2>4, <3>1 DEF Ending
    <2>5. QED
      BY <2>1, <2>2, <2>3, <2>4 DEF Finish
  <1>3. QED
    BY <1>1, <1>2, Stopping

LEMMA InvNext == LoaderInv /\ [Next]_vars => LoaderInv'
  <1> SUFFICES ASSUME LoaderInv, [Next]_vars PROVE LoaderInv'
    OBVIOUS
  <1>1. CASE UNCHANGED vars
    <2>1. Ending'
      BY <1>1 DEF LoaderInv, Ending, vars
    <2>2. QED
      BY <1>1, <2>1, Stopping DEF vars
  <1>2. CASE Next
    BY <1>2, TypesKept, ImportedFunctionKept, ImportedTableKept, ImportedMemoryKept,
       GlobalsKept, DeclaredFunctionsKept, DefinedTableKept, DefinedMemoryKept, ExportsKept,
       ElemKept, CodeKept, DataKept, OthersKept, FinishKept DEF Next
  <1>3. QED
    BY <1>1, <1>2

THEOREM LoaderInvariant == Spec => []LoaderInv
  BY InvInit, InvNext, PTL DEF Spec

-----------------------------------------------------------------------------
(* Whatever the binary, an exported function of the module is invoked      *)
(* under its own number, and not under that of another.                    *)
THEOREM ExportedFunctionsKeepTheirNumber == Spec => []ExportsRunThemselves
  <1>1. LoaderInv => ExportsRunThemselves
    <2> SUFFICES ASSUME LoaderInv, NEW e \in DOMAIN m.exports,
                        NEW value, value = m.exports[e].value,
                        value.index \in m.import_func_count .. m.function_count - 1
                 PROVE  At(m.functions, value.index).fidx = value.index
      BY DEF ExportsRunThemselves
    <2>1. m.import_func_count \in Nat /\ m.function_count \in Nat
      BY DEF LoaderInv, Counted
    <2>2. /\ value.index \in Int /\ value.index + 1 \in 1 .. m.function_count
          /\ value.index + 1 > m.import_func_count
      BY <2>1
    <2>3. m.functions[value.index + 1].fidx = value.index + 1 - 1
      BY <2>2 DEF LoaderInv, Numbered
    <2>4. QED
      BY <2>2, <2>3 DEF At
  <1>2. QED
    BY <1>1, LoaderInvariant, PTL

(* Whatever types a module declares, call_indirect's comparison of masks   *)
(* compares the types themselves, up to as many parameters as leave room   *)
(* for the result.                                                         *)
THEOREM LoadedMasksTellTypesApart == Spec => []MasksTellTypesApart
  <1>1. LoaderInv => MasksTellTypesApart
    <2> SUFFICES ASSUME LoaderInv, NEW s \in ToSet(m.types), NEW t \in ToSet(m.types),
                        Distinguishable(s), Distinguishable(t), s.mask = t.mask
                 PROVE  s.params = t.params /\ s.results = t.results
      BY DEF MasksTellTypesApart
    <2>1. PICK x \in FunctionTypes :
            s = [params |-> x.params, results |-> x.results, mask |-> Mask(x)]
      BY DEF LoaderInv, Masked, ToSet
    <2>2. PICK y \in FunctionTypes :
            t = [params |-> y.params, results |-> y.results, mask |-> Mask(y)]
      BY DEF LoaderInv, Masked, ToSet
    <2>3. Distinguishable(x) /\ Distinguishable(y) /\ Mask(x) = Mask(y)
      BY <2>1, <2>2 DEF Distinguishable
    <2>4. x = y
      BY <2>3, MaskIdentifiesType, LoaderAssumption
    <2>5. QED
      BY <2>1, <2>2, <2>4
  <1>2. QED
    BY <1>1, LoaderInvariant, PTL

(* The sizes load_module works with stay within the bounds it states.      *)
THEOREM LoaderTypes == Spec => []TypeOK
  <1>1. LoaderInv => TypeOK
    <2> SUFFICES ASSUME LoaderInv PROVE TypeOK
      OBVIOUS
    <2>1. ASSUME NEW s \in ToSet(m.types)
          PROVE  s.mask \in [0 .. NIBBLES - 1 -> 0 .. 15]
      <3>1. PICK x \in FunctionTypes :
              s = [params |-> x.params, results |-> x.results, mask |-> Mask(x)]
        BY DEF LoaderInv, Masked, ToSet
      <3> DEFINE n == Len(x.params)
      <3>2. x.params \in Seq(ValueTypes) /\ n \in Nat
            /\ (Len(x.results) = 1 => x.results[1] \in ValueTypes)
        BY DEF FunctionTypes
      <3>3. \A i \in 0 .. NIBBLES - 1 : i < n => x.params[n - i] \in ValueTypes
        BY <3>2
      <3>4. \A v \in ValueTypes : Digit(v) \in 0 .. 15
        BY DEF ValueTypes, Digit
      <3>5. \A i \in 0 .. NIBBLES - 1 : Mask(x)[i] \in 0 .. 15
        BY <3>2, <3>3, <3>4 DEF Mask
      <3>6. Mask(x) \in [0 .. NIBBLES - 1 -> 0 .. 15]
        BY <3>5 DEF Mask
      <3>7. QED
        BY <3>1, <3>6
    <2>2. QED
      BY <2>1 DEF LoaderInv, Counted, Sized, Reading, Ending, TypeOK
  <1>2. QED
    BY <1>1, LoaderInvariant, PTL

-----------------------------------------------------------------------------
(***************************************************************************)
(* The instance so far.  Each part of it is a function of how many items   *)
(* of the sections it depends on have been read; that the sections come in *)
(* order says which of them have been read as a whole when another begins. *)
(***************************************************************************)
Before(id) == \E s \in 1 .. pos.section - 1 : binary[s].id = id
Current(id) == pos.section <= Len(binary) /\ binary[pos.section].id = id

Read(id) ==
  IF Before(id) THEN Len(Collected(id)) ELSE IF Current(id) THEN pos.item - 1 ELSE 0
ReadOf(kind) == OfKind(kind, Read("import"))

Placed ==
  /\ pos.section <= Len(binary) =>
       IF Section.id \in ByItems THEN pos.item <= Len(Section.items) + 1 ELSE pos.item = 1
  /\ status = "loaded" \/ started > 0 => pos.section > Len(binary)

ImportedGlobal(g) ==
  [type |-> Imported("global")[g].type, value |-> Imported("global")[g].host]

GlobalsSoFar(globals, k, n) ==
  globals = [g \in 1 .. k + n |->
               IF g <= k THEN ImportedGlobal(g) ELSE Initial(Collected("global")[g - k].init)]

HasCode(function, code) ==
  /\ function.code = code.code
  /\ function.local_count = LocalCount(code.locals) /\ function.locals = LocalTypes(code.locals)

FunctionsSoFar(module, k, n, c) ==
  /\ module.import_func_count = k /\ module.function_count = k + n
  /\ \A f \in 1 .. k :
       module.functions[f].imported /\ module.functions[f].type = Imported("func")[f].type
  /\ \A f \in 1 .. n :
       /\ module.functions[k + f].imported = FALSE
       /\ module.functions[k + f].type = Collected("func")[f]
       /\ f <= c => HasCode(module.functions[k + f], Collected("code")[f])

(* What the first n segments leave at a place.                             *)
ElemsOver(n, i) == {c \in Covering(Collected("elem"), ElemSize, i) : c <= n}
EntryAfter(n, i) ==
  LET last == Collected("elem")[Max(ElemsOver(n, i))] IN
  IF ElemsOver(n, i) # {} THEN last.funcs[i - Initial(last.init).value + 1]
  ELSE IF Imported("table") # <<>> THEN Imported("table")[1].host.entries[i] ELSE 0

TableSoFar(table, k, n) ==
  LET length == IF k > 0 THEN TableLength ELSE 0 IN
  /\ table.allocated <=> k > 0
  /\ table.cur_size = length /\ DOMAIN table.entries = 0 .. length - 1
  /\ \A i \in 0 .. length - 1 : table.entries[i] = EntryAfter(n, i)

DatasOver(n, i) == {c \in Covering(Collected("data"), DataSize, i) : c <= n}
ByteAfter(n, i) ==
  LET last == Collected("data")[Max(DatasOver(n, i))] IN
  IF DatasOver(n, i) # {} THEN last.bytes[i - Initial(last.init).value + 1]
  ELSE IF Imported("memory") # <<>> THEN Imported("memory")[1].host.bytes[i] ELSE 0

MemorySoFar(memory, k, n) ==
  LET length == IF k > 0 THEN MemoryPages * PAGE_SIZE ELSE 0 IN
  /\ memory.allocated <=> k > 0
  /\ memory.cur_size = IF k > 0 THEN MemoryPages ELSE 0
  /\ 0 .. length - 1 \subseteq DOMAIN memory.bytes
  /\ \A i \in 0 .. length - 1 : memory.bytes[i] = ByteAfter(n, i)

ExportsSoFar(exports, n) ==
  exports = [e \in 1 .. n |->
               [export_name |-> Collected("export")[e].name,
                external_kind |-> Collected("export")[e].kind,
                value |-> [kind |-> Collected("export")[e].kind,
                           index |-> Collected("export")[e].index]]]

SoFar ==
  /\ GlobalsSoFar(m.globals, ReadOf("global"), Read("global"))
  /\ FunctionsSoFar(m, ReadOf("func"), Read("func"), Read("code"))
  /\ TableSoFar(m.table, ReadOf("table") + Read("table"), Read("elem"))
  /\ MemorySoFar(m.memory, ReadOf("memory") + Read("mem"), Read("data"))
  /\ ExportsSoFar(m.exports, Read("export"))

Good == Valid /\ Linked /\ Fits
Accepted ==
  status \in {"exited", "wild"} =>
    error \in {"unresolved", "section", "table_count", "memory_count", "imported_start",
               "start_failed"}

(* The start function is what its section says, once that is read.         *)
StartDeclared ==
  m.start_function = NoStart \/ m.start_function \in ToSet(Collected("start"))

BuildInv == Placed /\ StartDeclared /\ (Good => SoFar /\ Accepted)

-----------------------------------------------------------------------------
(***************************************************************************)
(* Where the loader is in the binary.                                      *)
(***************************************************************************)
LEMMA BinaryRead ==
  ASSUME LoaderInv
  PROVE  /\ binary \in Binaries /\ Len(binary) \in Nat /\ DOMAIN binary = 1 .. Len(binary)
         /\ Ordered(binary) /\ pos.section \in 1 .. Len(binary) + 1 /\ pos.item \in Nat \ {0}
         /\ \A s \in DOMAIN binary :
              /\ Len(binary[s].items) \in Nat
              /\ DOMAIN binary[s].items = 1 .. Len(binary[s].items)
  <1>1. binary \in Binaries /\ pos.section \in 1 .. Len(binary) + 1 /\ pos.item \in Nat \ {0}
    BY DEF LoaderInv, Reading
  <1>2. Len(binary) \in Nat /\ DOMAIN binary = 1 .. Len(binary) /\ Ordered(binary)
    BY <1>1, LoaderAssumption
  <1>3. \A s \in DOMAIN binary : binary[s] \in ToSet(binary)
    BY DEF ToSet
  <1>4. QED
    BY <1>1, <1>2, <1>3, LoaderAssumption

LEMMA RanksAreNumbers == \A id \in DOMAIN Rank : Rank[id] \in Nat
  BY DEF Rank

(* A number of a section is found once.                                    *)
LEMMA OneSection ==
  ASSUME LoaderInv, NEW s \in DOMAIN binary, NEW t \in DOMAIN binary,
         binary[s].id = binary[t].id, binary[s].id \in DOMAIN Rank
  PROVE  s = t
  <1>1. /\ DOMAIN binary = 1 .. Len(binary) /\ Len(binary) \in Nat /\ Ordered(binary)
        /\ Rank[binary[s].id] \in Nat
    BY BinaryRead, RanksAreNumbers
  <1>2. ~(s < t) /\ ~(t < s)
    BY <1>1 DEF Ordered
  <1>3. QED
    BY <1>1, <1>2

LEMMA CollectedHere ==
  ASSUME LoaderInv, NEW s \in DOMAIN binary, binary[s].id \in DOMAIN Rank
  PROVE  Collected(binary[s].id) = binary[s].items
  <1> DEFINE sections == {t \in ToSet(binary) : t.id = binary[s].id}
  <1>1. sections = {binary[s]}
    BY OneSection DEF ToSet
  <1>2. sections # {} /\ (CHOOSE t \in sections : TRUE) = binary[s]
    BY <1>1
  <1>3. QED
    BY <1>2 DEF Collected

LEMMA CollectedIs ==
  ASSUME LoaderInv, NEW id \in DOMAIN Rank
  PROVE  \/ \E s \in DOMAIN binary : binary[s].id = id /\ Collected(id) = binary[s].items
         \/ (\A s \in DOMAIN binary : binary[s].id # id) /\ Collected(id) = <<>>
  <1>1. CASE \E s \in DOMAIN binary : binary[s].id = id
    BY <1>1, CollectedHere
  <1>2. CASE \A s \in DOMAIN binary : binary[s].id # id
    <2>1. {t \in ToSet(binary) : t.id = id} = {}
      BY <1>2 DEF ToSet
    <2>2. QED
      BY <1>2, <2>1 DEF Collected
  <1>3. QED
    BY <1>1, <1>2

LEMMA CollectedIsSequence ==
  ASSUME LoaderInv, NEW id \in DOMAIN Rank
  PROVE  /\ Len(Collected(id)) \in Nat /\ DOMAIN Collected(id) = 1 .. Len(Collected(id))
         /\ \A n \in DOMAIN Collected(id) : Collected(id)[n] \in ToSet(Collected(id))
  <1>1. CASE \E s \in DOMAIN binary : binary[s].id = id /\ Collected(id) = binary[s].items
    BY <1>1, BinaryRead DEF ToSet
  <1>2. CASE Collected(id) = <<>>
    BY <1>2 DEF ToSet
  <1>3. QED
    BY <1>1, <1>2, CollectedIs

(* What is read while a section is.                                        *)
LEMMA ReadHere ==
  ASSUME LoaderInv, NEW id \in DOMAIN Rank, In(id)
  PROVE  /\ Collected(id) = Section.items /\ Read(id) = pos.item - 1
         /\ \A other \in DOMAIN Rank :
              /\ Rank[other] < Rank[id] => Read(other) = Len(Collected(other))
              /\ Rank[other] > Rank[id] => Read(other) = 0
  <1> DEFINE here == pos.section
  <1>1. /\ here \in DOMAIN binary /\ binary[here].id = id /\ here <= Len(binary)
        /\ Len(binary) \in Nat /\ DOMAIN binary = 1 .. Len(binary) /\ Ordered(binary)
    BY BinaryRead, SectionRead DEF Section, In
  <1>2. Collected(id) = Section.items
    BY <1>1, CollectedHere DEF Section
  <1>3. ~Before(id)
    <2> SUFFICES ASSUME NEW s \in 1 .. here - 1, binary[s].id = id PROVE FALSE
      BY DEF Before
    <2>1. s \in DOMAIN binary
      BY <1>1
    <2>2. s = here
      BY <1>1, <2>1, OneSection
    <2>3. QED
      BY <1>1, <2>2
  <1>4. Read(id) = pos.item - 1
    BY <1>1, <1>3 DEF Read, Current
  <1>5. ASSUME NEW other \in DOMAIN Rank, Rank[other] < Rank[id]
        PROVE  Read(other) = Len(Collected(other))
    <2>1. Rank[other] \in Nat /\ Rank[id] \in Nat
      BY RanksAreNumbers
    <2>2. CASE Before(other)
      BY <2>2 DEF Read
    <2>3. CASE ~Before(other)
      <3>1. ~Current(other)
        BY <1>1, <1>5, <2>1 DEF Current
      <3>2. ASSUME NEW s \in DOMAIN binary, binary[s].id = other PROVE FALSE
        <4>1. s \notin 1 .. here - 1 /\ s # here
          BY <1>1, <2>3, <3>1, <3>2 DEF Before, Current
        <4>2. here < s
          BY <1>1, <4>1
        <4>3. Rank[id] < Rank[other]
          BY <1>1, <3>2, <4>2 DEF Ordered
        <4>4. QED
          BY <1>5, <2>1, <4>3
      <3>3. Collected(other) = <<>>
        BY <3>2, CollectedIs
      <3>4. QED
        BY <2>3, <3>1, <3>3 DEF Read
    <2>4. QED
      BY <2>2, <2>3
  <1>6. ASSUME NEW other \in DOMAIN Rank, Rank[other] > Rank[id]
        PROVE  Read(other) = 0
    <2>1. Rank[other] \in Nat /\ Rank[id] \in Nat
      BY RanksAreNumbers
    <2>2. ~Current(other)
      BY <1>1, <1>6, <2>1 DEF Current
    <2>3. ~Before(other)
      <3> SUFFICES ASSUME NEW s \in 1 .. here - 1, binary[s].id = other PROVE FALSE
        BY DEF Before
      <3>1. s \in DOMAIN binary /\ s < here
        BY <1>1
      <3>2. Rank[other] < Rank[id]
        BY <1>1, <3>1 DEF Ordered
      <3>3. QED
        BY <1>6, <2>1, <3>2
    <2>4. QED
      BY <2>2, <2>3 DEF Read
  <1>7. QED
    BY <1>2, <1>4, <1>5, <1>6

(* When all sections are behind, all items are read.                       *)
LEMMA ReadAll ==
  ASSUME LoaderInv, pos.section > Len(binary), NEW id \in DOMAIN Rank
  PROVE  Read(id) = Len(Collected(id))
  <1>1. pos.section = Len(binary) + 1 /\ Len(binary) \in Nat /\ DOMAIN binary = 1 .. Len(binary)
    BY BinaryRead
  <1>2. CASE Before(id)
    BY <1>2 DEF Read
  <1>3. CASE ~Before(id)
    <2>1. \A s \in DOMAIN binary : binary[s].id # id
      BY <1>1, <1>3 DEF Before
    <2>2. Collected(id) = <<>>
      BY <2>1, CollectedIs
    <2>3. ~Current(id)
      BY <1>1 DEF Current
    <2>4. QED
      BY <1>3, <2>2, <2>3 DEF Read
  <1>4. QED
    BY <1>2, <1>3

LEMMA ReadInRange ==
  ASSUME LoaderInv, Placed, NEW id \in DOMAIN Rank
  PROVE  Read(id) \in 0 .. Len(Collected(id))
  <1>1. Len(Collected(id)) \in Nat
    BY CollectedIsSequence
  <1>2. CASE Before(id)
    BY <1>1, <1>2 DEF Read
  <1>3. CASE ~Before(id) /\ ~Current(id)
    BY <1>1, <1>3 DEF Read
  <1>4. CASE ~Before(id) /\ Current(id)
    <2>1. pos.section \in DOMAIN binary /\ binary[pos.section].id = id /\ pos.item \in Nat \ {0}
      BY <1>4, BinaryRead DEF Current
    <2>2. Collected(id) = Section.items
      BY <2>1, CollectedHere DEF Section
    <2>3. pos.item <= Len(Section.items) + 1
      BY <1>1, <1>4, <2>1, <2>2 DEF Placed, Current
    <2>4. QED
      BY <1>1, <1>4, <2>1, <2>2, <2>3 DEF Read
  <1>5. QED
    BY <1>2, <1>3, <1>4

-----------------------------------------------------------------------------
(***************************************************************************)
(* Steps of the loader in the binary.                                      *)
(***************************************************************************)
LEMMA CollectedKept == ASSUME UNCHANGED binary PROVE \A id : Collected(id)' = Collected(id)
  BY DEF Collected

LEMMA ReadSame ==
  ASSUME UNCHANGED <<binary, pos>>
  PROVE  \A id : Read(id)' = Read(id)
  BY CollectedKept DEF Read, Before, Current

LEMMA ReadNextItem ==
  ASSUME LoaderInv, NEW id \in DOMAIN Rank, In(id), NextItem
  PROVE  /\ Read(id)' = Read(id) + 1
         /\ \A other \in DOMAIN Rank : other # id => Read(other)' = Read(other)
  <1>1. binary' = binary /\ pos'.section = pos.section /\ pos'.item = pos.item + 1
    BY DEF LoaderInv, Reading, In, NextItem
  <1>2. \A other : Before(other)' = Before(other) /\ Current(other)' = Current(other)
    BY <1>1 DEF Before, Current
  <1>3. Current(id) /\ \A other \in DOMAIN Rank : other # id => ~Current(other)
    BY DEF Current, In, Section
  <1>4. Read(id) = pos.item - 1 /\ pos.item \in Nat \ {0}
    BY ReadHere, BinaryRead
  <1>5. ASSUME NEW other \in DOMAIN Rank, other # id PROVE Read(other)' = Read(other)
    BY <1>1, <1>2, <1>3, <1>5, CollectedKept DEF Read
  <1>6. ~Before(id)
    <2>1. pos.section \in DOMAIN binary /\ DOMAIN binary = 1 .. Len(binary) /\ Len(binary) \in Nat
          /\ binary[pos.section].id = id
      BY BinaryRead, SectionRead DEF Section
    <2>2. QED
      BY <2>1, OneSection DEF Before
  <1>7. Read(id)' = pos'.item - 1
    BY <1>2, <1>3, <1>6 DEF Read
  <1>8. QED
    BY <1>1, <1>4, <1>5, <1>7

LEMMA ReadNextSection ==
  ASSUME LoaderInv, NEW id, In(id), NextSection
  PROVE  /\ id \in DOMAIN Rank => Read(id)' = Len(Collected(id))
         /\ \A other \in DOMAIN Rank : other # id => Read(other)' = Read(other)
  <1> DEFINE here == pos.section
  <1>1. /\ here \in DOMAIN binary /\ binary[here].id = id /\ here <= Len(binary)
        /\ Len(binary) \in Nat /\ DOMAIN binary = 1 .. Len(binary)
        /\ binary' = binary /\ pos'.section = here + 1 /\ pos'.item = 1
    BY BinaryRead, SectionRead DEF Section, In, NextSection
  <1>2. Before(id)'
    BY <1>1 DEF Before
  <1>3. Read(id)' = Len(Collected(id))
    BY <1>1, <1>2, CollectedKept DEF Read
  <1>4. ASSUME NEW other \in DOMAIN Rank, other # id PROVE Read(other)' = Read(other)
    <2>1. Before(other)' = Before(other)
      <3>1. \A s \in 1 .. here : binary[s].id = other => s # here
        BY <1>1, <1>4
      <3>2. QED
        BY <1>1, <3>1 DEF Before
    <2>2. ~Current(other)
      BY <1>1, <1>4 DEF Current
    <2>3. CASE Before(other)
      BY <1>1, <2>1, <2>3, CollectedKept DEF Read
    <2>4. CASE ~Before(other)
      BY <1>1, <2>1, <2>2, <2>4 DEF Read, Current
    <2>5. QED
      BY <2>3, <2>4
  <1>5. QED
    BY <1>3, <1>4

-----------------------------------------------------------------------------
(***************************************************************************)
(* The index spaces that imports come first in.                            *)
(***************************************************************************)
LEMMA OfKindCounts ==
  ASSUME NEW kind, NEW n \in Nat
  PROVE  /\ OfKind(kind, n) \in Nat /\ OfKind(kind, 0) = 0
         /\ OfKind(kind, n + 1) =
              OfKind(kind, n) + (IF Collected("import")[n + 1].kind = kind THEN 1 ELSE 0)
         /\ \A p \in 0 .. n : OfKind(kind, p) <= OfKind(kind, n)
  <1> DEFINE these(p) == {i \in 1 .. p : Collected("import")[i].kind = kind}
  <1>1. ASSUME NEW p \in Nat PROVE IsFiniteSet(these(p))
    <2>1. IsFiniteSet(1 .. p)
      BY FS_Interval
    <2>2. QED
      BY <2>1, FS_Subset
  <1>2. \A p \in Nat : OfKind(kind, p) = Cardinality(these(p))
    BY DEF OfKind
  <1>3. OfKind(kind, n) \in Nat
    BY <1>1, <1>2, FS_CardinalityType
  <1>4. OfKind(kind, 0) = 0
    <2>1. these(0) = {}
      OBVIOUS
    <2>2. QED
      BY <1>2, <2>1, FS_EmptySet
  <1>5. OfKind(kind, n + 1) =
          OfKind(kind, n) + (IF Collected("import")[n + 1].kind = kind THEN 1 ELSE 0)
    <2>1. CASE Collected("import")[n + 1].kind = kind
      <3>1. these(n + 1) = these(n) \cup {n + 1} /\ n + 1 \notin these(n)
        BY <2>1
      <3> HIDE DEF these
      <3>2. Cardinality(these(n + 1)) = Cardinality(these(n)) + 1
        BY <1>1, <3>1, FS_AddElement
      <3>3. QED
        BY <1>2, <2>1, <3>2
    <2>2. CASE Collected("import")[n + 1].kind # kind
      <3>1. these(n + 1) = these(n)
        BY <2>2
      <3> HIDE DEF these
      <3>2. OfKind(kind, n + 1) = OfKind(kind, n)
        BY <1>2, <3>1
      <3>3. QED
        BY <1>3, <2>2, <3>2
    <2>3. QED
      BY <2>1, <2>2
  <1>6. ASSUME NEW p \in 0 .. n PROVE OfKind(kind, p) <= OfKind(kind, n)
    <2>1. these(p) \subseteq these(n) /\ p \in Nat
      OBVIOUS
    <2> HIDE DEF these
    <2>2. Cardinality(these(p)) <= Cardinality(these(n))
      BY <1>1, <2>1, FS_Subset
    <2>3. QED
      BY <1>2, <2>1, <2>2
  <1>7. QED
    BY <1>3, <1>4, <1>5, <1>6

LEMMA ImportedIs ==
  ASSUME LoaderInv, NEW kind
  PROVE  LET n == OfKind(kind, Len(Collected("import"))) IN
         /\ n \in Nat /\ Len(Imported(kind)) = n /\ DOMAIN Imported(kind) = 1 .. n
         /\ (Imported(kind) = <<>>) = (n = 0)
         /\ \A g \in 1 .. n : Imported(kind)[g] \in ToSet(Imported(kind))
  <1> DEFINE n == OfKind(kind, Len(Collected("import")))
  <1>1. n \in Nat
    BY CollectedIsSequence, OfKindCounts DEF Rank
  <1>2. Imported(kind) = [g \in 1 .. n |-> Imported(kind)[g]]
    BY DEF Imported
  <1> HIDE DEF n
  <1>3. DOMAIN Imported(kind) = 1 .. n /\ Len(Imported(kind)) = n
    BY <1>1, <1>2
  <1>4. (Imported(kind) = <<>>) = (n = 0)
    BY <1>1, <1>2
  <1>5. QED
    BY <1>1, <1>3, <1>4 DEF ToSet, n

(* Imports are numbered among those of their kind.                         *)
LEMMA ImportedAt ==
  ASSUME LoaderInv, NEW kind, NEW n \in 1 .. Len(Collected("import")),
         Collected("import")[n].kind = kind
  PROVE  /\ OfKind(kind, n) \in 1 .. OfKind(kind, Len(Collected("import")))
         /\ OfKind(kind, n) = OfKind(kind, n - 1) + 1
         /\ Imported(kind)[OfKind(kind, n)] = Collected("import")[n]
  <1> DEFINE imports == Collected("import")
             count == Len(imports)
             number == OfKind(kind, n)
  <1>1. count \in Nat /\ DOMAIN imports = 1 .. count
    BY CollectedIsSequence DEF Rank
  <1>2. /\ n - 1 \in Nat /\ OfKind(kind, n - 1) \in Nat /\ number = OfKind(kind, n - 1) + 1
    <2>1. n - 1 \in Nat /\ n = (n - 1) + 1
      BY <1>1
    <2>2. QED
      BY <2>1, OfKindCounts
  <1>3. number <= OfKind(kind, count) /\ OfKind(kind, count) \in Nat
    <2>1. n \in 0 .. count
      BY <1>1
    <2>2. QED
      BY <1>1, <2>1, OfKindCounts
  <1>4. ASSUME NEW i \in DOMAIN imports, imports[i].kind = kind, OfKind(kind, i) = number
        PROVE  i = n
    <2>1. i - 1 \in Nat /\ i = (i - 1) + 1 /\ OfKind(kind, i) = OfKind(kind, i - 1) + 1
          /\ OfKind(kind, i - 1) \in Nat
      <3>1. i - 1 \in Nat /\ i = (i - 1) + 1
        BY <1>1
      <3>2. QED
        BY <1>4, <3>1, OfKindCounts
    <2>2. ~(i < n)
      <3> SUFFICES ASSUME i < n PROVE FALSE
        OBVIOUS
      <3>1. i \in 0 .. n - 1
        BY <1>2, <2>1
      <3>2. OfKind(kind, i) <= OfKind(kind, n - 1)
        BY <1>2, <3>1, OfKindCounts
      <3>3. QED
        BY <1>2, <1>4, <3>2
    <2>3. ~(n < i)
      <3> SUFFICES ASSUME n < i PROVE FALSE
        OBVIOUS
      <3>1. n \in 0 .. i - 1
        BY <1>2, <2>1
      <3>2. OfKind(kind, n) <= OfKind(kind, i - 1)
        BY <2>1, <3>1, OfKindCounts
      <3>3. QED
        BY <1>2, <1>4, <2>1, <3>2
    <2>4. QED
      BY <1>2, <2>1, <2>2, <2>3
  <1>5. (CHOOSE i \in DOMAIN imports : imports[i].kind = kind /\ OfKind(kind, i) = number) = n
    <2> HIDE DEF imports, number
    <2>1. n \in DOMAIN imports /\ imports[n].kind = kind /\ OfKind(kind, n) = number
      BY <1>1 DEF imports, number
    <2>2. QED
      BY <1>4, <2>1
  <1>6. number \in 1 .. OfKind(kind, count)
    BY <1>2, <1>3
  <1>7. Imported(kind)[number] = imports[n]
    <2>1. Imported(kind)[number] =
            imports[CHOOSE i \in DOMAIN imports : imports[i].kind = kind /\ OfKind(kind, i) = number]
      BY <1>6 DEF Imported
    <2>2. QED
      BY <1>5, <2>1
  <1>8. QED
    BY <1>2, <1>6, <1>7

-----------------------------------------------------------------------------
(***************************************************************************)
(* The place in the binary after a step.                                   *)
(***************************************************************************)
LEMMA PlacedAfterItem ==
  ASSUME LoaderInv, Placed, NEW id \in ByItems, AtItem(id), NextItem, Continue, UNCHANGED started
  PROVE  Placed'
  <1>1. /\ binary' = binary /\ pos'.section = pos.section /\ pos'.item = pos.item + 1
        /\ pos.item <= Len(Section.items) /\ Section.id = id /\ pos.section <= Len(binary)
        /\ pos.section \in DOMAIN binary
    BY SectionRead DEF LoaderInv, Reading, AtItem, In, NextItem
  <1>2. Section' = Section /\ Len(Section.items) \in Nat /\ pos.item \in Nat
    BY <1>1, BinaryRead DEF Section
  <1>3. QED
    BY <1>1, <1>2 DEF Placed, Continue

LEMMA PlacedAfterSection ==
  ASSUME LoaderInv, Placed, NEW id, In(id), NextSection, Continue, UNCHANGED started
  PROVE  Placed'
  <1>1. binary' = binary /\ pos'.section = pos.section + 1 /\ pos'.item = 1
        /\ pos.section \in DOMAIN binary /\ Len(binary) \in Nat /\ DOMAIN binary = 1 .. Len(binary)
    BY SectionRead, BinaryRead DEF In, NextSection
  <1>2. pos'.section <= Len(binary) => Len(Section.items)' \in Nat
    BY <1>1, BinaryRead DEF Section
  <1>3. status = "loading" /\ started = 0
    BY DEF LoaderInv, Ending, In
  <1>4. QED
    BY <1>1, <1>2, <1>3 DEF Placed, Continue

LEMMA PlacedAfterStop ==
  ASSUME LoaderInv, Placed, UNCHANGED <<binary, pos>>,
         \/ status' # "loaded" /\ started' = started
         \/ pos.section > Len(binary)
  PROVE  Placed'
  <1>1. Section' = Section
    BY DEF Section
  <1>2. QED
    BY <1>1 DEF Placed

LEMMA PlacedNext ==
  ASSUME LoaderInv, Placed, [Next]_vars
  PROVE  Placed'
  <1>1. CASE UNCHANGED vars
    <2>1. Section' = Section
      BY <1>1 DEF vars, Section
    <2>2. QED
      BY <1>1, <2>1 DEF Placed, vars
  <1> DEFINE stopped == UNCHANGED <<binary, pos>> /\ status' # "loaded" /\ started' = started
  <1>2. \A message : UNCHANGED binary /\ Fatal(message) => stopped
    BY DEF Fatal
  <1>3. ASSUME status = "loading", UNCHANGED binary, Wild PROVE stopped
    BY <1>3 DEF Wild
  <1>4. stopped => Placed'
    BY PlacedAfterStop
  <1> HIDE DEF stopped
  <1>5. CASE CustomSection \/ UnknownSection \/ TypeSection \/ FuncSection \/ TableSection
               \/ MemSection \/ StartSection \/ EndOfItems
    BY <1>2, <1>4, <1>5, PlacedAfterSection
    DEF CustomSection, UnknownSection, TypeSection, FuncSection, TableSection, MemSection,
        StartSection, EndOfItems, In
  <1>6. CASE Unresolved \/ ImportOther \/ ImportFunction \/ ImportTable \/ ImportMemory
               \/ ImportGlobal
    BY <1>2, <1>4, <1>6, PlacedAfterItem
    DEF Unresolved, ImportOther, ImportFunction, ImportTable, ImportMemory, ImportGlobal,
        AtItem, In, ByItems
  <1>7. CASE GlobalItem \/ ExportItem \/ CodeItem
    BY <1>2, <1>3, <1>4, <1>7, PlacedAfterItem DEF GlobalItem, ExportItem, CodeItem, AtItem, In, ByItems
  <1>8. CASE ElemItem \/ DataItem
    BY <1>2, <1>3, <1>4, <1>8, PlacedAfterItem DEF ElemItem, DataItem, AtItem, In, ByItems
  <1>9. CASE Finish
    <2>1. UNCHANGED <<binary, pos>> /\ pos.section > Len(binary)
      BY <1>9 DEF Finish, Fatal, Wild
    <2>2. QED
      BY <2>1, PlacedAfterStop
  <1>10. QED
    BY <1>1, <1>5, <1>6, <1>7, <1>8, <1>9 DEF Next

-----------------------------------------------------------------------------
(***************************************************************************)
(* The two passes over the locals of a function.                           *)
(***************************************************************************)
LEMMA Least ==
  ASSUME NEW T \in SUBSET Nat, T # {}
  PROVE  \E x \in T : \A y \in T : x <= y
  <1>1. PICK x \in T : \A y \in T : ~(<<y, x>> \in OpToRel(<, Nat))
    BY NatLessThanWellFounded, WFMin
  <1>2. \A y \in T : ~(y < x)
    BY <1>1 DEF OpToRel
  <1>3. QED
    BY <1>2

(* A set of numbers up to n with 0 and each successor has them all.        *)
LEMMA CountedUp ==
  ASSUME NEW n \in Nat, NEW S, 0 \in S, \A l \in 0 .. n - 1 : l \in S => l + 1 \in S
  PROVE  \A l \in 0 .. n : l \in S
  <1> SUFFICES ASSUME ~(\A l \in 0 .. n : l \in S) PROVE FALSE
    OBVIOUS
  <1> DEFINE T == {l \in 0 .. n : l \notin S}
  <1>1. PICK x \in T : \A y \in T : x <= y
    <2>1. T \in SUBSET Nat /\ T # {}
      OBVIOUS
    <2> HIDE DEF T
    <2>2. QED
      BY <2>1, Least
  <1>2. x - 1 \in 0 .. n - 1 /\ x - 1 \in S
    BY <1>1
  <1>3. (x - 1) + 1 \in S /\ (x - 1) + 1 = x
    BY <1>1, <1>2
  <1>4. QED
    BY <1>1, <1>3

(* A value for each turn of a loop, from that of the turn before.          *)
Turns(n, S, step) == \A l \in 1 .. n : \A v \in S : step[l][v] \in S
IsLoop(n, S, z, step, f) ==
  f \in [0 .. n -> S] /\ f[0] = z /\ \A l \in 1 .. n : f[l] = step[l][f[l - 1]]

LEMMA Loop ==
  ASSUME NEW n \in Nat, NEW S, NEW z \in S, NEW step, Turns(n, S, step)
  PROVE  \E f : IsLoop(n, S, z, step, f)
  <1>0. \A l \in 1 .. n : \A v \in S : step[l][v] \in S
    BY DEF Turns
  <1> DEFINE Loops(k, f) == f[0] = z /\ \A l \in 1 .. k : f[l] = step[l][f[l - 1]]
             T == {k \in 0 .. n : \E f \in [0 .. k -> S] : Loops(k, f)}
  <1>1. 0 \in T
    <2> DEFINE g == [l \in 0 .. 0 |-> z]
    <2>1. g \in [0 .. 0 -> S] /\ Loops(0, g)
      OBVIOUS
    <2> HIDE DEF g, Loops
    <2>2. 0 \in 0 .. n
      OBVIOUS
    <2>3. QED
      BY <2>1, <2>2
  <1>2. ASSUME NEW k \in 0 .. n - 1, k \in T PROVE k + 1 \in T
    <2>1. PICK f \in [0 .. k -> S] : Loops(k, f)
      BY <1>2
    <2> DEFINE g == [l \in 0 .. k + 1 |-> IF l = k + 1 THEN step[k + 1][f[k]] ELSE f[l]]
    <2>2. k + 1 \in 1 .. n /\ f[k] \in S /\ step[k + 1][f[k]] \in S
      <3>1. k + 1 \in 1 .. n /\ k \in 0 .. k
        OBVIOUS
      <3>2. f[k] \in S
        BY <3>1
      <3>3. QED
        BY <1>0, <3>1, <3>2
    <2>3. g \in [0 .. k + 1 -> S]
      BY <2>2
    <2>4. Loops(k + 1, g)
      <3>1. g[0] = z
        BY <2>1
      <3>2. ASSUME NEW l \in 1 .. k + 1 PROVE g[l] = step[l][g[l - 1]]
        <4>1. CASE l = k + 1
          BY <4>1
        <4>2. CASE l # k + 1
          <5>1. l \in 1 .. k /\ l - 1 \in 0 .. k + 1 /\ l - 1 # k + 1 /\ l \in 0 .. k + 1
            BY <4>2
          <5>2. g[l] = f[l] /\ g[l - 1] = f[l - 1]
            BY <5>1
          <5>3. QED
            BY <2>1, <5>1, <5>2
        <4>3. QED
          BY <4>1, <4>2
      <3>3. QED
        BY <3>1, <3>2
    <2> HIDE DEF g
    <2>5. QED
      BY <2>2, <2>3, <2>4
  <1>3. n \in T
    <2> HIDE DEF T
    <2>1. \A l \in 0 .. n : l \in T
      BY <1>1, <1>2, CountedUp
    <2>2. QED
      BY <2>1
  <1>4. QED
    BY <1>3 DEF IsLoop

LEMMA Joined ==
  ASSUME NEW S, NEW s \in Seq(S), NEW t \in Seq(S)
  PROVE  /\ s \o t \in Seq(S) /\ Len(s \o t) = Len(s) + Len(t)
         /\ \A i \in 1 .. Len(s) : (s \o t)[i] = s[i]
         /\ \A i \in 1 .. Len(t) : (s \o t)[Len(s) + i] = t[i]
  OBVIOUS

(* The sums of the first pass.                                             *)
IsSum(groups, sum) ==
  /\ sum \in [0 .. Len(groups) -> Nat] /\ sum[0] = 0
  /\ \A l \in 1 .. Len(groups) : sum[l] = sum[l - 1] + groups[l].count

LEMMA LocalCountIs ==
  ASSUME NEW groups, Len(groups) \in Nat, \A l \in 1 .. Len(groups) : groups[l].count \in Nat
  PROVE  \E sum : IsSum(groups, sum) /\ LocalCount(groups) = sum[Len(groups)]
  <1> DEFINE n == Len(groups)
             sum0 == CHOOSE sum : sum = [l \in 0 .. n |->
                       IF l = 0 THEN 0 ELSE sum[l - 1] + groups[l].count]
             step == [l \in 1 .. n |-> [v \in Nat |-> v + groups[l].count]]
  <1>1. \A l \in 1 .. n : \A v \in Nat : step[l][v] = v + groups[l].count /\ step[l][v] \in Nat
    OBVIOUS
  <1>2. PICK f \in [0 .. n -> Nat] : f[0] = 0 /\ \A l \in 1 .. n : f[l] = step[l][f[l - 1]]
    <2> HIDE DEF step, n
    <2>1. n \in Nat
      BY DEF n
    <2>2. 0 \in Nat /\ Turns(n, Nat, step)
      BY <1>1 DEF Turns
    <2>3. \E f : IsLoop(n, Nat, 0, step, f)
      BY <2>1, <2>2, Loop
    <2>4. QED
      BY <2>3 DEF IsLoop
  <1>3. ASSUME NEW l \in 1 .. n PROVE l - 1 \in 0 .. n /\ f[l - 1] \in Nat
    OBVIOUS
  <1>4. \A l \in 1 .. n : f[l] = f[l - 1] + groups[l].count
    <2> HIDE DEF step
    <2>1. QED
      BY <1>1, <1>2, <1>3
  <1>5. f = [l \in 0 .. n |-> IF l = 0 THEN 0 ELSE f[l - 1] + groups[l].count]
    <2> HIDE DEF step
    <2>1. \A l \in 0 .. n : f[l] = IF l = 0 THEN 0 ELSE f[l - 1] + groups[l].count
      BY <1>2, <1>4
    <2>2. QED
      BY <2>1
  <1>6. sum0 = [l \in 0 .. n |-> IF l = 0 THEN 0 ELSE sum0[l - 1] + groups[l].count]
    BY <1>5
  <1>7. LocalCount(groups) = sum0[n]
    BY DEF LocalCount
  <1> HIDE DEF sum0, step
  <1>8. sum0[0] = 0 /\ \A l \in 1 .. n : sum0[l] = sum0[l - 1] + groups[l].count
    <2>1. 0 \in 0 .. n /\ \A l \in 1 .. n : l \in 0 .. n /\ l # 0
      OBVIOUS
    <2>2. QED
      BY <1>6, <2>1
  <1>9. sum0 \in [0 .. n -> Nat]
    <2> DEFINE T == {l \in 0 .. n : sum0[l] \in Nat}
    <2>1. 0 \in T
      BY <1>8
    <2>2. ASSUME NEW l \in 0 .. n - 1, l \in T PROVE l + 1 \in T
      <3>1. l + 1 \in 1 .. n /\ l + 1 \in 0 .. n /\ (l + 1) - 1 = l
        OBVIOUS
      <3>2. QED
        BY <1>8, <2>2, <3>1
    <2>3. n \in Nat
      OBVIOUS
    <2> HIDE DEF T, n
    <2>4. \A l \in 0 .. n : l \in T
      BY <2>1, <2>2, <2>3, CountedUp
    <2>5. QED
      BY <1>6, <2>4 DEF T
  <1>10. QED
    BY <1>7, <1>8, <1>9 DEF IsSum

LEMMA OneSum ==
  ASSUME NEW groups, Len(groups) \in Nat, NEW s, IsSum(groups, s), NEW n \in 0 .. Len(groups),
         NEW first, Len(first) = n, \A l \in 1 .. n : first[l] = groups[l],
         NEW t, IsSum(first, t)
  PROVE  s[n] = t[n]
  <1> DEFINE T == {l \in 0 .. n : s[l] = t[l]}
  <1>1. 0 \in T
    BY DEF IsSum
  <1>2. ASSUME NEW l \in 0 .. n - 1, l \in T PROVE l + 1 \in T
    <2>1. l + 1 \in 1 .. n /\ l + 1 \in 1 .. Len(groups) /\ (l + 1) - 1 = l
      OBVIOUS
    <2>2. s[l] = t[l] /\ groups[l + 1] = first[l + 1]
      BY <1>2, <2>1
    <2>3. s[l + 1] = s[l] + groups[l + 1].count
      BY <2>1 DEF IsSum
    <2>4. t[l + 1] = t[l] + first[l + 1].count
      BY <2>1 DEF IsSum
    <2>5. l + 1 \in 0 .. n
      BY <2>1
    <2>6. QED
      BY <2>2, <2>3, <2>4, <2>5
  <1>3. n \in Nat
    OBVIOUS
  <1> HIDE DEF T
  <1>4. \A l \in 0 .. n : l \in T
    BY <1>1, <1>2, <1>3, CountedUp
  <1>5. QED
    BY <1>3, <1>4 DEF T

(* The second pass gives each group its stretch of the locals.             *)
LEMMA LocalTypesAre ==
  ASSUME NEW groups, groups \in Seq(ToSet(groups)), \A g \in ToSet(groups) : g.count \in Nat
  PROVE  /\ LocalCount(groups) = Len(LocalTypes(groups)) /\ LocalCount(groups) \in Nat
         /\ \A g \in DOMAIN groups : \A k \in 1 .. groups[g].count :
              LocalTypes(groups)[LocalCount(SubSeq(groups, 1, g - 1)) + k] = groups[g].type
  <1> DEFINE n == Len(groups)
             S == {groups[l].type : l \in 1 .. n}
             part(l) == [k \in 1 .. groups[l].count |-> groups[l].type]
             added0 == CHOOSE added : added = [l \in 0 .. n |->
                         IF l = 0 THEN <<>>
                         ELSE added[l - 1] \o [k \in 1 .. groups[l].count |-> groups[l].type]]
             step == [l \in 1 .. n |-> [v \in Seq(S) |-> v \o part(l)]]
  <1>1. n \in Nat /\ DOMAIN groups = 1 .. n /\ \A l \in 1 .. n : groups[l].count \in Nat
    BY DEF ToSet
  <1>2. ASSUME NEW l \in 1 .. n PROVE part(l) \in Seq(S) /\ Len(part(l)) = groups[l].count
    <2>1. groups[l].count \in Nat /\ groups[l].type \in S
      BY <1>1
    <2>2. part(l) \in [1 .. groups[l].count -> S]
      BY <2>1
    <2>3. QED
      BY <2>1, <2>2
  <1>3. \A l \in 1 .. n : \A v \in Seq(S) : step[l][v] = v \o part(l) /\ step[l][v] \in Seq(S)
    <2> SUFFICES ASSUME NEW l \in 1 .. n, NEW v \in Seq(S)
                 PROVE  step[l][v] = v \o part(l) /\ step[l][v] \in Seq(S)
      OBVIOUS
    <2>1. step[l][v] = v \o part(l)
      BY DEF step
    <2> HIDE DEF part, step, S
    <2>2. QED
      BY <1>2, <2>1
  <1>4. PICK f \in [0 .. n -> Seq(S)] :
          f[0] = <<>> /\ \A l \in 1 .. n : f[l] = step[l][f[l - 1]]
    <2> HIDE DEF step, n, S
    <2>1. <<>> \in Seq(S)
      OBVIOUS
    <2>2. Turns(n, Seq(S), step)
      BY <1>3 DEF Turns
    <2>3. \E f : IsLoop(n, Seq(S), <<>>, step, f)
      BY <1>1, <2>1, <2>2, Loop
    <2>4. QED
      BY <2>3 DEF IsLoop
  <1>5. \A l \in 1 .. n : f[l] = f[l - 1] \o part(l)
    <2>1. \A l \in 1 .. n : l - 1 \in 0 .. n /\ f[l - 1] \in Seq(S)
      BY <1>1
    <2> HIDE DEF step, part, S
    <2>2. QED
      BY <1>3, <1>4, <2>1
  <1>6. f = [l \in 0 .. n |-> IF l = 0 THEN <<>>
                              ELSE f[l - 1] \o [k \in 1 .. groups[l].count |-> groups[l].type]]
    <2>1. \A l \in 0 .. n : f[l] = IF l = 0 THEN <<>> ELSE f[l - 1] \o part(l)
      <3> HIDE DEF step, part, S
      <3>1. QED
        BY <1>1, <1>4, <1>5
    <2>2. QED
      BY <2>1
  <1>7. added0 = [l \in 0 .. n |-> IF l = 0 THEN <<>> ELSE added0[l - 1] \o part(l)]
    BY <1>6
  <1>8. LocalTypes(groups) = added0[n]
    BY DEF LocalTypes
  <1> HIDE DEF added0, step, part
  <1>9. added0[0] = <<>> /\ \A l \in 1 .. n : added0[l] = added0[l - 1] \o part(l)
    <2>1. 0 \in 0 .. n /\ \A l \in 1 .. n : l \in 0 .. n /\ l # 0
      BY <1>1
    <2>2. QED
      BY <1>7, <2>1
  <1>10. PICK sum : IsSum(groups, sum) /\ LocalCount(groups) = sum[n]
    BY <1>1, LocalCountIs
  <1> DEFINE Fine(l) ==
               /\ added0[l] \in Seq(S) /\ Len(added0[l]) = sum[l]
               /\ \A g \in 1 .. l : \A k \in 1 .. groups[g].count :
                    sum[g - 1] + k \in 1 .. sum[l] /\ added0[l][sum[g - 1] + k] = groups[g].type
             T == {l \in 0 .. n : Fine(l)}
  <1>11. 0 \in T
    <2>1. Len(<<>>) = 0 /\ <<>> \in Seq(S)
      OBVIOUS
    <2>2. sum[0] = 0 /\ 0 \in 0 .. n
      BY <1>1, <1>10 DEF IsSum
    <2> HIDE DEF S
    <2>3. Fine(0)
      BY <1>9, <2>1, <2>2
    <2> HIDE DEF Fine
    <2>4. QED
      BY <2>2, <2>3
  <1>12. ASSUME NEW l \in 0 .. n - 1, l \in T PROVE l + 1 \in T
    <2>1. l + 1 \in 1 .. n /\ (l + 1) - 1 = l /\ l \in 0 .. n /\ l + 1 \in 0 .. n
      BY <1>1
    <2>2. /\ sum[l] \in Nat /\ sum[l + 1] = sum[l] + groups[l + 1].count
          /\ groups[l + 1].count \in Nat /\ sum[l + 1] \in Nat
      BY <1>1, <1>10, <2>1 DEF IsSum
    <2>3. added0[l + 1] = added0[l] \o part(l + 1)
      BY <1>9, <2>1
    <2>4. part(l + 1) \in Seq(S) /\ Len(part(l + 1)) = groups[l + 1].count
      BY <1>2, <2>1
    <2>5. added0[l] \in Seq(S) /\ Len(added0[l]) = sum[l]
      BY <1>12
    <2> HIDE DEF S
    <2> DEFINE s == added0[l]
               t == part(l + 1)
    <2>9. /\ s \o t \in Seq(S) /\ Len(s \o t) = Len(s) + Len(t)
          /\ \A i \in 1 .. Len(s) : (s \o t)[i] = s[i]
          /\ \A i \in 1 .. Len(t) : (s \o t)[Len(s) + i] = t[i]
      <3>1. added0[l] \in Seq(S)
        BY <2>5
      <3>2. part(l + 1) \in Seq(S)
        BY <2>4
      <3> HIDE DEF s, t
      <3>4. s \in Seq(S) /\ t \in Seq(S)
        BY <3>1, <3>2 DEF s, t
      <3>5. QED
        BY <3>4, Joined
    <2>6. added0[l + 1] \in Seq(S) /\ Len(added0[l + 1]) = sum[l + 1]
      BY <2>2, <2>3, <2>4, <2>5, <2>9
    <2>7. ASSUME NEW g \in 1 .. l + 1, NEW k \in 1 .. groups[g].count
          PROVE  sum[g - 1] + k \in 1 .. sum[l + 1] /\ added0[l + 1][sum[g - 1] + k] = groups[g].type
      <3>1. CASE g = l + 1
        <4>1. sum[l] + k \in 1 .. sum[l + 1] /\ sum[l] + k > sum[l]
              /\ k \in 1 .. groups[l + 1].count /\ (sum[l] + k) - sum[l] = k
          BY <2>2, <3>1
        <4>2. added0[l + 1][sum[l] + k] = part(l + 1)[k]
          BY <2>2, <2>3, <2>4, <2>5, <2>9, <4>1
        <4>3. part(l + 1)[k] = groups[l + 1].type
          BY <4>1 DEF part
        <4>4. QED
          BY <2>1, <3>1, <4>1, <4>2, <4>3
      <3>2. CASE g # l + 1
        <4>1. g \in 1 .. l
          BY <3>2
        <4>2. sum[g - 1] + k \in 1 .. sum[l] /\ added0[l][sum[g - 1] + k] = groups[g].type
          BY <1>12, <4>1
        <4>3. added0[l + 1][sum[g - 1] + k] = added0[l][sum[g - 1] + k]
          BY <2>2, <2>3, <2>4, <2>5, <2>9, <4>2
        <4>4. QED
          BY <2>2, <4>2, <4>3
      <3>3. QED
        BY <3>1, <3>2
    <2>8. QED
      BY <2>1, <2>6, <2>7
  <1>13. n \in T
    <2> HIDE DEF T, n
    <2>1. \A l \in 0 .. n : l \in T
      BY <1>1, <1>11, <1>12, CountedUp
    <2>2. QED
      BY <1>1, <2>1
  <1>14. ASSUME NEW g \in 1 .. n PROVE LocalCount(SubSeq(groups, 1, g - 1)) = sum[g - 1]
    <2> DEFINE first == SubSeq(groups, 1, g - 1)
    <2>1. g - 1 \in 0 .. n /\ Len(first) = g - 1 /\ \A l \in 1 .. g - 1 : first[l] = groups[l]
      BY <1>1
    <2> HIDE DEF first
    <2>2. \A l \in 1 .. Len(first) : first[l].count \in Nat
      BY <1>1, <2>1
    <2>3. PICK t : IsSum(first, t) /\ LocalCount(first) = t[g - 1]
      BY <2>1, <2>2, LocalCountIs
    <2>4. n = Len(groups) /\ IsSum(groups, sum)
      BY <1>10
    <2> HIDE DEF n
    <2>5. sum[g - 1] = t[g - 1]
      BY <1>1, <2>1, <2>3, <2>4, OneSum
    <2>6. QED
      BY <2>3, <2>5 DEF first
  <1>15. LocalCount(groups) \in Nat
    BY <1>1, <1>10 DEF IsSum
  <1>16. Fine(n)
    BY <1>13
  <1> HIDE DEF S
  <1>17. QED
    BY <1>1, <1>8, <1>10, <1>14, <1>15, <1>16

-----------------------------------------------------------------------------
(***************************************************************************)
(* What is in the binary.                                                  *)
(***************************************************************************)
LEMMA ItemsAre ==
  ASSUME LoaderInv, NEW id \in DOMAIN Rank, NEW n \in 1 .. Len(Collected(id)),
         NEW i, i = Collected(id)[n]
  PROVE  /\ i \in ToSet(Collected(id))
         /\ id = "import" => ImportAssumption(i)
         /\ id \in {"table", "mem"} => i.min \in 0 .. U32 - 1
         /\ id \in {"global", "elem", "data"} => InitAssumption(i.init)
         /\ id = "elem" => Len(i.funcs) \in Nat
         /\ id = "data" => Len(i.bytes) \in Nat
         /\ id = "code" => CodeAssumption(i)
  <1>1. Collected(id) # <<>> /\ n \in DOMAIN Collected(id)
    BY CollectedIsSequence
  <1>2. PICK s \in DOMAIN binary : binary[s].id = id /\ Collected(id) = binary[s].items
    BY <1>1, CollectedIs
  <1>3. binary \in Binaries /\ binary[s] \in ToSet(binary)
    BY BinaryRead DEF ToSet
  <1>4. n \in 1 .. Len(binary[s].items) /\ i = binary[s].items[n]
    BY <1>2
  <1>5. i \in ToSet(Collected(id))
    BY <1>1 DEF ToSet
  <1>6. QED
    BY <1>2, <1>3, <1>4, <1>5, ItemsAssumption

LEMMA ImportedFrom ==
  ASSUME LoaderInv, NEW kind, NEW g \in 1 .. OfKind(kind, Len(Collected("import")))
  PROVE  \E i \in 1 .. Len(Collected("import")) :
           /\ Collected("import")[i].kind = kind /\ OfKind(kind, i) = g
           /\ Imported(kind)[g] = Collected("import")[i]
  <1> DEFINE count == Len(Collected("import"))
             T == {i \in 0 .. count : OfKind(kind, i) >= g}
  <1>1. count \in Nat
    BY CollectedIsSequence DEF Rank
  <1>2. OfKind(kind, count) \in Nat /\ OfKind(kind, 0) = 0
    BY <1>1, OfKindCounts
  <1>3. PICK x \in T : \A y \in T : x <= y
    <2>1. count \in T
      BY <1>1, <1>2
    <2>2. T \in SUBSET Nat /\ T # {}
      BY <2>1
    <2> HIDE DEF T
    <2>3. QED
      BY <2>2, Least
  <1>4. x \in 1 .. count /\ x - 1 \in Nat /\ x - 1 \in 0 .. count /\ x = (x - 1) + 1
    BY <1>1, <1>2, <1>3
  <1>5. /\ OfKind(kind, x - 1) \in Nat
        /\ OfKind(kind, x) = OfKind(kind, x - 1)
                               + (IF Collected("import")[x].kind = kind THEN 1 ELSE 0)
    BY <1>4, OfKindCounts
  <1>6. OfKind(kind, x - 1) < g
    <2>1. x - 1 \notin T
      BY <1>3, <1>4
    <2>2. QED
      BY <1>4, <1>5, <2>1
  <1>7. OfKind(kind, x) >= g
    BY <1>3
  <1>8. OfKind(kind, x) = g /\ Collected("import")[x].kind = kind
    <2> HIDE DEF T
    <2>1. CASE Collected("import")[x].kind = kind
      BY <1>5, <1>6, <1>7, <2>1
    <2>2. CASE Collected("import")[x].kind # kind
      BY <1>5, <1>6, <1>7, <2>2
    <2>3. QED
      BY <2>1, <2>2
  <1>9. Imported(kind)[g] = Collected("import")[x]
    BY <1>4, <1>8, ImportedAt
  <1>10. QED
    BY <1>4, <1>8, <1>9

(* A segment begins at a number, constant or imported.                     *)
LEMMA SegmentStarts ==
  ASSUME LoaderInv, Good, NEW id \in {"elem", "data"}, NEW n \in 1 .. Len(Collected(id)),
         NEW s, s = Collected(id)[n]
  PROVE  Initial(s.init).value \in 0 .. U32 - 1 /\ Available(s.init) /\ s.index = 0
         /\ Initial(s.init).type = 127
  <1>1. s \in ToSet(Collected(id)) /\ InitAssumption(s.init)
    BY ItemsAre DEF Rank
  <1>2. s.index = 0 /\ Initial(s.init).type = 127 /\ Available(s.init)
    BY <1>1 DEF Good, Valid
  <1>3. CASE s.init.op = "const"
    BY <1>1, <1>2, <1>3 DEF Initial, InitAssumption
  <1>4. CASE s.init.op # "const"
    <2> DEFINE g == s.init.index + 1
    <2>1. g \in 1 .. OfKind("global", Len(Collected("import")))
      BY <1>1, <1>2, <1>4, ImportedIs DEF InitAssumption, Available
    <2>2. PICK i \in 1 .. Len(Collected("import")) :
            Collected("import")[i].kind = "global" /\ Imported("global")[g] = Collected("import")[i]
      BY <2>1, ImportedFrom
    <2>3. ImportAssumption(Imported("global")[g])
      BY <2>2, ItemsAre DEF Rank
    <2>4. Initial(s.init) = [type |-> Imported("global")[g].type, value |-> Imported("global")[g].host]
      BY <1>4 DEF Initial
    <2>5. QED
      BY <1>2, <2>2, <2>3, <2>4 DEF ImportAssumption
  <1>5. QED
    BY <1>2, <1>3, <1>4

(* run_init_expr finds what the initializer means.                         *)
LEMMA InitExprIs ==
  ASSUME LoaderInv, NEW n \in Nat, NEW init, InitAssumption(init), Available(init),
         GlobalsSoFar(m.globals, Len(Imported("global")), n)
  PROVE  InitExpr(init) = Initial(init)
  <1> DEFINE k == Len(Imported("global"))
  <1>1. CASE init.op = "const"
    BY <1>1 DEF InitExpr, Initial
  <1>2. CASE init.op # "const"
    <2>1. k \in Nat
      BY ImportedIs
    <2>2. init.index + 1 \in 1 .. k /\ init.index + 1 \in 1 .. k + n
      BY <1>2, <2>1 DEF InitAssumption, Available
    <2>3. m.globals[init.index + 1] = ImportedGlobal(init.index + 1)
      BY <2>1, <2>2 DEF GlobalsSoFar
    <2>4. QED
      BY <1>2, <2>3 DEF InitExpr, Initial, At, ImportedGlobal
  <1>3. QED
    BY <1>1, <1>2

-----------------------------------------------------------------------------
(***************************************************************************)
(* One segment after another.                                              *)
(***************************************************************************)
LEMMA MaxOfNext ==
  ASSUME NEW S \in SUBSET Nat, NEW n \in Nat, \A x \in S : x <= n
  PROVE  Max(S \cup {n + 1}) = n + 1
  <1>1. \A x \in S \cup {n + 1} : n + 1 >= x
    OBVIOUS
  <1>2. \A x \in S \cup {n + 1} : (\A y \in S \cup {n + 1} : x >= y) => x = n + 1
    OBVIOUS
  <1>3. QED
    BY <1>1, <1>2 DEF Max

LEMMA EntryFirst ==
  ASSUME LoaderInv, NEW i
  PROVE  EntryAfter(0, i) =
           IF Imported("table") # <<>> THEN Imported("table")[1].host.entries[i] ELSE 0
  <1>1. DOMAIN Collected("elem") = 1 .. Len(Collected("elem"))
    BY CollectedIsSequence DEF Rank
  <1>2. ElemsOver(0, i) = {}
    BY <1>1 DEF ElemsOver, Covering
  <1>3. QED
    BY <1>2 DEF EntryAfter

LEMMA EntryNext ==
  ASSUME LoaderInv, NEW n \in Nat, n + 1 <= Len(Collected("elem")), NEW i,
         NEW s, s = Collected("elem")[n + 1]
  PROVE  EntryAfter(n + 1, i) =
           IF i - Initial(s.init).value \in 0 .. Len(s.funcs) - 1
           THEN s.funcs[i - Initial(s.init).value + 1] ELSE EntryAfter(n, i)
  <1>1. /\ Len(Collected("elem")) \in Nat /\ DOMAIN Collected("elem") = 1 .. Len(Collected("elem"))
    BY CollectedIsSequence DEF Rank
  <1>2. n + 1 \in DOMAIN Collected("elem")
    BY <1>1
  <1>3. ElemsOver(n, i) \in SUBSET Nat /\ \A c \in ElemsOver(n, i) : c <= n
    BY <1>1 DEF ElemsOver, Covering
  <1>4. CASE i - Initial(s.init).value \in 0 .. Len(s.funcs) - 1
    <2>1. ElemsOver(n + 1, i) = ElemsOver(n, i) \cup {n + 1}
      BY <1>1, <1>2, <1>4 DEF ElemsOver, Covering, ElemSize
    <2>2. Max(ElemsOver(n + 1, i)) = n + 1
      BY <1>3, <2>1, MaxOfNext
    <2>3. ElemsOver(n + 1, i) # {}
      BY <2>1
    <2>4. QED
      BY <1>4, <2>2, <2>3 DEF EntryAfter
  <1>5. CASE i - Initial(s.init).value \notin 0 .. Len(s.funcs) - 1
    <2>1. ElemsOver(n + 1, i) = ElemsOver(n, i)
      BY <1>1, <1>2, <1>5 DEF ElemsOver, Covering, ElemSize
    <2>2. QED
      BY <1>5, <2>1 DEF EntryAfter
  <1>6. QED
    BY <1>4, <1>5

LEMMA ByteFirst ==
  ASSUME LoaderInv, NEW i
  PROVE  ByteAfter(0, i) =
           IF Imported("memory") # <<>> THEN Imported("memory")[1].host.bytes[i] ELSE 0
  <1>1. DOMAIN Collected("data") = 1 .. Len(Collected("data"))
    BY CollectedIsSequence DEF Rank
  <1>2. DatasOver(0, i) = {}
    BY <1>1 DEF DatasOver, Covering
  <1>3. QED
    BY <1>2 DEF ByteAfter

LEMMA ByteNext ==
  ASSUME LoaderInv, NEW n \in Nat, n + 1 <= Len(Collected("data")), NEW i,
         NEW s, s = Collected("data")[n + 1]
  PROVE  ByteAfter(n + 1, i) =
           IF i - Initial(s.init).value \in 0 .. Len(s.bytes) - 1
           THEN s.bytes[i - Initial(s.init).value + 1] ELSE ByteAfter(n, i)
  <1>1. /\ Len(Collected("data")) \in Nat /\ DOMAIN Collected("data") = 1 .. Len(Collected("data"))
    BY CollectedIsSequence DEF Rank
  <1>2. n + 1 \in DOMAIN Collected("data")
    BY <1>1
  <1>3. DatasOver(n, i) \in SUBSET Nat /\ \A c \in DatasOver(n, i) : c <= n
    BY <1>1 DEF DatasOver, Covering
  <1>4. CASE i - Initial(s.init).value \in 0 .. Len(s.bytes) - 1
    <2>1. DatasOver(n + 1, i) = DatasOver(n, i) \cup {n + 1}
      BY <1>1, <1>2, <1>4 DEF DatasOver, Covering, DataSize
    <2>2. Max(DatasOver(n + 1, i)) = n + 1
      BY <1>3, <2>1, MaxOfNext
    <2>3. DatasOver(n + 1, i) # {}
      BY <2>1
    <2>4. QED
      BY <1>4, <2>2, <2>3 DEF ByteAfter
  <1>5. CASE i - Initial(s.init).value \notin 0 .. Len(s.bytes) - 1
    <2>1. DatasOver(n + 1, i) = DatasOver(n, i)
      BY <1>1, <1>2, <1>5 DEF DatasOver, Covering, DataSize
    <2>2. QED
      BY <1>5, <2>1 DEF ByteAfter
  <1>6. QED
    BY <1>4, <1>5

(* The first n of all is all.                                              *)
LEMMA SegmentsAfterAll ==
  ASSUME LoaderInv, NEW i
  PROVE  /\ ElemsOver(Len(Collected("elem")), i) = Covering(Collected("elem"), ElemSize, i)
         /\ DatasOver(Len(Collected("data")), i) = Covering(Collected("data"), DataSize, i)
  <1>1. \A id \in {"elem", "data"} :
          Len(Collected(id)) \in Nat /\ DOMAIN Collected(id) = 1 .. Len(Collected(id))
    BY CollectedIsSequence DEF Rank
  <1>2. QED
    BY <1>1 DEF ElemsOver, DatasOver, Covering, ElemSize, DataSize

-----------------------------------------------------------------------------
(***************************************************************************)
(* What stays and what moves in a step.                                    *)
(***************************************************************************)
LEMMA OfKindKept ==
  ASSUME UNCHANGED binary
  PROVE  \A kind, n : OfKind(kind, n)' = OfKind(kind, n)
  BY DEF OfKind, Collected

LEMMA ReadOfKept ==
  ASSUME UNCHANGED binary, Read("import")' = Read("import")
  PROVE  \A kind : ReadOf(kind)' = ReadOf(kind)
  BY DEF ReadOf, OfKind, Collected

LEMMA GoodKept == ASSUME UNCHANGED binary PROVE Good' = Good
  <1>1. Valid' = Valid
    BY DEF Valid, Available, Declared, Imported, OfKind, Collected, Initial
  <1>2. Linked' = Linked
    BY DEF Linked, Imported, OfKind, Collected
  <1>3. Fits' = Fits
    BY DEF Fits, Imported, OfKind, Collected, Initial, MemoryPages, TableLength
  <1>4. QED
    BY <1>1, <1>2, <1>3 DEF Good

(* What the binary means stays the same.                                   *)
LEMMA BinaryMeans ==
  ASSUME UNCHANGED binary
  PROVE  /\ \A id : Collected(id)' = Collected(id)
         /\ \A kind : Imported(kind)' = Imported(kind)
         /\ \A init : Initial(init)' = Initial(init)
         /\ \A g : ImportedGlobal(g)' = ImportedGlobal(g)
         /\ \A n, i : EntryAfter(n, i)' = EntryAfter(n, i)
         /\ \A n, i : ByteAfter(n, i)' = ByteAfter(n, i)
         /\ TableLength' = TableLength /\ MemoryPages' = MemoryPages
  <1>1. \A id : Collected(id)' = Collected(id)
    BY DEF Collected
  <1>2. \A kind : Imported(kind)' = Imported(kind)
    BY DEF Imported, OfKind, Collected
  <1>3. \A init : Initial(init)' = Initial(init)
    BY DEF Initial, Imported, OfKind, Collected
  <1>4. \A g : ImportedGlobal(g)' = ImportedGlobal(g)
    BY DEF ImportedGlobal, Imported, OfKind, Collected
  <1>5. TableLength' = TableLength /\ MemoryPages' = MemoryPages
    BY DEF TableLength, MemoryPages, Imported, OfKind, Collected
  <1>6. \A n, i : EntryAfter(n, i)' = EntryAfter(n, i)
    BY DEF EntryAfter, ElemsOver, Covering, ElemSize, Initial, Imported, OfKind, Collected
  <1>7. \A n, i : ByteAfter(n, i)' = ByteAfter(n, i)
    BY DEF ByteAfter, DatasOver, Covering, DataSize, Initial, Imported, OfKind, Collected
  <1>8. QED
    BY <1>1, <1>2, <1>3, <1>4, <1>5, <1>6, <1>7

LEMMA SoFarAfter ==
  ASSUME UNCHANGED binary,
         GlobalsSoFar(m'.globals, ReadOf("global")', Read("global")'),
         FunctionsSoFar(m', ReadOf("func")', Read("func")', Read("code")'),
         TableSoFar(m'.table, ReadOf("table")' + Read("table")', Read("elem")'),
         MemorySoFar(m'.memory, ReadOf("memory")' + Read("mem")', Read("data")'),
         ExportsSoFar(m'.exports, Read("export")')
  PROVE  SoFar'
  <1>1. GlobalsSoFar(m.globals, ReadOf("global"), Read("global"))'
    BY BinaryMeans DEF GlobalsSoFar
  <1>2. FunctionsSoFar(m, ReadOf("func"), Read("func"), Read("code"))'
    BY BinaryMeans DEF FunctionsSoFar
  <1>3. TableSoFar(m.table, ReadOf("table") + Read("table"), Read("elem"))'
    BY BinaryMeans DEF TableSoFar
  <1>4. MemorySoFar(m.memory, ReadOf("memory") + Read("mem"), Read("data"))'
    BY BinaryMeans DEF MemorySoFar
  <1>5. ExportsSoFar(m.exports, Read("export"))'
    BY BinaryMeans DEF ExportsSoFar
  <1>6. QED
    BY <1>1, <1>2, <1>3, <1>4, <1>5 DEF SoFar

LEMMA FunctionsSame ==
  ASSUME m'.functions = m.functions, m'.import_func_count = m.import_func_count,
         m'.function_count = m.function_count, NEW k, NEW n, NEW c, FunctionsSoFar(m, k, n, c)
  PROVE  FunctionsSoFar(m', k, n, c)
  BY DEF FunctionsSoFar

Counters == {"import", "func", "table", "mem", "global", "export", "elem", "code", "data"}

LEMMA NothingNew ==
  ASSUME SoFar, UNCHANGED binary, \A id \in Counters : Read(id)' = Read(id),
         m'.functions = m.functions, m'.import_func_count = m.import_func_count,
         m'.function_count = m.function_count, m'.table = m.table, m'.memory = m.memory,
         m'.globals = m.globals, m'.exports = m.exports
  PROVE  SoFar'
  <1>1. \A kind : ReadOf(kind)' = ReadOf(kind)
    BY ReadOfKept DEF Counters
  <1>2. \A id \in Counters : Read(id)' = Read(id)
    OBVIOUS
  <1>3. FunctionsSoFar(m', ReadOf("func")', Read("func")', Read("code")')
    BY <1>1, <1>2, FunctionsSame DEF SoFar, Counters
  <1>4. QED
    BY <1>1, <1>2, <1>3, SoFarAfter DEF SoFar, Counters

LEMMA StoppedSoFar ==
  ASSUME SoFar, UNCHANGED <<binary, m, pos>>
  PROVE  SoFar'
  <1>1. \A id \in Counters : Read(id)' = Read(id)
    BY ReadSame
  <1>2. QED
    BY <1>1, NothingNew

LEMMA CountersRanked == Counters \subseteq DOMAIN Rank /\ ByItems \subseteq DOMAIN Rank
  BY DEF Counters, ByItems, Rank

LEMMA AtItemIs ==
  ASSUME LoaderInv, NEW id \in DOMAIN Rank, AtItem(id)
  PROVE  /\ In(id) /\ status = "loading" /\ binary' = binary
         /\ Read(id) = pos.item - 1 /\ Read(id) \in Nat
         /\ Read(id) + 1 \in 1 .. Len(Collected(id)) /\ Item = Collected(id)[Read(id) + 1]
         /\ Item \in ToSet(Collected(id))
  <1>1. In(id) /\ pos.item <= Len(Section.items)
    BY DEF AtItem
  <1>2. /\ Collected(id) = Section.items /\ Read(id) = pos.item - 1
        /\ pos.item \in Nat \ {0} /\ Len(Section.items) \in Nat
        /\ status = "loading" /\ binary' = binary
    BY <1>1, ReadHere, BinaryRead, SectionRead
  <1>3. Read(id) + 1 = pos.item
    BY <1>2
  <1>4. Item = Collected(id)[Read(id) + 1]
    BY <1>2, <1>3 DEF Item
  <1>5. Read(id) + 1 \in 1 .. Len(Collected(id))
    BY <1>1, <1>2, <1>3
  <1>6. Item \in ToSet(Collected(id))
    BY <1>4, <1>5, CollectedIsSequence
  <1>7. Read(id) \in Nat
    BY <1>2
  <1>8. QED
    BY <1>1, <1>2, <1>4, <1>5, <1>6, <1>7, Zenon

LEMMA ReadOfAll ==
  ASSUME LoaderInv, Read("import") = Len(Collected("import")), NEW kind
  PROVE  ReadOf(kind) = Len(Imported(kind)) /\ ReadOf(kind) \in Nat
  BY ImportedIs DEF ReadOf

(* Behind the imports an item changes no other count than its own.         *)
LEMMA ItemBehindImports ==
  ASSUME LoaderInv, NEW id \in {"global", "export", "elem", "code", "data"}, AtItem(id), NextItem
  PROVE  /\ \A kind : ReadOf(kind)' = ReadOf(kind) /\ ReadOf(kind) = Len(Imported(kind))
                      /\ ReadOf(kind) \in Nat
         /\ Read(id)' = Read(id) + 1
         /\ \A other \in Counters : other # id => Read(other)' = Read(other)
  <1>1. id \in DOMAIN Rank /\ Rank["import"] < Rank[id] /\ "import" \in DOMAIN Rank /\ id # "import"
    BY DEF Rank
  <1>2. In(id) /\ binary' = binary
    BY <1>1, AtItemIs
  <1>3. Read("import") = Len(Collected("import"))
    BY <1>1, <1>2, ReadHere
  <1>4. Read("import")' = Read("import") /\ Read(id)' = Read(id) + 1
        /\ \A other \in Counters : other # id => Read(other)' = Read(other)
    BY <1>1, <1>2, ReadNextItem, CountersRanked
  <1>5. QED
    BY <1>2, <1>3, <1>4, ReadOfKept, ReadOfAll

(* An import is counted with those of its kind.                            *)
LEMMA ItemOfImports ==
  ASSUME LoaderInv, AtItem("import"), NextItem
  PROVE  /\ \A kind : /\ ReadOf(kind) \in Nat
                      /\ ReadOf(kind)' = ReadOf(kind) + (IF Item.kind = kind THEN 1 ELSE 0)
                      /\ ReadOf(kind)' <= Len(Imported(kind)) /\ Len(Imported(kind)) \in Nat
         /\ Imported(Item.kind)[ReadOf(Item.kind) + 1] = Item
         /\ \A other \in Counters : other # "import" => Read(other)' = 0 /\ Read(other) = 0
  <1> DEFINE n == Read("import")
             imports == Collected("import")
  <1>1. "import" \in DOMAIN Rank /\ \A other \in Counters : other # "import" => Rank[other] > Rank["import"]
    BY DEF Rank, Counters
  <1>2. /\ In("import") /\ binary' = binary /\ n \in Nat /\ n + 1 \in 1 .. Len(imports)
        /\ Item = imports[n + 1] /\ Len(imports) \in Nat
    BY <1>1, AtItemIs, CollectedIsSequence
  <1>3. Read("import")' = n + 1
        /\ \A other \in Counters : other # "import" => Read(other)' = Read(other)
    BY <1>1, <1>2, ReadNextItem, CountersRanked
  <1>4. \A other \in Counters : other # "import" => Read(other) = 0
    BY <1>1, <1>2, ReadHere, CountersRanked
  <1>5. ASSUME NEW kind
        PROVE  /\ ReadOf(kind) \in Nat
               /\ ReadOf(kind)' = ReadOf(kind) + (IF Item.kind = kind THEN 1 ELSE 0)
               /\ ReadOf(kind)' <= Len(Imported(kind)) /\ Len(Imported(kind)) \in Nat
    <2>1. ReadOf(kind) = OfKind(kind, n) /\ ReadOf(kind)' = OfKind(kind, n + 1)
      BY <1>2, <1>3, OfKindKept DEF ReadOf
    <2>2. n + 1 \in 0 .. Len(imports)
      BY <1>2
    <2> HIDE DEF n, imports
    <2>3. /\ OfKind(kind, n) \in Nat
          /\ OfKind(kind, n + 1) = OfKind(kind, n) + (IF imports[n + 1].kind = kind THEN 1 ELSE 0)
      BY <1>2, OfKindCounts DEF imports
    <2>4. OfKind(kind, n + 1) <= OfKind(kind, Len(imports))
      BY <1>2, <2>2, OfKindCounts
    <2>5. Len(Imported(kind)) = OfKind(kind, Len(imports)) /\ Len(Imported(kind)) \in Nat
      BY ImportedIs DEF imports
    <2>6. QED
      BY <1>2, <2>1, <2>3, <2>4, <2>5
  <1>6. Imported(Item.kind)[ReadOf(Item.kind) + 1] = Item
    <2> DEFINE kind == Item.kind
    <2>1. ReadOf(kind) = OfKind(kind, n)
      BY DEF ReadOf
    <2>2. OfKind(kind, n + 1) = OfKind(kind, n) + 1
      BY <1>2, OfKindCounts
    <2>3. Imported(kind)[OfKind(kind, n + 1)] = imports[n + 1]
      BY <1>2, ImportedAt
    <2>4. QED
      BY <1>2, <2>1, <2>2, <2>3
  <1>7. QED
    BY <1>3, <1>4, <1>5, <1>6

-----------------------------------------------------------------------------
(***************************************************************************)
(* Steps that add nothing to the instance.                                 *)
(***************************************************************************)
LEMMA SectionAddsNothing ==
  ASSUME LoaderInv, SoFar, NEW id, In(id), NextSection,
         id \in Counters => Read(id) = Len(Collected(id)),
         m'.functions = m.functions, m'.import_func_count = m.import_func_count,
         m'.function_count = m.function_count, m'.table = m.table, m'.memory = m.memory,
         m'.globals = m.globals, m'.exports = m.exports
  PROVE  SoFar'
  <1>1. UNCHANGED binary
    BY DEF In
  <1>2. \A other \in Counters : Read(other)' = Read(other)
    BY ReadNextSection, CountersRanked
  <1>3. QED
    BY <1>1, <1>2, NothingNew

LEMMA CustomSoFar ==
  ASSUME LoaderInv, SoFar, CustomSection \/ TypeSection \/ StartSection
  PROVE  SoFar' /\ Accepted'
  <1>1. "custom" \notin Counters /\ "type" \notin Counters /\ "start" \notin Counters
    BY DEF Counters
  <1>2. PICK id \in {"custom", "type", "start"} : In(id) /\ NextSection /\ Continue
    BY DEF CustomSection, TypeSection, StartSection
  <1>3. /\ m'.functions = m.functions /\ m'.import_func_count = m.import_func_count
        /\ m'.function_count = m.function_count /\ m'.table = m.table /\ m'.memory = m.memory
        /\ m'.globals = m.globals /\ m'.exports = m.exports
    BY DEF CustomSection, TypeSection, StartSection, LoaderInv, Shape
  <1>4. Accepted'
    BY <1>2 DEF In, Continue, Accepted
  <1>5. SoFar'
    BY <1>1, <1>2, <1>3, SectionAddsNothing
  <1>6. QED
    BY <1>4, <1>5

LEMMA EndSoFar ==
  ASSUME LoaderInv, Placed, SoFar, EndOfItems
  PROVE  SoFar' /\ Accepted'
  <1>1. PICK id \in ByItems : In(id)
    BY DEF EndOfItems
  <1>2. NextSection /\ Continue /\ UNCHANGED m /\ pos.item > Len(Section.items)
    BY DEF EndOfItems
  <1>3. id \in DOMAIN Rank /\ Section.id \in ByItems /\ pos.section <= Len(binary)
    BY <1>1, CountersRanked DEF In
  <1>4. pos.item = Len(Section.items) + 1 /\ Len(Section.items) \in Nat
    BY <1>1, <1>2, <1>3, BinaryRead, SectionRead DEF Placed
  <1>5. Read(id) = Len(Collected(id))
    BY <1>1, <1>3, <1>4, ReadHere
  <1>6. SoFar'
    BY <1>1, <1>2, <1>5, SectionAddsNothing
  <1>7. Accepted'
    BY <1>1, <1>2 DEF In, Continue, Accepted
  <1>8. QED
    BY <1>6, <1>7

(* What is not implemented, or not found, is refused.                      *)
LEMMA RefusedSoFar ==
  ASSUME SoFar, UNCHANGED binary,
         NEW message \in {"unresolved", "section", "table_count", "memory_count",
                          "imported_start", "start_failed"},
         Fatal(message)
  PROVE  SoFar' /\ Accepted'
  <1>1. SoFar'
    BY StoppedSoFar DEF Fatal
  <1>2. QED
    BY <1>1 DEF Fatal, Accepted

-----------------------------------------------------------------------------
(***************************************************************************)
(* Imports.                                                                *)
(***************************************************************************)
LEMMA ImportOtherNever ==
  ASSUME LoaderInv, Good
  PROVE  ~ImportOther
  <1> SUFFICES ASSUME ImportOther PROVE FALSE
    OBVIOUS
  <1>1. Item \in ToSet(Collected("import"))
    BY AtItemIs DEF ImportOther, Rank
  <1>2. QED
    BY <1>1 DEF ImportOther, Good, Valid

(* The counts of one kind, when an item of a kind is read.                 *)
LEMMA ImportCounts ==
  ASSUME LoaderInv, AtItem("import"), NextItem,
         NEW kind \in {"func", "table", "memory", "global"}, NEW n, n = ReadOf(kind)
  PROVE  /\ n \in Nat /\ Len(Imported(kind)) \in Nat
         /\ Item.kind = kind => ReadOf(kind)' = n + 1 /\ n + 1 \in 1 .. Len(Imported(kind))
                                /\ Imported(kind)[n + 1] = Item
         /\ Item.kind # kind => ReadOf(kind)' = n
  <1>1. /\ n \in Nat /\ ReadOf(kind)' = n + (IF Item.kind = kind THEN 1 ELSE 0)
        /\ ReadOf(kind)' <= Len(Imported(kind)) /\ Len(Imported(kind)) \in Nat
    BY ItemOfImports
  <1>2. Imported(Item.kind)[ReadOf(Item.kind) + 1] = Item
    BY ItemOfImports
  <1>3. QED
    BY <1>1, <1>2

LEMMA ImportedFunctionSoFar ==
  ASSUME LoaderInv, SoFar, ImportFunction
  PROVE  SoFar' /\ Accepted'
  <1> DEFINE n == ReadOf("func")
             new == [NewBlock(0, Item.type) EXCEPT !.imported = TRUE]
  <1>1. /\ AtItem("import") /\ Item.kind = "func" /\ NextItem /\ Continue
        /\ UNCHANGED binary /\ status = "loading"
    BY DEF ImportFunction, AtItem, In
  <1>2. /\ n \in Nat /\ ReadOf("func")' = n + 1 /\ Imported("func")[n + 1] = Item
        /\ \A kind \in {"table", "memory", "global"} : ReadOf(kind)' = ReadOf(kind)
    BY <1>1, ImportCounts
  <1>3. \A other \in Counters : other # "import" => Read(other)' = 0 /\ Read(other) = 0
    BY <1>1, ItemOfImports
  <1>4. /\ m'.import_func_count = m.import_func_count + 1
        /\ m'.function_count = m.function_count + 1 /\ m'.functions = Append(m.functions, new)
        /\ m'.table = m.table /\ m'.memory = m.memory /\ m'.globals = m.globals
        /\ m'.exports = m.exports
    BY DEF ImportFunction, LoaderInv, Shape
  <1>5. FunctionsSoFar(m, n, 0, 0)
    BY <1>3 DEF SoFar, Counters
  <1>6. m.import_func_count = n /\ m.function_count = n /\ Len(m.functions) = n
    BY <1>2, <1>5 DEF FunctionsSoFar, LoaderInv, Counted
  <1> HIDE DEF new, n
  <1>7. /\ \A f \in 1 .. n : Append(m.functions, new)[f] = m.functions[f]
        /\ Append(m.functions, new)[n + 1] = new
    BY <1>6, AppendedSequence DEF LoaderInv, Shape
  <1>8. new.imported /\ new.type = Item.type
    BY DEF new, NewBlock
  <1>9. FunctionsSoFar(m', n + 1, 0, 0)
    <2>1. \A f \in 1 .. n + 1 :
            m'.functions[f].imported /\ m'.functions[f].type = Imported("func")[f].type
      <3> SUFFICES ASSUME NEW f \in 1 .. n + 1
                   PROVE  m'.functions[f].imported /\ m'.functions[f].type = Imported("func")[f].type
        OBVIOUS
      <3>1. CASE f = n + 1
        BY <1>2, <1>4, <1>7, <1>8, <3>1
      <3>2. CASE f # n + 1
        <4>1. f \in 1 .. n
          BY <1>2, <3>2
        <4>2. m.functions[f].imported /\ m.functions[f].type = Imported("func")[f].type
          BY <1>5, <4>1 DEF FunctionsSoFar
        <4>3. m'.functions[f] = m.functions[f]
          BY <1>4, <1>7, <4>1
        <4>4. QED
          BY <4>2, <4>3, Zenon
      <3>3. QED
        BY <3>1, <3>2
    <2>2. QED
      BY <1>2, <1>4, <1>6, <2>1 DEF FunctionsSoFar
  <1>10. Accepted'
    BY <1>1 DEF Continue, Accepted
  <1>11. SoFar'
    <2>1. FunctionsSoFar(m', ReadOf("func")', Read("func")', Read("code")')
      BY <1>2, <1>3, <1>9 DEF Counters
    <2>2. QED
      BY <1>1, <1>2, <1>3, <1>4, <2>1, SoFarAfter DEF SoFar, Counters
  <1>12. QED
    BY <1>10, <1>11

LEMMA AppendedFunction ==
  ASSUME NEW n \in Nat, NEW s, s = [x \in 1 .. n |-> s[x]], NEW e
  PROVE  Append(s, e) = [x \in 1 .. n + 1 |-> IF x = n + 1 THEN e ELSE s[x]]
  <1> DEFINE S == {s[x] : x \in 1 .. n} \cup {e}
  <1>1. s \in [1 .. n -> S] /\ e \in S
    OBVIOUS
  <1> HIDE DEF S
  <1>2. s \in Seq(S) /\ Len(s) = n
    BY <1>1
  <1>3. /\ Append(s, e) \in Seq(S) /\ Len(Append(s, e)) = n + 1
        /\ \A x \in 1 .. n : Append(s, e)[x] = s[x]
        /\ Append(s, e)[n + 1] = e
    BY <1>1, <1>2
  <1>4. DOMAIN Append(s, e) = 1 .. n + 1
    BY <1>3
  <1>5. \A x \in 1 .. n + 1 : x # n + 1 => x \in 1 .. n
    OBVIOUS
  <1>6. \A x \in 1 .. n + 1 : Append(s, e)[x] = IF x = n + 1 THEN e ELSE s[x]
    BY <1>3, <1>5
  <1>7. Append(s, e) = [x \in 1 .. n + 1 |-> Append(s, e)[x]]
    BY <1>3, <1>4
  <1>8. QED
    BY <1>6, <1>7

LEMMA ImportedGlobalSoFar ==
  ASSUME LoaderInv, SoFar, ImportGlobal
  PROVE  SoFar' /\ Accepted'
  <1> DEFINE n == ReadOf("global")
             new == Global(Item.type, Item.host)
  <1>1. /\ AtItem("import") /\ Item.kind = "global" /\ NextItem /\ Continue
        /\ UNCHANGED binary /\ status = "loading"
    BY DEF ImportGlobal, AtItem, In
  <1>2. /\ n \in Nat /\ ReadOf("global")' = n + 1 /\ Imported("global")[n + 1] = Item
        /\ \A kind \in {"func", "table", "memory"} : ReadOf(kind)' = ReadOf(kind)
    BY <1>1, ImportCounts
  <1>3. \A other \in Counters : other # "import" => Read(other)' = 0 /\ Read(other) = 0
    BY <1>1, ItemOfImports
  <1>4. /\ m'.globals = Append(m.globals, new)
        /\ m'.functions = m.functions /\ m'.import_func_count = m.import_func_count
        /\ m'.function_count = m.function_count
        /\ m'.table = m.table /\ m'.memory = m.memory /\ m'.exports = m.exports
    BY DEF ImportGlobal, LoaderInv, Shape
  <1>5. new = ImportedGlobal(n + 1)
    BY <1>2 DEF new, ImportedGlobal, Global
  <1> HIDE DEF new, n
  <1>6. m.globals = [g \in 1 .. n |-> ImportedGlobal(g)]
    <2>1. GlobalsSoFar(m.globals, n, 0)
      BY <1>3 DEF SoFar, Counters, n
    <2>2. n + 0 = n /\ \A g \in 1 .. n : g <= n
      BY <1>2
    <2>3. QED
      BY <2>1, <2>2 DEF GlobalsSoFar
  <1>7. Append(m.globals, new) = [g \in 1 .. n + 1 |-> IF g = n + 1 THEN new ELSE m.globals[g]]
    BY <1>2, <1>6, AppendedFunction
  <1>8. GlobalsSoFar(m'.globals, n + 1, 0)
    <2>1. \A g \in 1 .. n + 1 : g # n + 1 => g \in 1 .. n
      BY <1>2
    <2>2. \A g \in 1 .. n + 1 : (IF g = n + 1 THEN new ELSE m.globals[g]) = ImportedGlobal(g)
      BY <1>5, <1>6, <2>1
    <2>3. m'.globals = [g \in 1 .. n + 1 |-> ImportedGlobal(g)]
      BY <1>4, <1>7, <2>2
    <2>4. (n + 1) + 0 = n + 1 /\ \A g \in 1 .. n + 1 : g <= n + 1
      BY <1>2
    <2>5. QED
      BY <2>3, <2>4 DEF GlobalsSoFar
  <1>9. Accepted'
    BY <1>1 DEF Continue, Accepted
  <1>10. SoFar'
    <2>1. FunctionsSoFar(m', ReadOf("func")', Read("func")', Read("code")')
      BY <1>2, <1>3, <1>4, FunctionsSame DEF SoFar, Counters
    <2>2. GlobalsSoFar(m'.globals, ReadOf("global")', Read("global")')
      BY <1>2, <1>3, <1>8 DEF Counters, n
    <2>3. QED
      BY <1>1, <1>2, <1>3, <1>4, <2>1, <2>2, SoFarAfter DEF SoFar, Counters
  <1>11. QED
    BY <1>9, <1>10

(* Before it is read an import is the next of its kind, and nothing behind *)
(* the imports is read.                                                    *)
LEMMA ImportToCome ==
  ASSUME LoaderInv, AtItem("import"), NEW kind, Item.kind = kind, NEW n, n = ReadOf(kind)
  PROVE  /\ n \in Nat /\ Len(Imported(kind)) \in Nat /\ n + 1 \in 1 .. Len(Imported(kind))
         /\ Imported(kind)[n + 1] = Item /\ Item \in ToSet(Imported(kind))
         /\ \A other \in Counters : other # "import" => Read(other) = 0
  <1> DEFINE r == Read("import")
             imports == Collected("import")
  <1>1. "import" \in DOMAIN Rank /\ \A other \in Counters : other # "import" => Rank[other] > Rank["import"]
    BY DEF Rank, Counters
  <1>2. /\ In("import") /\ r \in Nat /\ r + 1 \in 1 .. Len(imports)
        /\ Item = imports[r + 1] /\ Len(imports) \in Nat
    BY <1>1, AtItemIs, CollectedIsSequence
  <1>3. \A other \in Counters : other # "import" => Read(other) = 0
    BY <1>1, <1>2, ReadHere, CountersRanked
  <1> HIDE DEF r, imports
  <1>4. n = OfKind(kind, r)
    BY DEF ReadOf, r
  <1>5. n \in Nat /\ OfKind(kind, r + 1) = n + 1
    BY <1>2, <1>4, OfKindCounts DEF imports
  <1>6. /\ OfKind(kind, r + 1) \in 1 .. OfKind(kind, Len(imports))
        /\ Imported(kind)[OfKind(kind, r + 1)] = imports[r + 1]
    BY <1>2, ImportedAt DEF imports
  <1>7. /\ Len(Imported(kind)) = OfKind(kind, Len(imports)) /\ Len(Imported(kind)) \in Nat
        /\ \A g \in 1 .. Len(Imported(kind)) : Imported(kind)[g] \in ToSet(Imported(kind))
    BY ImportedIs DEF imports
  <1>8. Imported(kind)[n + 1] = Item /\ n + 1 \in 1 .. Len(Imported(kind))
    BY <1>2, <1>5, <1>6, <1>7
  <1>9. QED
    BY <1>3, <1>5, <1>7, <1>8

LEMMA ImportedTableSoFar ==
  ASSUME LoaderInv, Good, SoFar, ImportTable
  PROVE  SoFar' /\ Accepted'
  <1> DEFINE n == ReadOf("table")
  <1>1. AtItem("import") /\ Item.kind = "table" /\ UNCHANGED binary /\ status = "loading"
    BY DEF ImportTable, AtItem, In
  <1>2. /\ n \in Nat /\ Len(Imported("table")) \in Nat /\ n + 1 \in 1 .. Len(Imported("table"))
        /\ Imported("table")[n + 1] = Item /\ Item \in ToSet(Imported("table"))
        /\ \A other \in Counters : other # "import" => Read(other) = 0
    BY <1>1, ImportToCome
  <1>3. /\ Len(Collected("table")) \in Nat
        /\ Len(Imported("table")) + Len(Collected("table")) <= 1
    BY CollectedIsSequence DEF Good, Valid, Declared, Rank
  <1>4. n = 0 /\ Imported("table")[1] = Item /\ Imported("table") # <<>>
    BY <1>2, <1>3
  <1>5. ~m.table.allocated
    <2>1. Read("table") = 0 /\ ReadOf("table") = 0
      BY <1>2, <1>4 DEF Counters
    <2>2. ReadOf("table") + Read("table") = 0
      BY <2>1
    <2>3. TableSoFar(m.table, 0, Read("elem"))
      BY <2>2 DEF SoFar
    <2>4. QED
      BY <2>3 DEF TableSoFar
  <1>6. Item \in ToSet(Collected("import")) /\ ImportAssumption(Item)
    BY <1>1, AtItemIs, ItemsAre DEF Rank
  <1>7. ~(Item.limits.min > Item.host.max_size) /\ Item.host.cur_size \in Nat
    <2>1. Item.host.cur_size >= Item.limits.min
      BY <1>2 DEF Good, Linked, Matches
    <2>2. Item.host.max_size \in 0 .. MAX_ENTRIES /\ MAX_ENTRIES \in Nat
      BY <1>1, Reads, LoaderAssumption
    <2>3. QED
      BY <1>1, <1>6, <2>1, <2>2 DEF ImportAssumption
  <1>8. NextItem /\ Continue /\ m' = [m EXCEPT !.table = Table(Item.host)]
    <2>1. OfFunctions(Item.limits)
      BY <1>2 DEF Good, Valid
    <2>2. Item.limits.min <= Item.host.max_size
      BY <1>1, <1>6, <1>7, Reads, LoaderAssumption DEF ImportAssumption
    <2>3. QED
      BY <1>5, <2>1, <2>2 DEF ImportTable
  <1>9. /\ m'.table = Table(Item.host) /\ m'.memory = m.memory /\ m'.globals = m.globals
        /\ m'.functions = m.functions /\ m'.import_func_count = m.import_func_count
        /\ m'.function_count = m.function_count /\ m'.exports = m.exports
    BY <1>8 DEF LoaderInv, Shape
  <1>10. TableLength = Item.host.cur_size
    BY <1>4 DEF TableLength
  <1>11. TableSoFar(m'.table, 1, 0)
    <2>1. m'.table.allocated = TRUE /\ m'.table.cur_size = TableLength
          /\ m'.table.entries = Item.host.entries
      BY <1>9, <1>10 DEF Table
    <2>2. DOMAIN Item.host.entries = 0 .. TableLength - 1
      BY <1>1, <1>6, <1>10 DEF ImportAssumption
    <2>3. \A i \in 0 .. TableLength - 1 : m'.table.entries[i] = EntryAfter(0, i)
      BY <1>4, <2>1, EntryFirst
    <2>4. QED
      BY <2>1, <2>2, <2>3 DEF TableSoFar
  <1>12. /\ ReadOf("table")' = 1
         /\ \A kind \in {"func", "memory", "global"} : ReadOf(kind)' = ReadOf(kind)
    BY <1>1, <1>4, <1>8, ImportCounts
  <1>13. \A other \in Counters : other # "import" => Read(other)' = 0 /\ Read(other) = 0
    BY <1>1, <1>8, ItemOfImports
  <1>14. Accepted'
    BY <1>1, <1>8 DEF Continue, Accepted
  <1>15. SoFar'
    <2>1. FunctionsSoFar(m', ReadOf("func")', Read("func")', Read("code")')
      BY <1>9, <1>12, <1>13, FunctionsSame DEF SoFar, Counters
    <2>2. TableSoFar(m'.table, ReadOf("table")' + Read("table")', Read("elem")')
      BY <1>11, <1>12, <1>13 DEF Counters
    <2>3. QED
      BY <1>1, <1>9, <1>12, <1>13, <2>1, <2>2, SoFarAfter DEF SoFar, Counters
  <1>16. QED
    BY <1>14, <1>15

LEMMA ImportedMemorySoFar ==
  ASSUME LoaderInv, Good, SoFar, ImportMemory
  PROVE  SoFar' /\ Accepted'
  <1> DEFINE n == ReadOf("memory")
  <1>1. AtItem("import") /\ Item.kind = "memory" /\ UNCHANGED binary /\ status = "loading"
    BY DEF ImportMemory, AtItem, In
  <1>2. /\ n \in Nat /\ Len(Imported("memory")) \in Nat /\ n + 1 \in 1 .. Len(Imported("memory"))
        /\ Imported("memory")[n + 1] = Item /\ Item \in ToSet(Imported("memory"))
        /\ \A other \in Counters : other # "import" => Read(other) = 0
    BY <1>1, ImportToCome
  <1>3. /\ Len(Collected("mem")) \in Nat
        /\ Len(Imported("memory")) + Len(Collected("mem")) <= 1
    BY CollectedIsSequence DEF Good, Valid, Declared, Rank
  <1>4. n = 0 /\ Imported("memory")[1] = Item /\ Imported("memory") # <<>>
    BY <1>2, <1>3
  <1>5. ~m.memory.allocated
    <2>1. Read("mem") = 0 /\ ReadOf("memory") = 0
      BY <1>2, <1>4 DEF Counters
    <2>2. ReadOf("memory") + Read("mem") = 0
      BY <2>1
    <2>3. MemorySoFar(m.memory, 0, Read("data"))
      BY <2>2 DEF SoFar
    <2>4. QED
      BY <2>3 DEF MemorySoFar
  <1>6. Item \in ToSet(Collected("import")) /\ ImportAssumption(Item)
    BY <1>1, AtItemIs, ItemsAre DEF Rank
  <1>7. ~(Item.limits.min > Item.host.max_size) /\ Item.host.cur_size \in Nat
    <2>1. Item.host.cur_size >= Item.limits.min
      BY <1>2 DEF Good, Linked, Matches
    <2>2. Item.host.max_size \in 0 .. MAX_PAGES /\ MAX_PAGES \in Nat
      BY <1>1, Reads, LoaderAssumption
    <2>3. QED
      BY <1>1, <1>6, <2>1, <2>2 DEF ImportAssumption
  <1>8. NextItem /\ Continue /\ m' = [m EXCEPT !.memory = Memory(Item.host)]
    BY <1>5, <1>7 DEF ImportMemory
  <1>9. /\ m'.memory = Memory(Item.host) /\ m'.table = m.table /\ m'.globals = m.globals
        /\ m'.functions = m.functions /\ m'.import_func_count = m.import_func_count
        /\ m'.function_count = m.function_count /\ m'.exports = m.exports
    BY <1>8 DEF LoaderInv, Shape
  <1>10. MemoryPages = Item.host.cur_size
    BY <1>4 DEF MemoryPages
  <1>11. MemorySoFar(m'.memory, 1, 0)
    <2>1. m'.memory.allocated = TRUE /\ m'.memory.cur_size = MemoryPages
          /\ m'.memory.bytes = Item.host.bytes
      BY <1>9, <1>10 DEF Memory
    <2>2. DOMAIN Item.host.bytes = 0 .. MemoryPages * PAGE_SIZE - 1
      BY <1>1, <1>6, <1>10 DEF ImportAssumption
    <2>3. \A i \in 0 .. MemoryPages * PAGE_SIZE - 1 : m'.memory.bytes[i] = ByteAfter(0, i)
      BY <1>4, <2>1, ByteFirst
    <2>4. QED
      BY <2>1, <2>2, <2>3 DEF MemorySoFar
  <1>12. /\ ReadOf("memory")' = 1
         /\ \A kind \in {"func", "table", "global"} : ReadOf(kind)' = ReadOf(kind)
    BY <1>1, <1>4, <1>8, ImportCounts
  <1>13. \A other \in Counters : other # "import" => Read(other)' = 0 /\ Read(other) = 0
    BY <1>1, <1>8, ItemOfImports
  <1>14. Accepted'
    BY <1>1, <1>8 DEF Continue, Accepted
  <1>15. SoFar'
    <2>1. FunctionsSoFar(m', ReadOf("func")', Read("func")', Read("code")')
      BY <1>9, <1>12, <1>13, FunctionsSame DEF SoFar, Counters
    <2>2. MemorySoFar(m'.memory, ReadOf("memory")' + Read("mem")', Read("data")')
      BY <1>11, <1>12, <1>13 DEF Counters
    <2>3. QED
      BY <1>1, <1>9, <1>12, <1>13, <2>1, <2>2, SoFarAfter DEF SoFar, Counters
  <1>16. QED
    BY <1>14, <1>15

-----------------------------------------------------------------------------
(***************************************************************************)
(* Sections that are read as a whole.                                      *)
(***************************************************************************)
LEMMA WholeSection ==
  ASSUME LoaderInv, NEW id \in {"func", "table", "mem"}, In(id), NextSection
  PROVE  /\ \A kind : ReadOf(kind)' = ReadOf(kind) /\ ReadOf(kind) = Len(Imported(kind))
                      /\ ReadOf(kind) \in Nat
         /\ Read(id)' = Len(Collected(id))
         /\ \A other \in Counters : other # id => Read(other)' = Read(other)
  <1>1. id \in DOMAIN Rank /\ Rank["import"] < Rank[id] /\ "import" \in DOMAIN Rank /\ id # "import"
    BY DEF Rank
  <1>2. binary' = binary
    BY DEF In
  <1>3. Read("import") = Len(Collected("import"))
    BY <1>1, ReadHere
  <1>4. Read("import")' = Read("import") /\ Read(id)' = Len(Collected(id))
        /\ \A other \in Counters : other # id => Read(other)' = Read(other)
    BY <1>1, ReadNextSection, CountersRanked
  <1>5. QED
    BY <1>2, <1>3, <1>4, ReadOfKept, ReadOfAll

LEMMA WholeSectionFirst ==
  ASSUME LoaderInv, Placed, NEW id \in {"func", "table", "mem"}, In(id)
  PROVE  /\ Collected(id) = Section.items /\ Read(id) = 0
         /\ Read("elem") = 0 /\ Read("data") = 0 /\ Read("code") = 0
  <1>1. id \in DOMAIN Rank /\ {"elem", "data", "code"} \subseteq DOMAIN Rank
        /\ \A other \in {"elem", "data", "code"} : Rank[other] > Rank[id]
    BY DEF Rank
  <1>2. Section.id = id /\ pos.section <= Len(binary) /\ id \notin ByItems
    BY DEF In, ByItems
  <1>3. pos.item = 1
    BY <1>2 DEF Placed
  <1>4. QED
    BY <1>1, <1>3, ReadHere

LEMMA DeclaredFunctionsSoFar ==
  ASSUME LoaderInv, Placed, SoFar, FuncSection
  PROVE  SoFar' /\ Accepted'
  <1> DEFINE k == Len(Imported("func"))
             n == Len(Section.items)
             count == m.function_count + n
  <1>1. In("func") /\ NextSection /\ Continue /\ UNCHANGED binary /\ status = "loading"
    BY DEF FuncSection, In
  <1>2. /\ \A kind : ReadOf(kind)' = ReadOf(kind) /\ ReadOf(kind) = Len(Imported(kind))
        /\ k \in Nat /\ ReadOf("func") = k
        /\ Read("func")' = Len(Collected("func"))
        /\ \A other \in Counters : other # "func" => Read(other)' = Read(other)
    BY <1>1, WholeSection
  <1>3. Collected("func") = Section.items /\ Read("func") = 0 /\ Read("code") = 0 /\ n \in Nat
    BY <1>1, WholeSectionFirst, SectionRead
  <1>4. FunctionsSoFar(m, k, 0, 0)
    BY <1>2, <1>3 DEF SoFar
  <1>5. m.import_func_count = k /\ m.function_count = k
    BY <1>2, <1>4 DEF FunctionsSoFar
  <1>6. /\ m'.function_count = k + n /\ m'.import_func_count = k
        /\ m'.functions = [i \in 1 .. k + n |->
             IF i <= k THEN m.functions[i] ELSE NewBlock(Fidx(i - 1), Section.items[i - k])]
        /\ m'.table = m.table /\ m'.memory = m.memory /\ m'.globals = m.globals
        /\ m'.exports = m.exports
    BY <1>5 DEF FuncSection, LoaderInv, Shape
  <1> HIDE DEF k, n
  <1>7. ASSUME NEW f \in 1 .. k
        PROVE  m'.functions[f].imported /\ m'.functions[f].type = Imported("func")[f].type
    <2>1. f \in 1 .. k + n /\ f <= k
      BY <1>2, <1>3
    <2>2. m'.functions[f] = m.functions[f]
      BY <1>6, <2>1
    <2>3. m.functions[f].imported /\ m.functions[f].type = Imported("func")[f].type
      BY <1>4 DEF FunctionsSoFar
    <2>4. QED
      BY <2>2, <2>3, Zenon
  <1>8. ASSUME NEW f \in 1 .. n
        PROVE  /\ m'.functions[k + f].imported = FALSE
               /\ m'.functions[k + f].type = Collected("func")[f]
               /\ ~(f <= 0)
    <2>1. k + f \in 1 .. k + n /\ ~(k + f <= k) /\ (k + f) - k = f /\ ~(f <= 0)
      BY <1>2, <1>3
    <2>2. PICK i \in 1 .. k + n : i = k + f
      BY <2>1
    <2>3. m'.functions[i] = NewBlock(Fidx(i - 1), Section.items[i - k])
      BY <1>6, <2>1, <2>2
    <2>4. m'.functions[i].imported = FALSE /\ m'.functions[i].type = Section.items[i - k]
      BY <2>3 DEF NewBlock
    <2>5. QED
      BY <1>3, <2>1, <2>2, <2>4
  <1>9. FunctionsSoFar(m', k, n, 0)
    BY <1>6, <1>7, <1>8 DEF FunctionsSoFar
  <1>10. Accepted'
    BY <1>1 DEF Continue, Accepted
  <1>11. SoFar'
    <2>1. FunctionsSoFar(m', ReadOf("func")', Read("func")', Read("code")')
      BY <1>2, <1>3, <1>9 DEF Counters, k, n
    <2>2. QED
      BY <1>1, <1>2, <1>6, <2>1, SoFarAfter DEF SoFar, Counters
  <1>12. QED
    BY <1>10, <1>11

LEMMA DefinedTableSoFar ==
  ASSUME LoaderInv, Placed, Good, SoFar, TableSection
  PROVE  SoFar' /\ Accepted'
  <1>1. In("table") /\ UNCHANGED binary /\ status = "loading"
    BY DEF TableSection, In
  <1>2. CASE Fatal("table_count")
    BY <1>1, <1>2, RefusedSoFar
  <1>3. CASE ~Fatal("table_count")
    <2> DEFINE limits == Section.items[1]
               table == Table([cur_size |-> limits.min, max_size |-> MaxEntries(limits),
                               entries |-> Zeros(limits.min)])
    <2>1. /\ Len(Section.items) = 1 /\ NextSection /\ Continue
          /\ m' = [m EXCEPT !.table = table]
      <3>1. Len(Section.items) = 1
        BY <1>3 DEF TableSection
      <3>2. Collected("table") = Section.items /\ 1 \in DOMAIN Section.items
        BY <1>1, <3>1, ReadHere, SectionRead DEF Rank
      <3>3. OfFunctions(Section.items[1])
        BY <3>2 DEF Good, Valid, ToSet
      <3>4. QED
        BY <1>3, <3>1, <3>3 DEF TableSection
    <2>2. /\ \A kind : ReadOf(kind)' = ReadOf(kind) /\ ReadOf(kind) = Len(Imported(kind))
                       /\ ReadOf(kind) \in Nat
          /\ Read("table")' = Len(Collected("table"))
          /\ \A other \in Counters : other # "table" => Read(other)' = Read(other)
      BY <1>1, <2>1, WholeSection
    <2>3. Collected("table") = Section.items /\ Read("elem") = 0
      BY <1>1, WholeSectionFirst
    <2>4. Len(Imported("table")) = 0 /\ Imported("table") = <<>> /\ Collected("table") # <<>>
      <3>1. Len(Imported("table")) \in Nat /\ Len(Imported("table")) + 1 <= 1
        BY <2>1, <2>2, <2>3 DEF Good, Valid, Declared
      <3>2. QED
        BY <2>1, <2>3, <3>1, ImportedIs
    <2>5. TableLength = limits.min /\ limits.min \in Nat
      <3>1. TableLength = limits.min
        BY <2>3, <2>4 DEF TableLength
      <3>2. limits.min \in 0 .. U32 - 1
        BY <2>1, <2>3, ItemsAre DEF Rank
      <3>3. QED
        BY <3>1, <3>2, LoaderAssumption
    <2>6. table.allocated = TRUE /\ table.cur_size = limits.min /\ table.entries = Zeros(limits.min)
      BY DEF Table
    <2> HIDE DEF table, limits
    <2>7. /\ m'.table = table /\ m'.memory = m.memory /\ m'.globals = m.globals
          /\ m'.functions = m.functions /\ m'.import_func_count = m.import_func_count
          /\ m'.function_count = m.function_count /\ m'.exports = m.exports
      BY <2>1 DEF LoaderInv, Shape
    <2>8. TableSoFar(m'.table, 1, 0)
      <3>1. \A i \in 0 .. TableLength - 1 : EntryAfter(0, i) = 0
        BY <2>4, EntryFirst
      <3>2. DOMAIN Zeros(limits.min) = 0 .. limits.min - 1
            /\ \A i \in 0 .. limits.min - 1 : Zeros(limits.min)[i] = 0
        BY DEF Zeros
      <3>3. QED
        BY <2>5, <2>6, <2>7, <3>1, <3>2 DEF TableSoFar
    <2>9. TableSoFar(m'.table, ReadOf("table")' + Read("table")', Read("elem")')
      <3>1. ReadOf("table")' = 0 /\ Read("table")' = 1 /\ Read("elem")' = 0
        BY <2>1, <2>2, <2>3, <2>4 DEF Counters
      <3>2. ReadOf("table")' + Read("table")' = 1
        BY <3>1
      <3>3. QED
        BY <2>8, <3>1, <3>2
    <2>10. FunctionsSoFar(m', ReadOf("func")', Read("func")', Read("code")')
      BY <2>2, <2>7, FunctionsSame DEF SoFar, Counters
    <2>11. SoFar'
      BY <1>1, <2>2, <2>7, <2>9, <2>10, SoFarAfter DEF SoFar, Counters
    <2>12. QED
      BY <1>1, <2>1, <2>11 DEF Continue, Accepted
  <1>4. QED
    BY <1>2, <1>3

LEMMA DefinedMemorySoFar ==
  ASSUME LoaderInv, Placed, Good, SoFar, MemSection
  PROVE  SoFar' /\ Accepted'
  <1>1. In("mem") /\ UNCHANGED binary /\ status = "loading"
    BY DEF MemSection, In
  <1>2. CASE Fatal("memory_count")
    BY <1>1, <1>2, RefusedSoFar
  <1>3. CASE ~Fatal("memory_count")
    <2> DEFINE limits == Section.items[1]
               memory == Memory(DefinedMemory(limits))
               size == MemoryPages * PAGE_SIZE
    <2>1. /\ Len(Section.items) = 1 /\ NextSection /\ Continue
          /\ m' = [m EXCEPT !.memory = memory]
      BY <1>3 DEF MemSection
    <2>2. /\ \A kind : ReadOf(kind)' = ReadOf(kind) /\ ReadOf(kind) = Len(Imported(kind))
                       /\ ReadOf(kind) \in Nat
          /\ Read("mem")' = Len(Collected("mem"))
          /\ \A other \in Counters : other # "mem" => Read(other)' = Read(other)
      BY <1>1, <2>1, WholeSection
    <2>3. Collected("mem") = Section.items /\ Read("data") = 0
      BY <1>1, WholeSectionFirst
    <2>4. Len(Imported("memory")) = 0 /\ Imported("memory") = <<>> /\ Collected("mem") # <<>>
      <3>1. Len(Imported("memory")) \in Nat /\ Len(Imported("memory")) + 1 <= 1
        BY <2>1, <2>2, <2>3 DEF Good, Valid, Declared
      <3>2. QED
        BY <2>1, <2>3, <3>1, ImportedIs
    <2>5. MemoryPages = limits.min /\ limits.min \in Nat
      <3>1. MemoryPages = limits.min
        BY <2>3, <2>4 DEF MemoryPages
      <3>2. limits.min \in 0 .. U32 - 1
        BY <2>1, <2>3, ItemsAre DEF Rank
      <3>3. QED
        BY <3>1, <3>2, LoaderAssumption
    <2>6. size \in Nat /\ size < U32
      <3>1. size < U32
        BY DEF Good, Fits
      <3>2. QED
        BY <2>5, <3>1, LoaderAssumption
    <2>7. /\ memory.allocated = TRUE /\ memory.cur_size = limits.min
          /\ memory.bytes = ZeroBytes(4 * (size % U32))
      BY <2>5 DEF Memory, DefinedMemory, AllocatedAtFirst
    <2> HIDE DEF memory, limits, size
    <2>8. size % U32 = size
      BY <2>6, LoaderAssumption
    <2>9. /\ m'.memory = memory /\ m'.table = m.table /\ m'.globals = m.globals
          /\ m'.functions = m.functions /\ m'.import_func_count = m.import_func_count
          /\ m'.function_count = m.function_count /\ m'.exports = m.exports
      BY <2>1 DEF LoaderInv, Shape
    <2>10. MemorySoFar(m'.memory, 1, 0)
      <3>1. \A i \in 0 .. size - 1 : ByteAfter(0, i) = 0
        BY <2>4, ByteFirst
      <3>2. 0 .. size - 1 \subseteq DOMAIN memory.bytes
            /\ \A i \in 0 .. size - 1 : memory.bytes[i] = 0
        <4>1. \A i \in 0 .. size - 1 : i \in 0 .. 4 * size - 1
          BY <2>6
        <4>2. QED
          BY <2>7, <2>8, <4>1 DEF ZeroBytes
      <3>3. QED
        BY <2>5, <2>7, <2>9, <3>1, <3>2 DEF MemorySoFar, size
    <2>11. MemorySoFar(m'.memory, ReadOf("memory")' + Read("mem")', Read("data")')
      <3>1. ReadOf("memory")' = 0 /\ Read("mem")' = 1 /\ Read("data")' = 0
        BY <2>1, <2>2, <2>3, <2>4 DEF Counters
      <3>2. ReadOf("memory")' + Read("mem")' = 1
        BY <3>1
      <3>3. QED
        BY <2>10, <3>1, <3>2
    <2>12. FunctionsSoFar(m', ReadOf("func")', Read("func")', Read("code")')
      BY <2>2, <2>9, FunctionsSame DEF SoFar, Counters
    <2>13. SoFar'
      BY <1>1, <2>2, <2>9, <2>11, <2>12, SoFarAfter DEF SoFar, Counters
    <2>14. QED
      BY <1>1, <2>1, <2>13 DEF Continue, Accepted
  <1>4. QED
    BY <1>2, <1>3

-----------------------------------------------------------------------------
(***************************************************************************)
(* Behind the imports, all of them count.                                  *)
(***************************************************************************)
LEMMA ImportsCounted ==
  ASSUME LoaderInv, NEW id \in {"global", "export", "elem", "code", "data"}, AtItem(id)
  PROVE  /\ \A kind : ReadOf(kind) = Len(Imported(kind)) /\ ReadOf(kind) \in Nat
         /\ \A other \in DOMAIN Rank : Rank[other] < Rank[id] => Read(other) = Len(Collected(other))
         /\ UNCHANGED binary /\ status = "loading"
         /\ Read(id) \in Nat /\ Read(id) + 1 \in 1 .. Len(Collected(id))
         /\ Item = Collected(id)[Read(id) + 1] /\ Item \in ToSet(Collected(id))
         /\ Read(id) = pos.item - 1 /\ pos.item \in Nat
  <1>1. id \in DOMAIN Rank /\ Rank["import"] < Rank[id] /\ "import" \in DOMAIN Rank
    BY DEF Rank
  <1>2. /\ In(id) /\ status = "loading" /\ binary' = binary
        /\ Read(id) = pos.item - 1 /\ Read(id) \in Nat
        /\ Read(id) + 1 \in 1 .. Len(Collected(id)) /\ Item = Collected(id)[Read(id) + 1]
        /\ Item \in ToSet(Collected(id))
    BY <1>1, AtItemIs
  <1>3. \A other \in DOMAIN Rank : Rank[other] < Rank[id] => Read(other) = Len(Collected(other))
    BY <1>1, <1>2, ReadHere
  <1>4. \A kind : ReadOf(kind) = Len(Imported(kind)) /\ ReadOf(kind) \in Nat
    BY <1>1, <1>3, ReadOfAll
  <1>5. pos.item \in Nat
    BY BinaryRead
  <1>6. QED
    BY <1>2, <1>3, <1>4, <1>5

LEMMA GlobalSoFar ==
  ASSUME LoaderInv, Good, SoFar, GlobalItem
  PROVE  SoFar' /\ Accepted'
  <1> DEFINE k == Len(Imported("global"))
             n == Read("global")
             new == InitExpr(Item.init)
  <1>1. AtItem("global")
    BY DEF GlobalItem
  <1>2. /\ \A kind : ReadOf(kind) = Len(Imported(kind)) /\ ReadOf(kind) \in Nat
        /\ UNCHANGED binary /\ status = "loading"
        /\ n \in Nat /\ n + 1 \in 1 .. Len(Collected("global"))
        /\ Item = Collected("global")[n + 1] /\ Item \in ToSet(Collected("global"))
    BY <1>1, ImportsCounted
  <1>3. InitAssumption(Item.init) /\ Available(Item.init) /\ Initial(Item.init).type = Item.type
    BY <1>2, ItemsAre DEF Rank, Good, Valid
  <1>4. k \in Nat /\ GlobalsSoFar(m.globals, k, n)
    BY <1>2 DEF SoFar
  <1>5. new = Initial(Item.init)
    BY <1>2, <1>3, <1>4, InitExprIs
  <1>6. ~Mismatch(Item.init, Item.type)
    BY <1>3, <1>5 DEF Mismatch
  <1>7. NextItem /\ Continue /\ m' = [m EXCEPT !.globals = Append(@, new)]
    BY <1>6 DEF GlobalItem
  <1>8. /\ m'.globals = Append(m.globals, new)
        /\ m'.functions = m.functions /\ m'.import_func_count = m.import_func_count
        /\ m'.function_count = m.function_count
        /\ m'.table = m.table /\ m'.memory = m.memory /\ m'.exports = m.exports
    BY <1>7 DEF LoaderInv, Shape
  <1>9. /\ \A kind : ReadOf(kind)' = ReadOf(kind)
        /\ Read("global")' = n + 1
        /\ \A other \in Counters : other # "global" => Read(other)' = Read(other)
    BY <1>1, <1>7, ItemBehindImports
  <1> HIDE DEF new, n, k
  <1>10. GlobalsSoFar(m'.globals, k, n + 1)
    <2> DEFINE value(g) ==
          IF g <= k THEN ImportedGlobal(g) ELSE Initial(Collected("global")[g - k].init)
    <2>1. m.globals = [g \in 1 .. k + n |-> value(g)] /\ k + n \in Nat
      BY <1>2, <1>4 DEF GlobalsSoFar
    <2>2. value(k + n + 1) = new
      <3>1. ~(k + n + 1 <= k) /\ (k + n + 1) - k = n + 1
        BY <1>2, <1>4
      <3>2. QED
        BY <1>2, <1>5, <3>1
    <2>3. Append(m.globals, new) =
            [g \in 1 .. k + n + 1 |-> IF g = k + n + 1 THEN new ELSE m.globals[g]]
      <3> HIDE DEF value
      <3>1. m.globals = [g \in 1 .. k + n |-> m.globals[g]]
        BY <2>1
      <3>2. QED
        BY <2>1, <3>1, AppendedFunction
    <2> HIDE DEF value
    <2>4. \A g \in 1 .. k + n + 1 : (IF g = k + n + 1 THEN new ELSE m.globals[g]) = value(g)
      <3>1. \A g \in 1 .. k + n + 1 : g # k + n + 1 => g \in 1 .. k + n
        BY <2>1
      <3>2. QED
        BY <2>1, <2>2, <3>1
    <2>5. m'.globals = [g \in 1 .. k + n + 1 |-> value(g)]
      BY <1>8, <2>3, <2>4
    <2>6. k + (n + 1) = k + n + 1
      BY <1>2, <1>4
    <2>7. m'.globals = [g \in 1 .. k + (n + 1) |-> value(g)]
      BY <2>5, <2>6
    <2>8. QED
      BY <2>7 DEF GlobalsSoFar, value
  <1>11. Accepted'
    BY <1>2, <1>7 DEF Continue, Accepted
  <1>12. SoFar'
    <2>1. FunctionsSoFar(m', ReadOf("func")', Read("func")', Read("code")')
      BY <1>8, <1>9, FunctionsSame DEF SoFar, Counters
    <2>2. GlobalsSoFar(m'.globals, ReadOf("global")', Read("global")')
      BY <1>2, <1>9, <1>10 DEF k
    <2>3. QED
      BY <1>2, <1>8, <1>9, <2>1, <2>2, SoFarAfter DEF SoFar, Counters
  <1>13. QED
    BY <1>11, <1>12

LEMMA ExportSoFar ==
  ASSUME LoaderInv, Good, SoFar, ExportItem
  PROVE  SoFar' /\ Accepted'
  <1> DEFINE n == Read("export")
             new == [export_name |-> Item.name, external_kind |-> Item.kind,
                     value |-> [kind |-> Item.kind, index |-> Item.index]]
  <1>1. AtItem("export")
    BY DEF ExportItem
  <1>2. /\ UNCHANGED binary /\ status = "loading"
        /\ n \in Nat /\ n + 1 \in 1 .. Len(Collected("export"))
        /\ Item = Collected("export")[n + 1] /\ Item \in ToSet(Collected("export"))
    BY <1>1, ImportsCounted
  <1>3. Item.kind \in OnlyOne => Item.index = 0
    BY <1>2 DEF Good, Valid
  <1>4. NextItem /\ Continue /\ m' = [m EXCEPT !.exports = Append(@, new)]
    BY <1>3 DEF ExportItem
  <1>5. /\ m'.exports = Append(m.exports, new)
        /\ m'.functions = m.functions /\ m'.import_func_count = m.import_func_count
        /\ m'.function_count = m.function_count
        /\ m'.table = m.table /\ m'.memory = m.memory /\ m'.globals = m.globals
    BY <1>4 DEF LoaderInv, Shape
  <1>6. /\ \A kind : ReadOf(kind)' = ReadOf(kind)
        /\ Read("export")' = n + 1
        /\ \A other \in Counters : other # "export" => Read(other)' = Read(other)
    BY <1>1, <1>4, ItemBehindImports
  <1>7. ExportsSoFar(m'.exports, n + 1)
    <2> DEFINE value(e) ==
          [export_name |-> Collected("export")[e].name,
           external_kind |-> Collected("export")[e].kind,
           value |-> [kind |-> Collected("export")[e].kind,
                      index |-> Collected("export")[e].index]]
    <2>1. m.exports = [e \in 1 .. n |-> value(e)]
      BY DEF SoFar, ExportsSoFar
    <2>2. value(n + 1) = new
      BY <1>2
    <2> HIDE DEF value, new, n
    <2>3. m.exports = [e \in 1 .. n |-> m.exports[e]]
      BY <2>1
    <2>4. Append(m.exports, new) = [e \in 1 .. n + 1 |-> IF e = n + 1 THEN new ELSE m.exports[e]]
      BY <1>2, <2>3, AppendedFunction
    <2>5. \A e \in 1 .. n + 1 : (IF e = n + 1 THEN new ELSE m.exports[e]) = value(e)
      <3>1. \A e \in 1 .. n + 1 : e # n + 1 => e \in 1 .. n
        BY <1>2
      <3>2. QED
        BY <2>1, <2>2, <3>1
    <2>6. m'.exports = [e \in 1 .. n + 1 |-> value(e)]
      BY <1>5, <2>4, <2>5
    <2>7. QED
      BY <2>6 DEF ExportsSoFar, value
  <1>8. Accepted'
    BY <1>2, <1>4 DEF Continue, Accepted
  <1>9. SoFar'
    <2>1. FunctionsSoFar(m', ReadOf("func")', Read("func")', Read("code")')
      BY <1>5, <1>6, FunctionsSame DEF SoFar, Counters
    <2>2. ExportsSoFar(m'.exports, Read("export")')
      BY <1>6, <1>7
    <2>3. QED
      BY <1>2, <1>5, <1>6, <2>1, <2>2, SoFarAfter DEF SoFar, Counters
  <1>10. QED
    BY <1>8, <1>9

-----------------------------------------------------------------------------
(***************************************************************************)
(* Segments and code.                                                      *)
(***************************************************************************)
LEMMA PlacesOfSegment ==
  ASSUME NEW offset \in Nat, NEW count \in Nat, offset + count <= U32
  PROVE  /\ Targets(offset, count) = offset .. offset + count - 1
         /\ \A i \in Targets(offset, count) :
              (i - offset) % U32 = i - offset /\ i - offset \in 0 .. count - 1
  <1>1. U32 \in Nat \ {0}
    BY LoaderAssumption
  <1>2. \A n \in 0 .. count - 1 : (offset + n) % U32 = offset + n /\ n % U32 = n
    BY <1>1
  <1>3. Targets(offset, count) = {offset + n : n \in 0 .. count - 1}
    BY <1>2 DEF Targets
  <1>4. \A i \in offset .. offset + count - 1 : i - offset \in 0 .. count - 1 /\ i = offset + (i - offset)
    OBVIOUS
  <1>5. Targets(offset, count) = offset .. offset + count - 1
    BY <1>3, <1>4
  <1>6. QED
    BY <1>2, <1>4, <1>5

(* How long the table is, and the memory, when segments are read.          *)
LEMMA LengthsAre ==
  ASSUME LoaderInv, Good
  PROVE  /\ TableLength \in 0 .. U32 /\ MemoryPages \in Nat
         /\ Len(Imported("table")) + Len(Collected("table")) \in Nat
         /\ ~(Len(Imported("table")) + Len(Collected("table")) > 0) => TableLength = 0
         /\ Len(Imported("memory")) + Len(Collected("mem")) \in Nat
         /\ ~(Len(Imported("memory")) + Len(Collected("mem")) > 0) => MemoryPages = 0
  <1>1. /\ U32 \in Nat \ {0} /\ MAX_ENTRIES \in Nat /\ MAX_ENTRIES <= U32 /\ MAX_PAGES \in Nat
    BY LoaderAssumption, ItemsAssumption
  <1>2. \A id \in {"import", "table", "mem"} :
          Len(Collected(id)) \in Nat /\ DOMAIN Collected(id) = 1 .. Len(Collected(id))
    BY CollectedIsSequence DEF Rank
  <1>3. \A kind : /\ Len(Imported(kind)) \in Nat
                  /\ Imported(kind) = <<>> <=> Len(Imported(kind)) = 0
    BY ImportedIs
  <1>4. ASSUME NEW kind \in {"table", "memory"}, Imported(kind) # <<>>
        PROVE  /\ Imported(kind)[1].host.cur_size \in Nat
               /\ kind = "table" => Imported(kind)[1].host.cur_size <= MAX_ENTRIES
    <2>1. 1 \in 1 .. OfKind(kind, Len(Collected("import")))
      BY <1>3, <1>4, ImportedIs
    <2>2. PICK i \in 1 .. Len(Collected("import")) :
            Collected("import")[i].kind = kind /\ Imported(kind)[1] = Collected("import")[i]
      BY <2>1, ImportedFrom
    <2>3. /\ ImportAssumption(Collected("import")[i])
          /\ Collected("import")[i] \in ToSet(Collected("import"))
      BY <2>2, ItemsAre DEF Rank
    <2>4. Imported(kind)[1].host.cur_size \in 0 .. Imported(kind)[1].host.max_size
      BY <2>2, <2>3 DEF ImportAssumption
    <2>5. Imported(kind)[1].host.max_size \in Nat
          /\ (kind = "table" => Imported(kind)[1].host.max_size \in 0 .. MAX_ENTRIES)
      <3>1. PICK s \in DOMAIN binary : binary[s].id = "import" /\ Collected("import") = binary[s].items
        <4>1. Collected("import") # <<>>
          BY <1>2, <2>2
        <4>2. QED
          BY <4>1, CollectedIs DEF Rank
      <3>2. binary \in Binaries /\ binary[s] \in ToSet(binary)
        BY BinaryRead DEF ToSet
      <3>3. QED
        BY <1>1, <2>2, <2>3, <3>1, <3>2, LoaderAssumption
    <2>6. QED
      BY <1>1, <2>4, <2>5
  <1>5. ASSUME NEW id \in {"table", "mem"}, Collected(id) # <<>>
        PROVE  Collected(id)[1].min \in 0 .. U32 - 1
    <2>1. 1 \in 1 .. Len(Collected(id))
      BY <1>2, <1>5
    <2>2. QED
      BY <2>1, ItemsAre DEF Rank
  <1>6. TableLength \in 0 .. U32
    BY <1>1, <1>4, <1>5 DEF TableLength
  <1>7. MemoryPages \in Nat
    BY <1>1, <1>4, <1>5 DEF MemoryPages
  <1>8. \A id \in {"table", "mem"} : Len(Collected(id)) = 0 => Collected(id) = <<>>
    BY <1>2
  <1>9. ~(Len(Imported("table")) + Len(Collected("table")) > 0) => TableLength = 0
    <2>1. ASSUME ~(Len(Imported("table")) + Len(Collected("table")) > 0)
          PROVE  Len(Imported("table")) = 0 /\ Len(Collected("table")) = 0
      BY <1>2, <1>3, <2>1
    <2>2. QED
      BY <1>3, <1>8, <2>1 DEF TableLength
  <1>10. ~(Len(Imported("memory")) + Len(Collected("mem")) > 0) => MemoryPages = 0
    <2>1. ASSUME ~(Len(Imported("memory")) + Len(Collected("mem")) > 0)
          PROVE  Len(Imported("memory")) = 0 /\ Len(Collected("mem")) = 0
      BY <1>2, <1>3, <2>1
    <2>2. QED
      BY <1>3, <1>8, <2>1 DEF MemoryPages
  <1>11. QED
    BY <1>2, <1>3, <1>6, <1>7, <1>9, <1>10

LEMMA ElemSoFar ==
  ASSUME LoaderInv, Good, SoFar, ElemItem
  PROVE  SoFar' /\ Accepted'
  <1> DEFINE n == Read("elem")
             k == Len(Imported("table")) + Len(Collected("table"))
             s == Item
             offset == Initial(s.init).value
             count == Len(s.funcs)
             length == TableLength
             targets == Targets(offset, count)
  <1>1. AtItem("elem")
    BY DEF ElemItem
  <1>2. /\ \A kind : ReadOf(kind) = Len(Imported(kind)) /\ ReadOf(kind) \in Nat
        /\ Read("global") = Len(Collected("global")) /\ Read("table") = Len(Collected("table"))
        /\ UNCHANGED binary /\ status = "loading"
        /\ n \in Nat /\ n + 1 \in 1 .. Len(Collected("elem"))
        /\ s = Collected("elem")[n + 1] /\ s \in ToSet(Collected("elem"))
    BY <1>1, ImportsCounted DEF Rank
  <1>3. /\ offset \in Nat /\ Available(s.init) /\ s.index = 0 /\ Initial(s.init).type = 127
        /\ InitAssumption(s.init) /\ count \in Nat
    <2>1. offset \in 0 .. U32 - 1 /\ Available(s.init) /\ s.index = 0 /\ Initial(s.init).type = 127
      BY <1>2, SegmentStarts
    <2>2. InitAssumption(s.init) /\ count \in Nat
      BY <1>2, ItemsAre DEF Rank
    <2>3. QED
      BY <2>1, <2>2, LoaderAssumption
  <1>4. InitExpr(s.init) = Initial(s.init)
    <2>1. GlobalsSoFar(m.globals, Len(Imported("global")), Len(Collected("global")))
      BY <1>2 DEF SoFar
    <2>2. Len(Collected("global")) \in Nat
      BY CollectedIsSequence DEF Rank
    <2>3. QED
      BY <1>3, <2>1, <2>2, InitExprIs
  <1>5. ~Mismatch(s.init, 127)
    BY <1>3, <1>4 DEF Mismatch
  <1>6. offset + count <= length /\ length \in 0 .. U32 /\ k \in Nat /\ (~(k > 0) => length = 0)
    BY <1>2, LengthsAre DEF Good, Fits, ElemSize
  <1>7. TableSoFar(m.table, k, n)
    <2>1. ReadOf("table") + Read("table") = k
      BY <1>2
    <2>2. QED
      BY <2>1 DEF SoFar
  <1>8. /\ m.table.allocated <=> k > 0
        /\ m.table.cur_size = length /\ DOMAIN m.table.entries = 0 .. length - 1
        /\ \A i \in 0 .. length - 1 : m.table.entries[i] = EntryAfter(n, i)
    <2>1. (IF k > 0 THEN TableLength ELSE 0) = length
      BY <1>6
    <2>2. QED
      BY <1>7, <2>1 DEF TableSoFar
  <1>9. /\ targets = offset .. offset + count - 1
        /\ \A i \in targets : (i - offset) % U32 = i - offset /\ i - offset \in 0 .. count - 1
    <2> HIDE DEF offset, count, length
    <2>1. offset + count <= U32
      <3>1. U32 \in Nat /\ offset \in Nat /\ count \in Nat
        BY <1>3, LoaderAssumption
      <3>2. QED
        BY <1>6, <3>1
    <2>2. QED
      BY <1>3, <2>1, PlacesOfSegment
  <1>10. targets \subseteq DOMAIN m.table.entries
    BY <1>3, <1>6, <1>8, <1>9
  <1> DEFINE entries == [i \in DOMAIN m.table.entries |->
                 IF i \in targets THEN s.funcs[((i - offset) % U32) + 1] ELSE m.table.entries[i]]
  <1>11. /\ NextItem /\ Continue
         /\ m' = [m EXCEPT !.table = [m.table EXCEPT !.entries = entries]]
    BY <1>3, <1>4, <1>5, <1>10 DEF ElemItem
  <1> HIDE DEF entries
  <1>12. /\ m'.table.allocated = m.table.allocated /\ m'.table.cur_size = m.table.cur_size
         /\ m'.table.entries = entries /\ m'.memory = m.memory /\ m'.globals = m.globals
         /\ m'.functions = m.functions /\ m'.import_func_count = m.import_func_count
         /\ m'.function_count = m.function_count /\ m'.exports = m.exports
    BY <1>11 DEF LoaderInv, Shape
  <1>13. /\ \A kind : ReadOf(kind)' = ReadOf(kind)
         /\ Read("elem")' = n + 1
         /\ \A other \in Counters : other # "elem" => Read(other)' = Read(other)
    BY <1>1, <1>11, ItemBehindImports
  <1>14. DOMAIN entries = 0 .. length - 1
         /\ \A i \in 0 .. length - 1 : entries[i] = EntryAfter(n + 1, i)
    <2>1. DOMAIN entries = 0 .. length - 1
      BY <1>8 DEF entries
    <2>2. ASSUME NEW i \in 0 .. length - 1
          PROVE  entries[i] = EntryAfter(n + 1, i)
      <3>1. EntryAfter(n + 1, i) =
              IF i - offset \in 0 .. count - 1 THEN s.funcs[i - offset + 1] ELSE EntryAfter(n, i)
        <4>1. n + 1 <= Len(Collected("elem"))
          BY <1>2, CollectedIsSequence DEF Rank
        <4>2. QED
          BY <1>2, <4>1, EntryNext
      <3>2. entries[i] =
              IF i \in targets THEN s.funcs[((i - offset) % U32) + 1] ELSE EntryAfter(n, i)
        BY <1>8 DEF entries
      <3> HIDE DEF offset, count, length, targets
      <3>3. i \in targets <=> i - offset \in 0 .. count - 1
        BY <1>3, <1>6, <1>9
      <3>4. QED
        BY <1>9, <3>1, <3>2, <3>3
    <2>3. QED
      BY <2>1, <2>2
  <1>15. TableSoFar(m'.table, k, n + 1)
    <2>1. (IF k > 0 THEN TableLength ELSE 0) = length
      BY <1>6
    <2>2. m'.table.allocated <=> k > 0
      BY <1>8, <1>12, Zenon
    <2>3. QED
      BY <1>8, <1>12, <1>14, <2>1, <2>2 DEF TableSoFar
  <1>16. Accepted'
    BY <1>2, <1>11 DEF Continue, Accepted
  <1>17. SoFar'
    <2>1. FunctionsSoFar(m', ReadOf("func")', Read("func")', Read("code")')
      BY <1>12, <1>13, FunctionsSame DEF SoFar, Counters
    <2>2. ReadOf("table")' + Read("table")' = k
      BY <1>2, <1>13 DEF Counters
    <2>3. TableSoFar(m'.table, ReadOf("table")' + Read("table")', Read("elem")')
      BY <1>13, <1>15, <2>2
    <2>4. QED
      BY <1>2, <1>12, <1>13, <2>1, <2>3, SoFarAfter DEF SoFar, Counters
  <1>18. QED
    BY <1>16, <1>17

LEMMA DataSoFar ==
  ASSUME LoaderInv, Good, SoFar, DataItem
  PROVE  SoFar' /\ Accepted'
  <1> DEFINE n == Read("data")
             k == Len(Imported("memory")) + Len(Collected("mem"))
             s == Item
             offset == Initial(s.init).value
             count == Len(s.bytes)
             size == MemoryPages * PAGE_SIZE
             targets == offset .. offset + count - 1
  <1>1. AtItem("data")
    BY DEF DataItem
  <1>2. /\ \A kind : ReadOf(kind) = Len(Imported(kind)) /\ ReadOf(kind) \in Nat
        /\ Read("global") = Len(Collected("global")) /\ Read("mem") = Len(Collected("mem"))
        /\ UNCHANGED binary /\ status = "loading"
        /\ n \in Nat /\ n + 1 \in 1 .. Len(Collected("data"))
        /\ s = Collected("data")[n + 1] /\ s \in ToSet(Collected("data"))
    BY <1>1, ImportsCounted DEF Rank
  <1>3. /\ offset \in Nat /\ Available(s.init) /\ s.index = 0 /\ Initial(s.init).type = 127
        /\ InitAssumption(s.init) /\ count \in Nat
    <2>1. offset \in 0 .. U32 - 1 /\ Available(s.init) /\ s.index = 0 /\ Initial(s.init).type = 127
      BY <1>2, SegmentStarts
    <2>2. InitAssumption(s.init) /\ count \in Nat
      BY <1>2, ItemsAre DEF Rank
    <2>3. QED
      BY <2>1, <2>2, LoaderAssumption
  <1>4. InitExpr(s.init) = Initial(s.init)
    <2>1. GlobalsSoFar(m.globals, Len(Imported("global")), Len(Collected("global")))
      BY <1>2 DEF SoFar
    <2>2. Len(Collected("global")) \in Nat
      BY CollectedIsSequence DEF Rank
    <2>3. QED
      BY <1>3, <2>1, <2>2, InitExprIs
  <1>5. ~Mismatch(s.init, 127)
    BY <1>3, <1>4 DEF Mismatch
  <1>6. /\ offset + count <= size /\ size \in Nat /\ k \in Nat
        /\ (~(k > 0) => size = 0 /\ MemoryPages = 0)
    <2>1. /\ MemoryPages \in Nat /\ PAGE_SIZE \in Nat /\ k \in Nat
          /\ (~(k > 0) => MemoryPages = 0)
      BY LengthsAre, LoaderAssumption
    <2>2. size \in Nat /\ (MemoryPages = 0 => size = 0)
      BY <2>1
    <2>3. offset + count <= size
      BY <1>2 DEF Good, Fits, DataSize
    <2>4. QED
      BY <2>1, <2>2, <2>3
  <1>7. MemorySoFar(m.memory, k, n)
    <2>1. ReadOf("memory") + Read("mem") = k
      BY <1>2
    <2>2. QED
      BY <2>1 DEF SoFar
  <1>8. /\ m.memory.allocated <=> k > 0
        /\ m.memory.cur_size = MemoryPages /\ 0 .. size - 1 \subseteq DOMAIN m.memory.bytes
        /\ \A i \in 0 .. size - 1 : m.memory.bytes[i] = ByteAfter(n, i)
    <2>1. /\ (IF k > 0 THEN MemoryPages * PAGE_SIZE ELSE 0) = size
          /\ (IF k > 0 THEN MemoryPages ELSE 0) = MemoryPages
      BY <1>6
    <2>2. QED
      BY <1>7, <2>1 DEF MemorySoFar
  <1>9. targets \subseteq 0 .. size - 1
    <2> HIDE DEF offset, count, size
    <2>1. QED
      BY <1>3, <1>6
  <1>10. targets \subseteq DOMAIN m.memory.bytes
    BY <1>8, <1>9, Zenon
  <1> DEFINE bytes == [i \in DOMAIN m.memory.bytes |->
                         IF i \in targets THEN s.bytes[i - offset + 1] ELSE m.memory.bytes[i]]
  <1>11. /\ NextItem /\ Continue
         /\ m' = [m EXCEPT !.memory = [m.memory EXCEPT !.bytes = bytes]]
    BY <1>3, <1>4, <1>5, <1>10 DEF DataItem
  <1> HIDE DEF bytes
  <1>12. /\ m'.memory.allocated = m.memory.allocated /\ m'.memory.cur_size = m.memory.cur_size
         /\ m'.memory.bytes = bytes /\ m'.table = m.table /\ m'.globals = m.globals
         /\ m'.functions = m.functions /\ m'.import_func_count = m.import_func_count
         /\ m'.function_count = m.function_count /\ m'.exports = m.exports
    BY <1>11 DEF LoaderInv, Shape
  <1>13. /\ \A kind : ReadOf(kind)' = ReadOf(kind)
         /\ Read("data")' = n + 1
         /\ \A other \in Counters : other # "data" => Read(other)' = Read(other)
    BY <1>1, <1>11, ItemBehindImports
  <1>14. 0 .. size - 1 \subseteq DOMAIN bytes
         /\ \A i \in 0 .. size - 1 : bytes[i] = ByteAfter(n + 1, i)
    <2>1. 0 .. size - 1 \subseteq DOMAIN bytes
      BY <1>8 DEF bytes
    <2>2. ASSUME NEW i \in 0 .. size - 1
          PROVE  bytes[i] = ByteAfter(n + 1, i)
      <3>1. ByteAfter(n + 1, i) =
              IF i - offset \in 0 .. count - 1 THEN s.bytes[i - offset + 1] ELSE ByteAfter(n, i)
        <4>1. n + 1 <= Len(Collected("data"))
          BY <1>2, CollectedIsSequence DEF Rank
        <4>2. QED
          BY <1>2, <4>1, ByteNext
      <3>2. i \in DOMAIN m.memory.bytes
        BY <1>8
      <3>3. bytes[i] = IF i \in targets THEN s.bytes[i - offset + 1] ELSE ByteAfter(n, i)
        BY <1>8, <3>2 DEF bytes
      <3> HIDE DEF offset, count, size
      <3>4. i \in targets <=> i - offset \in 0 .. count - 1
        BY <1>3, <1>6
      <3>5. QED
        BY <3>1, <3>3, <3>4
    <2>3. QED
      BY <2>1, <2>2
  <1>15. MemorySoFar(m'.memory, k, n + 1)
    <2>1. /\ (IF k > 0 THEN MemoryPages * PAGE_SIZE ELSE 0) = size
          /\ (IF k > 0 THEN MemoryPages ELSE 0) = MemoryPages
      BY <1>6
    <2>2. m'.memory.allocated <=> k > 0
      BY <1>8, <1>12, Zenon
    <2>3. QED
      BY <1>8, <1>12, <1>14, <2>1, <2>2 DEF MemorySoFar
  <1>16. Accepted'
    BY <1>2, <1>11 DEF Continue, Accepted
  <1>17. SoFar'
    <2>1. FunctionsSoFar(m', ReadOf("func")', Read("func")', Read("code")')
      BY <1>12, <1>13, FunctionsSame DEF SoFar, Counters
    <2>2. ReadOf("memory")' + Read("mem")' = k
      BY <1>2, <1>13 DEF Counters
    <2>3. MemorySoFar(m'.memory, ReadOf("memory")' + Read("mem")', Read("data")')
      BY <1>13, <1>15, <2>2
    <2>4. QED
      BY <1>2, <1>12, <1>13, <2>1, <2>3, SoFarAfter DEF SoFar, Counters
  <1>18. QED
    BY <1>16, <1>17

LEMMA CodeSoFar ==
  ASSUME LoaderInv, Good, SoFar, CodeItem
  PROVE  SoFar' /\ Accepted'
  <1> DEFINE c == Read("code")
             k == Len(Imported("func"))
             n == Len(Collected("func"))
             target == CodeTarget(pos.item)
             function == m.functions[target]
             new == [function EXCEPT !.local_count = LocalCount(Item.locals),
                                     !.locals = LocalTypes(Item.locals), !.code = Item.code]
  <1>1. AtItem("code")
    BY DEF CodeItem
  <1>2. /\ \A kind : ReadOf(kind) = Len(Imported(kind)) /\ ReadOf(kind) \in Nat
        /\ Read("func") = Len(Collected("func"))
        /\ UNCHANGED binary /\ status = "loading"
        /\ c \in Nat /\ c + 1 \in 1 .. Len(Collected("code"))
        /\ Item = Collected("code")[c + 1] /\ Item \in ToSet(Collected("code"))
        /\ c = pos.item - 1 /\ pos.item \in Nat
    BY <1>1, ImportsCounted DEF Rank
  <1>3. pos.item = c + 1 /\ k \in Nat /\ n \in Nat /\ c + 1 \in 1 .. n
    <2>1. Len(Collected("code")) = n /\ n \in Nat
      BY CollectedIsSequence DEF Rank, Good, Valid
    <2>2. QED
      BY <1>2, <2>1
  <1>4. FunctionsSoFar(m, k, n, c)
    BY <1>2 DEF SoFar
  <1>5. /\ target = k + (c + 1) /\ target \in 1 .. k + n
        /\ m.import_func_count = k /\ m.function_count = k + n
    <2>1. m.import_func_count = k /\ m.function_count = k + n
      BY <1>4 DEF FunctionsSoFar
    <2>2. target = k + (c + 1)
      BY <1>3, <2>1 DEF CodeTarget
    <2> HIDE DEF target, k, n, c
    <2>3. QED
      BY <1>3, <2>1, <2>2
  <1>6. DOMAIN m.functions = 1 .. k + n
        /\ \A f \in 1 .. k + n :
             DOMAIN m.functions[f] = {"fidx", "type", "imported", "local_count", "locals", "code"}
    <2>1. IsSequence(m.functions) /\ Len(m.functions) = k + n
      BY <1>5 DEF LoaderInv, Shape, Counted
    <2>2. QED
      BY <2>1 DEF IsSequence, LoaderInv, Shape
  <1>7. Item.last = "end" /\ LocalCount(Item.locals) < U32
    BY <1>2 DEF Good, Valid
  <1>8. Holds(pos.item)
    BY <1>5, <1>6, <1>7 DEF Holds
  <1>9. NextItem /\ Continue /\ m' = [m EXCEPT !.functions = [m.functions EXCEPT ![target] = new]]
    BY <1>7, <1>8 DEF CodeItem
  <1>10. new.type = function.type /\ new.imported = function.imported /\ HasCode(new, Item)
    <2>1. DOMAIN function = {"fidx", "type", "imported", "local_count", "locals", "code"}
      BY <1>5, <1>6
    <2> HIDE DEF function
    <2>2. QED
      BY <2>1 DEF HasCode
  <1> HIDE DEF new
  <1>11. /\ m'.functions = [m.functions EXCEPT ![target] = new]
         /\ m'.import_func_count = k /\ m'.function_count = k + n
         /\ m'.table = m.table /\ m'.memory = m.memory /\ m'.globals = m.globals
         /\ m'.exports = m.exports
    BY <1>5, <1>9 DEF LoaderInv, Shape
  <1>12. \A f \in 1 .. k + n : m'.functions[f] = IF f = target THEN new ELSE m.functions[f]
    BY <1>6, <1>11
  <1>13. /\ \A kind : ReadOf(kind)' = ReadOf(kind)
         /\ Read("code")' = c + 1
         /\ \A other \in Counters : other # "code" => Read(other)' = Read(other)
    BY <1>1, <1>9, ItemBehindImports
  <1> HIDE DEF c, k, n, target, function
  <1>14. ASSUME NEW f \in 1 .. k
         PROVE  m'.functions[f].imported /\ m'.functions[f].type = Imported("func")[f].type
    <2>1. f \in 1 .. k + n /\ f # target
      BY <1>3, <1>5
    <2>2. m'.functions[f] = m.functions[f]
      BY <1>12, <2>1
    <2>3. m.functions[f].imported /\ m.functions[f].type = Imported("func")[f].type
      BY <1>4 DEF FunctionsSoFar
    <2>4. QED
      BY <2>2, <2>3, Zenon
  <1>15. ASSUME NEW f \in 1 .. n
         PROVE  /\ m'.functions[k + f].imported = FALSE
                /\ m'.functions[k + f].type = Collected("func")[f]
                /\ f <= c + 1 => HasCode(m'.functions[k + f], Collected("code")[f])
    <2>1. k + f \in 1 .. k + n
      BY <1>3
    <2>2. /\ m.functions[k + f].imported = FALSE
          /\ m.functions[k + f].type = Collected("func")[f]
          /\ f <= c => HasCode(m.functions[k + f], Collected("code")[f])
      BY <1>4 DEF FunctionsSoFar
    <2>3. CASE f = c + 1
      <3>1. k + f = target
        BY <1>5, <2>3
      <3>2. m'.functions[k + f] = new /\ function = m.functions[k + f]
        BY <1>12, <2>1, <3>1 DEF function
      <3>3. HasCode(new, Collected("code")[f])
        BY <1>2, <1>10, <2>3 DEF c
      <3>4. QED
        BY <1>10, <2>2, <3>2, <3>3, Zenon
    <2>4. CASE f # c + 1
      <3>1. k + f # target /\ (f <= c + 1 => f <= c)
        BY <1>2, <1>3, <1>5, <2>4 DEF c
      <3>2. m'.functions[k + f] = m.functions[k + f]
        BY <1>12, <2>1, <3>1
      <3>3. QED
        BY <2>2, <3>1, <3>2, Zenon
    <2>5. QED
      BY <2>3, <2>4
  <1>16. FunctionsSoFar(m', k, n, c + 1)
    BY <1>11, <1>14, <1>15 DEF FunctionsSoFar
  <1>17. Accepted'
    BY <1>2, <1>9 DEF Continue, Accepted
  <1>18. SoFar'
    <2>1. FunctionsSoFar(m', ReadOf("func")', Read("func")', Read("code")')
      BY <1>2, <1>13, <1>16 DEF Counters, k, n
    <2>2. QED
      BY <1>2, <1>11, <1>13, <2>1, SoFarAfter DEF SoFar, Counters
  <1>19. QED
    BY <1>17, <1>18

-----------------------------------------------------------------------------
(***************************************************************************)
(* The invariant.                                                          *)
(***************************************************************************)
LEMMA BuildInit ==
  ASSUME Init
  PROVE  BuildInv
  <1>1. LoaderInv
    BY InvInit
  <1>2. /\ pos.section = 1 /\ pos.item = 1 /\ status = "loading" /\ started = 0
        /\ m.import_func_count = 0 /\ m.function_count = 0
        /\ m.table = NoTable /\ m.memory = NoMemory /\ m.globals = <<>> /\ m.exports = <<>>
    BY DEF Init
  <1>3. Placed
    <2>1. pos.section <= Len(binary) => Len(Section.items) \in Nat
      BY <1>1, <1>2, BinaryRead DEF Section
    <2>2. QED
      BY <1>2, <2>1 DEF Placed
  <1>4. \A id : Read(id) = 0
    <2>1. \A id : ~Before(id)
      BY <1>2 DEF Before
    <2>2. QED
      BY <1>2, <2>1 DEF Read
  <1>5. \A kind : ReadOf(kind) = 0
    BY <1>4, OfKindCounts DEF ReadOf
  <1>6. GlobalsSoFar(m.globals, 0, 0) /\ ExportsSoFar(m.exports, 0)
    BY <1>2 DEF GlobalsSoFar, ExportsSoFar
  <1>7. FunctionsSoFar(m, 0, 0, 0)
    BY <1>2 DEF FunctionsSoFar
  <1>8. TableSoFar(m.table, 0, 0)
    <2>1. /\ m.table.allocated = FALSE /\ m.table.cur_size = 0
          /\ m.table.entries = Zeros(0) /\ DOMAIN Zeros(0) = 0 .. 0 - 1
      BY <1>2 DEF NoTable, Zeros
    <2>2. QED
      BY <2>1 DEF TableSoFar
  <1>9. MemorySoFar(m.memory, 0, 0)
    <2>1. m.memory.allocated = FALSE /\ m.memory.cur_size = 0
      BY <1>2 DEF NoMemory
    <2>2. QED
      BY <2>1 DEF MemorySoFar
  <1>10. SoFar
    <2>1. ReadOf("table") + Read("table") = 0 /\ ReadOf("memory") + Read("mem") = 0
      BY <1>4, <1>5
    <2>2. QED
      BY <1>4, <1>5, <1>6, <1>7, <1>8, <1>9, <2>1 DEF SoFar
  <1>11. StartDeclared
    BY DEF Init, StartDeclared
  <1>12. QED
    BY <1>2, <1>3, <1>10, <1>11 DEF BuildInv, Accepted

LEMMA BinaryStays ==
  ASSUME [Next]_vars
  PROVE  UNCHANGED binary
  BY DEF Next, vars, CustomSection, UnknownSection, TypeSection, Unresolved, ImportOther,
         ImportFunction, ImportTable, ImportMemory, ImportGlobal, FuncSection, TableSection,
         MemSection, GlobalItem, ExportItem, StartSection, ElemItem, CodeItem, DataItem,
         EndOfItems, Finish, AtItem, In

(* Only the start section names a start function.                          *)
LEMMA StartStays ==
  ASSUME LoaderInv, [Next]_vars, ~StartSection
  PROVE  m'.start_function = m.start_function
  <1>1. DOMAIN m = {"types", "import_func_count", "function_count", "functions", "table",
                    "memory", "globals", "exports", "start_function"}
    BY DEF LoaderInv, Shape
  <1>2. CASE UNCHANGED m
    BY <1>2
  <1>3. CASE ~UNCHANGED m
    BY <1>1, <1>3
    DEF Next, vars, CustomSection, UnknownSection, TypeSection, Unresolved, ImportOther,
        ImportFunction, ImportTable, ImportMemory, ImportGlobal, FuncSection, TableSection,
        MemSection, GlobalItem, ExportItem, ElemItem, CodeItem, DataItem, EndOfItems, Finish,
        Fatal, Wild
  <1>4. QED
    BY <1>2, <1>3

LEMMA StartNext ==
  ASSUME LoaderInv, StartDeclared, [Next]_vars
  PROVE  StartDeclared'
  <1>1. UNCHANGED binary /\ Collected("start")' = Collected("start")
    BY BinaryStays, BinaryMeans
  <1>2. CASE StartSection
    <2>1. /\ In("start") /\ status = "loading" /\ Section.id = "start"
          /\ m'.start_function = Section.items[1]
      BY <1>2 DEF StartSection, In, LoaderInv, Shape
    <2>2. Collected("start") = Section.items
      BY <2>1, ReadHere DEF Rank
    <2>3. Section \in ToSet(binary) /\ binary \in Binaries /\ 1 \in DOMAIN Section.items
      BY <2>1, SectionRead, LoaderAssumption
    <2>4. m'.start_function \in ToSet(Collected("start"))
      BY <2>1, <2>2, <2>3 DEF ToSet
    <2>5. QED
      BY <1>1, <2>4 DEF StartDeclared
  <1>3. CASE ~StartSection
    BY <1>1, <1>3, StartStays DEF StartDeclared
  <1>4. QED
    BY <1>2, <1>3

(* At the end all functions are counted, and the start function of a valid *)
(* module is one of them.                                                  *)
LEMMA StartInRange ==
  ASSUME LoaderInv, Good, SoFar, StartDeclared, pos.section > Len(binary),
         m.start_function # NoStart
  PROVE  m.start_function < m.function_count
  <1>1. m.start_function \in ToSet(Collected("start"))
    BY DEF StartDeclared
  <1>2. m.start_function \in 0 .. Declared("func", "func") - 1
    BY <1>1 DEF Good, Valid
  <1>3. /\ Read("func") = Len(Collected("func")) /\ Read("import") = Len(Collected("import"))
    BY ReadAll DEF Rank
  <1>4. ReadOf("func") = Len(Imported("func"))
    BY <1>3, ReadOfAll
  <1>5. m.function_count = Declared("func", "func")
    BY <1>3, <1>4 DEF SoFar, FunctionsSoFar, Declared
  <1>6. Len(Imported("func")) \in Nat /\ Len(Collected("func")) \in Nat
    BY ImportedIs, CollectedIsSequence DEF Rank
  <1>7. QED
    BY <1>2, <1>5, <1>6 DEF Declared

LEMMA FinishSoFar ==
  ASSUME LoaderInv, Good, SoFar, StartDeclared, Finish
  PROVE  SoFar' /\ Accepted'
  <1>1. CASE Fatal("imported_start")
    BY <1>1, RefusedSoFar DEF Finish
  <1>2. CASE ~Fatal("imported_start")
    <2>1. pos.section > Len(binary)
      BY DEF Finish
    <2>2. ~(m.start_function # NoStart /\ m.start_function >= m.function_count)
      <3>1. m.function_count \in Nat
        BY DEF LoaderInv, Counted
      <3>2. CASE m.start_function # NoStart
        <4>1. m.start_function \in 0 .. Declared("func", "func") - 1
          BY <3>2 DEF StartDeclared, Good, Valid
        <4>2. QED
          BY <2>1, <3>1, <3>2, <4>1, StartInRange
      <3>3. QED
        BY <3>2
    <2>3. UNCHANGED <<binary, m, pos>> /\ (status' = "loaded" \/ error' = "start_failed")
      BY <1>2, <2>2 DEF Finish
    <2>4. QED
      BY <2>3, StoppedSoFar DEF Accepted
  <1>3. QED
    BY <1>1, <1>2

LEMMA GoodSteps ==
  ASSUME LoaderInv, Placed, StartDeclared, Good, SoFar, Next
  PROVE  SoFar' /\ Accepted'
  <1>1. CASE CustomSection \/ TypeSection \/ StartSection
    BY <1>1, CustomSoFar
  <1>2. CASE UnknownSection
    BY <1>2, RefusedSoFar DEF UnknownSection, In
  <1>3. CASE Unresolved
    BY <1>3, RefusedSoFar DEF Unresolved, AtItem, In
  <1>4. CASE ImportOther
    BY <1>4, ImportOtherNever
  <1>5. CASE ImportFunction
    BY <1>5, ImportedFunctionSoFar
  <1>6. CASE ImportTable
    BY <1>6, ImportedTableSoFar
  <1>7. CASE ImportMemory
    BY <1>7, ImportedMemorySoFar
  <1>8. CASE ImportGlobal
    BY <1>8, ImportedGlobalSoFar
  <1>9. CASE FuncSection
    BY <1>9, DeclaredFunctionsSoFar
  <1>10. CASE TableSection
    BY <1>10, DefinedTableSoFar
  <1>11. CASE MemSection
    BY <1>11, DefinedMemorySoFar
  <1>12. CASE GlobalItem
    BY <1>12, GlobalSoFar
  <1>13. CASE ExportItem
    BY <1>13, ExportSoFar
  <1>14. CASE ElemItem
    BY <1>14, ElemSoFar
  <1>15. CASE CodeItem
    BY <1>15, CodeSoFar
  <1>16. CASE DataItem
    BY <1>16, DataSoFar
  <1>17. CASE EndOfItems
    BY <1>17, EndSoFar
  <1>18. CASE Finish
    BY <1>18, FinishSoFar
  <1>19. QED
    BY <1>1, <1>2, <1>3, <1>4, <1>5, <1>6, <1>7, <1>8, <1>9, <1>10, <1>11, <1>12, <1>13,
       <1>14, <1>15, <1>16, <1>17, <1>18 DEF Next

LEMMA BuildNext ==
  ASSUME LoaderInv, BuildInv, [Next]_vars
  PROVE  BuildInv'
  <1>1. Placed'
    BY PlacedNext DEF BuildInv
  <1>2. UNCHANGED binary
    BY BinaryStays
  <1>3. Good' = Good
    BY <1>2, GoodKept
  <1>4. ASSUME Good PROVE SoFar' /\ Accepted'
    <2>1. Placed /\ StartDeclared /\ SoFar /\ Accepted
      BY <1>4 DEF BuildInv
    <2>2. CASE UNCHANGED vars
      BY <2>1, <2>2, StoppedSoFar DEF vars, Accepted
    <2>3. CASE Next
      BY <1>4, <2>1, <2>3, GoodSteps DEF BuildInv
    <2>4. QED
      BY <2>2, <2>3
  <1>5. StartDeclared'
    BY StartNext DEF BuildInv
  <1>6. QED
    BY <1>1, <1>3, <1>4, <1>5 DEF BuildInv

-----------------------------------------------------------------------------
(***************************************************************************)
(* All is read, so all agrees.                                             *)
(***************************************************************************)
LEMMA FunctionsDo ==
  ASSUME LoaderInv, Good,
         FunctionsSoFar(m, Len(Imported("func")), Len(Collected("func")), Len(Collected("code")))
  PROVE  FunctionsAgree
  <1> DEFINE k == Len(Imported("func"))
             n == Len(Collected("func"))
             codes == Collected("code")
  <1>1. /\ k \in Nat /\ n \in Nat /\ Len(codes) = n /\ DOMAIN codes = 1 .. n
    BY CollectedIsSequence, ImportedIs DEF Rank, Good, Valid
  <1>2. /\ m.import_func_count = k /\ m.function_count = k + n
        /\ \A f \in 1 .. k :
             m.functions[f].imported /\ m.functions[f].type = Imported("func")[f].type
        /\ \A f \in 1 .. n :
             /\ m.functions[k + f].imported = FALSE
             /\ m.functions[k + f].type = Collected("func")[f]
             /\ f <= n => HasCode(m.functions[k + f], codes[f])
    BY <1>1 DEF FunctionsSoFar
  <1>3. DOMAIN m.functions = 1 .. k + n
    <2>1. IsSequence(m.functions) /\ Len(m.functions) = k + n
      BY <1>2 DEF LoaderInv, Shape, Counted
    <2>2. QED
      BY <2>1 DEF IsSequence
  <1> HIDE DEF k, n, codes
  <1>4. ASSUME NEW f \in DOMAIN codes
        PROVE  LET function == m.functions[k + f]
                   code == codes[f]
               IN /\ ~function.imported
                  /\ function.type = Collected("func")[f]
                  /\ function.code = code.code
                  /\ function.local_count = Len(function.locals)
                  /\ \A g \in DOMAIN code.locals, p \in 1 .. 2 :
                       p <= code.locals[g].count =>
                         function.locals[LocalCount(SubSeq(code.locals, 1, g - 1)) + p] =
                           code.locals[g].type
    <2> DEFINE function == m.functions[k + f]
               code == codes[f]
    <2>1. f \in 1 .. n /\ f <= n
      BY <1>1
    <2>2. /\ function.imported = FALSE /\ function.type = Collected("func")[f]
          /\ HasCode(function, code)
      BY <1>2, <2>1
    <2>3. CodeAssumption(code)
      BY <1>1, <2>1, ItemsAre DEF Rank, codes
    <2>4. /\ function.code = code.code /\ function.local_count = LocalCount(code.locals)
          /\ function.locals = LocalTypes(code.locals)
      BY <2>2 DEF HasCode
    <2>5. /\ code.locals \in Seq(ToSet(code.locals))
          /\ \A g \in ToSet(code.locals) : g.count \in Nat
      BY <2>3 DEF CodeAssumption
    <2>6. /\ LocalCount(code.locals) = Len(LocalTypes(code.locals))
          /\ \A g \in DOMAIN code.locals : \A p \in 1 .. code.locals[g].count :
               LocalTypes(code.locals)[LocalCount(SubSeq(code.locals, 1, g - 1)) + p] =
                 code.locals[g].type
      BY <2>5, LocalTypesAre
    <2>7. \A g \in DOMAIN code.locals : code.locals[g].count \in Nat
      BY <2>5 DEF ToSet
    <2>8. ASSUME NEW g \in DOMAIN code.locals, NEW p \in 1 .. 2, p <= code.locals[g].count
          PROVE  function.locals[LocalCount(SubSeq(code.locals, 1, g - 1)) + p] =
                   code.locals[g].type
      <3>1. p \in 1 .. code.locals[g].count
        BY <2>7, <2>8
      <3>2. QED
        BY <2>4, <2>6, <3>1
    <2> HIDE DEF function, code
    <2>9. ~function.imported
      BY <2>2, Zenon
    <2>10. /\ function.type = Collected("func")[f] /\ function.code = code.code
           /\ function.local_count = Len(function.locals)
      BY <2>2, <2>4, <2>6
    <2>11. QED
      BY <2>8, <2>9, <2>10, Zenon DEF function, code
  <1>5. QED
    BY <1>1, <1>2, <1>3, <1>4, Zenon DEF FunctionsAgree, ImportedFunctions, Declared, k, n, codes

LEMMA GlobalsDo ==
  ASSUME LoaderInv,
         GlobalsSoFar(m.globals, Len(Imported("global")), Len(Collected("global")))
  PROVE  GlobalsAgree
  <1> DEFINE k == Len(Imported("global"))
             n == Len(Collected("global"))
             imported == [g \in 1 .. k |-> ImportedGlobal(g)]
             defined == [g \in 1 .. n |-> Initial(Collected("global")[g].init)]
             S == {imported[g] : g \in 1 .. k} \cup {defined[g] : g \in 1 .. n}
             value(g) == IF g <= k THEN ImportedGlobal(g)
                         ELSE Initial(Collected("global")[g - k].init)
  <1>1. k \in Nat /\ n \in Nat /\ DOMAIN Collected("global") = 1 .. n
    BY CollectedIsSequence, ImportedIs DEF Rank
  <1>2. m.globals = [g \in 1 .. k + n |-> value(g)]
    BY DEF GlobalsSoFar
  <1>3. imported \in [1 .. k -> S] /\ defined \in [1 .. n -> S]
    OBVIOUS
  <1>4. (\A g \in 1 .. k : imported[g] = ImportedGlobal(g))
        /\ (\A g \in 1 .. n : defined[g] = Initial(Collected("global")[g].init))
    OBVIOUS
  <1> HIDE DEF k, n, imported, defined, S
  <1>5. imported \in Seq(S) /\ Len(imported) = k /\ defined \in Seq(S) /\ Len(defined) = n
    BY <1>1, <1>3
  <1>6. /\ imported \o defined \in Seq(S) /\ Len(imported \o defined) = k + n
        /\ \A i \in 1 .. k : (imported \o defined)[i] = imported[i]
        /\ \A i \in 1 .. n : (imported \o defined)[k + i] = defined[i]
    <2>1. /\ imported \o defined \in Seq(S)
          /\ Len(imported \o defined) = Len(imported) + Len(defined)
          /\ \A i \in 1 .. Len(imported) : (imported \o defined)[i] = imported[i]
          /\ \A i \in 1 .. Len(defined) : (imported \o defined)[Len(imported) + i] = defined[i]
      BY <1>5
    <2>2. QED
      BY <1>5, <2>1
  <1>7. ASSUME NEW g \in 1 .. k + n
        PROVE  (imported \o defined)[g] = value(g)
    <2>1. CASE g <= k
      <3>1. g \in 1 .. k
        BY <1>1, <2>1
      <3>2. QED
        BY <1>4, <1>6, <2>1, <3>1
    <2>2. CASE ~(g <= k)
      <3>1. PICK i \in 1 .. n : i = g - k /\ g = k + i
        BY <1>1, <2>2
      <3>2. (imported \o defined)[g] = defined[i]
        BY <1>6, <3>1
      <3>3. QED
        BY <1>4, <2>2, <3>1, <3>2
    <2>3. QED
      BY <2>1, <2>2
  <1> HIDE DEF value
  <1>8. imported \o defined = [g \in 1 .. k + n |-> value(g)]
    <2> DEFINE joined == imported \o defined
    <2>1. joined \in Seq(S) /\ Len(joined) = k + n
      BY <1>6
    <2>2. \A g \in 1 .. k + n : joined[g] = value(g)
      BY <1>7
    <2> HIDE DEF joined
    <2>3. joined = [g \in 1 .. k + n |-> joined[g]]
      BY <2>1
    <2>4. joined = [g \in 1 .. k + n |-> value(g)]
      BY <2>2, <2>3
    <2>5. QED
      BY <2>4 DEF joined
  <1>9. m.globals = imported \o defined
    BY <1>2, <1>8
  <1>10. imported = [g \in 1 .. Len(Imported("global")) |->
                       [type |-> Imported("global")[g].type, value |-> Imported("global")[g].host]]
    BY DEF imported, k, ImportedGlobal
  <1>11. defined = [g \in DOMAIN Collected("global") |-> Initial(Collected("global")[g].init)]
    BY <1>1 DEF defined
  <1>12. QED
    BY <1>9, <1>10, <1>11, Zenon DEF GlobalsAgree

LEMMA TableDoes ==
  ASSUME LoaderInv, Good,
         TableSoFar(m.table, Len(Imported("table")) + Len(Collected("table")),
                    Len(Collected("elem")))
  PROVE  TableAgrees
  <1> DEFINE k == Len(Imported("table")) + Len(Collected("table"))
             n == Len(Collected("elem"))
  <1>1. (IF k > 0 THEN TableLength ELSE 0) = TableLength
    BY LengthsAre
  <1> HIDE DEF k
  <1>2. /\ m.table.cur_size = TableLength
        /\ \A i \in 0 .. TableLength - 1 : m.table.entries[i] = EntryAfter(n, i)
    <2>1. TableSoFar(m.table, k, n)
      BY DEF k
    <2>2. QED
      BY <1>1, <2>1 DEF TableSoFar
  <1>3. ASSUME NEW i
        PROVE  EntryAfter(n, i) =
                 LET segments == Covering(Collected("elem"), ElemSize, i)
                     last == Collected("elem")[Max(segments)]
                 IN IF segments # {} THEN last.funcs[i - Initial(last.init).value + 1]
                    ELSE IF Imported("table") # <<>> THEN Imported("table")[1].host.entries[i]
                    ELSE 0
    <2>1. ElemsOver(n, i) = Covering(Collected("elem"), ElemSize, i)
      BY SegmentsAfterAll
    <2>2. QED
      BY <2>1, Zenon DEF EntryAfter
  <1>4. QED
    BY <1>2, <1>3, Zenon DEF TableAgrees

LEMMA MemoryDoes ==
  ASSUME LoaderInv, Good,
         MemorySoFar(m.memory, Len(Imported("memory")) + Len(Collected("mem")),
                     Len(Collected("data")))
  PROVE  MemoryAgrees
  <1> DEFINE k == Len(Imported("memory")) + Len(Collected("mem"))
             n == Len(Collected("data"))
             size == MemoryPages * PAGE_SIZE
  <1>1. /\ (IF k > 0 THEN MemoryPages ELSE 0) = MemoryPages
        /\ (IF k > 0 THEN size ELSE 0) = size
    <2>1. /\ MemoryPages \in Nat /\ k \in Nat /\ (~(k > 0) => MemoryPages = 0)
      BY LengthsAre
    <2>2. MemoryPages = 0 => size = 0
      BY LoaderAssumption
    <2>3. QED
      BY <2>1, <2>2
  <1> HIDE DEF k
  <1>2. /\ m.memory.cur_size = MemoryPages
        /\ \A i \in 0 .. size - 1 : m.memory.bytes[i] = ByteAfter(n, i)
    <2>1. MemorySoFar(m.memory, k, n)
      BY DEF k
    <2>2. QED
      BY <1>1, <2>1 DEF MemorySoFar
  <1>3. ASSUME NEW i
        PROVE  ByteAfter(n, i) =
                 LET segments == Covering(Collected("data"), DataSize, i)
                     last == Collected("data")[Max(segments)]
                 IN IF segments # {} THEN last.bytes[i - Initial(last.init).value + 1]
                    ELSE IF Imported("memory") # <<>> THEN Imported("memory")[1].host.bytes[i]
                    ELSE 0
    <2>1. DatasOver(n, i) = Covering(Collected("data"), DataSize, i)
      BY SegmentsAfterAll
    <2>2. QED
      BY <2>1, Zenon DEF ByteAfter
  <1>4. QED
    BY <1>2, <1>3, Zenon DEF MemoryAgrees, size

LEMMA ExportsDo ==
  ASSUME LoaderInv, Good,
         FunctionsSoFar(m, Len(Imported("func")), Len(Collected("func")), Len(Collected("code"))),
         ExportsSoFar(m.exports, Len(Collected("export")))
  PROVE  ExportsAgree
  <1> DEFINE k == Len(Imported("func"))
             n == Len(Collected("func"))
             count == Len(Collected("export"))
  <1>1. /\ k \in Nat /\ n \in Nat /\ Len(Collected("code")) = n
        /\ count \in Nat /\ DOMAIN Collected("export") = 1 .. count
        /\ \A e \in 1 .. count : Collected("export")[e] \in ToSet(Collected("export"))
    BY CollectedIsSequence, ImportedIs DEF Rank, Good, Valid
  <1>2. /\ DOMAIN m.exports = 1 .. count /\ Len(m.exports) = count
        /\ \A e \in 1 .. count :
             /\ m.exports[e].export_name = Collected("export")[e].name
             /\ m.exports[e].value = [kind |-> Collected("export")[e].kind,
                                      index |-> Collected("export")[e].index]
    BY <1>1 DEF ExportsSoFar
  <1>3. ASSUME NEW e \in 1 .. count, Collected("export")[e].kind = "func",
               Collected("export")[e].index >= ImportedFunctions
        PROVE  At(m.functions, Collected("export")[e].index).code # "none"
    <2> DEFINE index == Collected("export")[e].index
    <2>1. index \in 0 .. k + n - 1
      BY <1>1, <1>3 DEF Good, Valid, Declared
    <2>2. index >= k
      BY <1>3 DEF ImportedFunctions
    <2> HIDE DEF index, k, n
    <2>3. PICK f \in 1 .. n : f = index + 1 - k /\ index + 1 = k + f
      BY <1>1, <2>1, <2>2
    <2>4. HasCode(m.functions[k + f], Collected("code")[f])
      <3>1. f <= Len(Collected("code"))
        BY <1>1
      <3>2. QED
        BY <3>1 DEF FunctionsSoFar, k, n
    <2>5. CodeAssumption(Collected("code")[f])
      BY <1>1, ItemsAre DEF Rank
    <2>6. m.functions[index + 1].code # "none"
      BY <2>3, <2>4, <2>5 DEF HasCode, CodeAssumption
    <2>7. QED
      BY <2>6 DEF At, index
  <1>4. QED
    BY <1>2, <1>3 DEF ExportsAgree

LEMMA AllRead ==
  ASSUME LoaderInv, BuildInv, Good, status = "loaded" \/ started > 0
  PROVE  Instantiated
  <1>1. pos.section > Len(binary) /\ SoFar
    BY DEF BuildInv, Placed
  <1>2. \A id \in DOMAIN Rank : Read(id) = Len(Collected(id))
    BY <1>1, ReadAll
  <1>3. /\ Counters \subseteq DOMAIN Rank
        /\ \A id \in Counters : Read(id) = Len(Collected(id))
    BY <1>2, CountersRanked
  <1>4. \A kind : ReadOf(kind) = Len(Imported(kind))
    BY <1>3, ReadOfAll DEF Counters
  <1>5. /\ GlobalsSoFar(m.globals, Len(Imported("global")), Len(Collected("global")))
        /\ FunctionsSoFar(m, Len(Imported("func")), Len(Collected("func")), Len(Collected("code")))
        /\ TableSoFar(m.table, Len(Imported("table")) + Len(Collected("table")),
                      Len(Collected("elem")))
        /\ MemorySoFar(m.memory, Len(Imported("memory")) + Len(Collected("mem")),
                       Len(Collected("data")))
        /\ ExportsSoFar(m.exports, Len(Collected("export")))
    BY <1>1, <1>3, <1>4 DEF SoFar, Counters
  <1>6. QED
    BY <1>5, FunctionsDo, GlobalsDo, TableDoes, MemoryDoes, ExportsDo DEF Instantiated

(* At every section, the parts of the module under construction are what   *)
(* the items read so far say (module.c:305-917).                           *)
THEOREM BuildInvariant == Spec => [](LoaderInv /\ BuildInv)
  <1>1. Init => BuildInv
    BY BuildInit
  <1>2. LoaderInv /\ BuildInv /\ [Next]_vars => BuildInv'
    BY BuildNext
  <1>3. QED
    BY <1>1, <1>2, InvInit, InvNext, PTL DEF Spec

(* A module that WebAssembly calls valid, whose imports match and whose    *)
(* segments fit, never makes load_module write outside what it allocated   *)
(* nor stop for another reason than what it does not implement or what     *)
(* runs (module.c:309-957).                                                *)
THEOREM ValidModulesAreAccepted == Spec => []ValidIsAccepted
  <1>1. LoaderInv /\ BuildInv => ValidIsAccepted
    BY DEF BuildInv, Good, Accepted, ValidIsAccepted
  <1>2. QED
    BY <1>1, BuildInvariant, PTL

(* What load_module builds section by section is the instance that         *)
(* WebAssembly reads off the binary as a whole, for every binary.          *)
THEOREM InstancesAreAsSpecified == Spec => []InstanceAsSpecified
  <1>1. LoaderInv /\ BuildInv => InstanceAsSpecified
    BY AllRead DEF Good, InstanceAsSpecified
  <1>2. QED
    BY <1>1, BuildInvariant, PTL

(* The start function runs once and on the whole instance (module.c:934).  *)
THEOREM StartRunsOnTheInstance == Spec => []StartSeesInstance
  <1>1. LoaderInv /\ BuildInv => StartSeesInstance
    <2> SUFFICES ASSUME LoaderInv, BuildInv, started > 0, Good
                 PROVE  started = 1 /\ Instantiated
      BY DEF StartSeesInstance, Good
    <2>1. started = 1
      BY DEF LoaderInv, Ending
    <2>2. QED
      BY <2>1, AllRead
  <1>2. QED
    BY <1>1, BuildInvariant, PTL

=============================================================================
