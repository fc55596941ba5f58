--------------------------- MODULE GrouperProofs ---------------------------
(***************************************************************************)
(* Proofs about Grouper for all lists of statements: its type invariant;   *)
(* that no section type is made twice and every item is in its section, in *)
(* the order of the source, or reported; that a symbol points at an item   *)
(* that defines it, and carries what the last directive about it said.     *)
(***************************************************************************)
EXTENDS Grouper, FiniteSetTheorems, TLAPS

\* A statement is of the syntactic category its kind says.
LEMMA StatementByKind ==
  ASSUME NEW s \in Statement
  PROVE  /\ s.kind = "INSTR"   => s \in Instruction
         /\ s.kind = "LABEL"   => s \in Label
         /\ s.kind = "DATA"    => s \in DataDirective
         /\ s.kind = "SECTION" => s \in SectionDirective
         /\ s.kind = "EQU"     => s \in EquDirective
         /\ s.kind = "GLOBAL"  => s \in GlobalDirective
BY DEF Statement, Item, Instruction, Label, DataDirective, SectionDirective,
       EquDirective, GlobalDirective

\* The symbol that operator[] inserts is well formed.
LEMMA DefaultSymbolType == DefaultSymbol \in Symbol
BY WordAssumption DEF DefaultSymbol, Symbol, Word

\* A section that has just been made is well formed.
LEMMA NewSectionType ==
  ASSUME NEW type \in SectionType
  PROVE  NewSection(type) \in Section
<1>1. <<>> \in Seq(Item)
  OBVIOUS
<1>2. 0 \in Word
  BY WordAssumption DEF Word
<1>. QED
  BY <1>1, <1>2 DEF NewSection, Section

\* Looking up a name in a symbol table gives a symbol.
LEMMA GetOrCreateSymbolType ==
  ASSUME IsSymbolTable(symbols), NEW n \in Name
  PROVE  getOrCreateSymbol(n) \in Symbol
BY DefaultSymbolType DEF IsSymbolTable, getOrCreateSymbol

\* Setting one symbol keeps a symbol table a symbol table.
LEMMA WithSymbolType ==
  ASSUME IsSymbolTable(symbols), NEW n \in Name, NEW symbol \in Symbol
  PROVE  IsSymbolTable(WithSymbol(n, symbol))
<1>1. PICK D \in SUBSET Name : symbols \in [D -> Symbol]
  BY DEF IsSymbolTable
<1>2. WithSymbol(n, symbol) \in [D \cup {n} -> Symbol]
  BY <1>1 DEF WithSymbol
<1>. QED
  BY <1>2 DEF IsSymbolTable

\* The statements that group() is given.
Given == flat \in Seq(Statement)

LEMMA InitGiven == Init => Given /\ InitProgress
BY FlatProgramsAssumption DEF Init, Given

\* Every statement list starts in a well-formed state.
LEMMA TypeInit == Given /\ InitProgress => TypeOK
<1>. SUFFICES ASSUME Given, InitProgress PROVE TypeOK
  OBVIOUS
<1>1. flat \in Seq(Statement)
  BY DEF Given
<1>2. sections \in Seq(Section) /\ errors \in Seq(1 .. Len(flat))
  BY DEF InitProgress
<1>3. IsSymbolTable(symbols)
  <2>1. symbols \in [{} -> Symbol]
    BY DEF InitProgress
  <2>. QED
    BY <2>1 DEF IsSymbolTable
<1>. QED
  BY <1>1, <1>2, <1>3 DEF InitProgress, TypeOK

\* What every handler does besides its own effects.
LEMMA VisitFacts ==
  ASSUME TypeOK, NEW kind, Visit(kind)
  PROVE  /\ stmt \in Statement /\ stmt.kind = kind
         /\ next \in 1 .. Len(flat)
         /\ flat' = flat /\ next' \in 1 .. Len(flat) + 1
<1>1. Len(flat) \in Nat
  BY DEF TypeOK
<1>. QED
  BY <1>1 DEF TypeOK, Visit, stmt

\* A section with one more item is a section.
LEMMA SectionAppend ==
  ASSUME NEW s \in Section, NEW it \in Item
  PROVE  [s EXCEPT !.items = Append(@, it)] \in Section
<1>1. s.items \in Seq(Item)
  BY DEF Section
<1>2. Append(s.items, it) \in Seq(Item)
  BY <1>1
<1>. QED
  BY <1>2 DEF Section

\* Appending an item to the current section keeps the sections well formed.
LEMMA AppendItemType ==
  ASSUME TypeOK, current # 0, NEW it \in Item, AppendItem(it)
  PROVE  /\ current \in DOMAIN sections
         /\ sections' \in Seq(Section) /\ Len(sections') = Len(sections)
<1>1. current \in DOMAIN sections
  BY DEF TypeOK
<1>2. sections[current] \in Section
  BY <1>1 DEF TypeOK
<1>3. [sections[current] EXCEPT !.items = Append(@, it)] \in Section
  BY <1>2, SectionAppend
<1>. QED
  BY <1>1, <1>3 DEF TypeOK, AppendItem

\* The symbol of the item about to be appended is well formed.
LEMMA PlacedHereType ==
  ASSUME TypeOK, current # 0, NEW symbol \in Symbol
  PROVE  PlacedHere(symbol) \in Symbol
<1>1. current \in Nat \ {0} /\ current \in DOMAIN sections
  BY DEF TypeOK
<1>2. Len(sections[current].items) \in Nat
  BY <1>1 DEF TypeOK, Section
<1>. DEFINE index == Len(sections[current].items) + 1
<1>3. index \in Nat \ {0}
  BY <1>2
<1>. HIDE DEF index
<1>4. [symbol EXCEPT !.kind = "LABEL", !.sectionIndex = current,
                     !.statementIndex = index] \in Symbol
  BY <1>1, <1>3 DEF Symbol
<1>. QED
  BY <1>4 DEF PlacedHere, index

\* Every handler keeps the state well formed.
LEMMA TypeStep == TypeOK /\ [Next]_vars => TypeOK'
<1>. SUFFICES ASSUME TypeOK, [Next]_vars PROVE TypeOK'
  OBVIOUS
<1>. USE DEF TypeOK
<1>1. CASE handleSectionDirective
  <2>1. /\ stmt \in SectionDirective
        /\ next \in 1 .. Len(flat) /\ flat' = flat /\ next' \in 1 .. Len(flat) + 1
    BY <1>1, VisitFacts, StatementByKind DEF handleSectionDirective
  <2>2. stmt.type \in SectionType
    BY <2>1 DEF SectionDirective
  <2>3. sections' \in Seq(Section) /\ current' \in 0 .. Len(sections')
    <3>1. CASE current' \in IndicesOfType(stmt.type) /\ UNCHANGED sections
      BY <3>1 DEF IndicesOfType
    <3>2. CASE /\ sections' = Append(sections, NewSection(stmt.type))
               /\ current' = Len(sections) + 1
      BY <3>2, <2>2, NewSectionType
    <3>. QED
      BY <1>1, <3>1, <3>2 DEF handleSectionDirective
  <2>4. UNCHANGED <<symbols, errors>>
    BY <1>1 DEF handleSectionDirective
  <2>. QED
    BY <2>1, <2>3, <2>4 DEF IsSymbolTable
<1>2. CASE handleInstruction
  <2>1. /\ stmt \in Item
        /\ next \in 1 .. Len(flat) /\ flat' = flat /\ next' \in 1 .. Len(flat) + 1
    BY <1>2, VisitFacts, StatementByKind DEF handleInstruction, Item
  <2>2. sections' \in Seq(Section) /\ Len(sections') = Len(sections)
    BY <1>2, <2>1, AppendItemType DEF handleInstruction
  <2>3. UNCHANGED <<current, symbols, errors>>
    BY <1>2 DEF handleInstruction
  <2>. QED
    BY <2>1, <2>2, <2>3 DEF IsSymbolTable
<1>3. CASE handleLabel
  <2>1. /\ stmt \in Label /\ stmt \in Item
        /\ next \in 1 .. Len(flat) /\ flat' = flat /\ next' \in 1 .. Len(flat) + 1
    BY <1>3, VisitFacts, StatementByKind DEF handleLabel, Item
  <2>2. sections' \in Seq(Section) /\ Len(sections') = Len(sections)
    BY <1>3, <2>1, AppendItemType DEF handleLabel
  <2>3. stmt.label \in Name
    BY <2>1 DEF Label
  <2>4. PlacedHere(getOrCreateSymbol(stmt.label)) \in Symbol
    BY <1>3, <2>3, GetOrCreateSymbolType, PlacedHereType DEF handleLabel
  <2>5. IsSymbolTable(symbols')
    BY <1>3, <2>3, <2>4, WithSymbolType DEF handleLabel
  <2>6. UNCHANGED <<current, errors>>
    BY <1>3 DEF handleLabel
  <2>. QED
    BY <2>1, <2>2, <2>5, <2>6 DEF IsSymbolTable
<1>4. CASE handleDataDirective
  <2>1. /\ stmt \in DataDirective /\ stmt \in Item
        /\ next \in 1 .. Len(flat) /\ flat' = flat /\ next' \in 1 .. Len(flat) + 1
    BY <1>4, VisitFacts, StatementByKind DEF handleDataDirective, Item
  <2>2. sections' \in Seq(Section) /\ Len(sections') = Len(sections)
    BY <1>4, <2>1, AppendItemType DEF handleDataDirective
  <2>3. stmt.label \in OptionalName
    BY <2>1 DEF DataDirective
  <2>4. CASE stmt.label = NoName
    <3>1. symbols' = symbols
      BY <1>4, <2>4 DEF handleDataDirective
    <3>. QED
      BY <1>4, <2>1, <2>2, <3>1 DEF handleDataDirective, IsSymbolTable
  <2>5. CASE stmt.label # NoName
    <3>1. stmt.label \in Name
      BY <2>3, <2>5 DEF OptionalName
    <3>2. PlacedHere(getOrCreateSymbol(stmt.label)) \in Symbol
      BY <1>4, <3>1, GetOrCreateSymbolType, PlacedHereType DEF handleDataDirective
    <3>3. IsSymbolTable(symbols')
      BY <1>4, <2>5, <3>1, <3>2, WithSymbolType DEF handleDataDirective
    <3>. QED
      BY <1>4, <2>1, <2>2, <3>3 DEF handleDataDirective, IsSymbolTable
  <2>. QED
    BY <2>4, <2>5
<1>5. CASE OutsideAnySection
  <2>1. next \in 1 .. Len(flat) /\ flat' = flat /\ next' \in 1 .. Len(flat) + 1
    BY <1>5, VisitFacts DEF OutsideAnySection
  <2>2. errors' \in Seq(1 .. Len(flat))
    BY <1>5, <2>1 DEF OutsideAnySection
  <2>3. UNCHANGED <<current, sections, symbols>>
    BY <1>5 DEF OutsideAnySection
  <2>. QED
    BY <2>1, <2>2, <2>3 DEF IsSymbolTable
<1>6. CASE handleEquDirective
  <2>1. /\ stmt \in EquDirective
        /\ next \in 1 .. Len(flat) /\ flat' = flat /\ next' \in 1 .. Len(flat) + 1
    BY <1>6, VisitFacts, StatementByKind DEF handleEquDirective
  <2>2. stmt.name \in Name /\ stmt.value \in Int
    BY <2>1 DEF EquDirective
  <2>3. [getOrCreateSymbol(stmt.name) EXCEPT !.kind = "EQU", !.value = stmt.value]
          \in Symbol
    BY <2>2, GetOrCreateSymbolType DEF Symbol
  <2>4. IsSymbolTable(symbols')
    BY <1>6, <2>2, <2>3, WithSymbolType DEF handleEquDirective
  <2>5. UNCHANGED <<current, sections, errors>>
    BY <1>6 DEF handleEquDirective
  <2>. QED
    BY <2>1, <2>4, <2>5 DEF IsSymbolTable
<1>7. CASE handleGlobalDirective
  <2>1. /\ stmt \in GlobalDirective
        /\ next \in 1 .. Len(flat) /\ flat' = flat /\ next' \in 1 .. Len(flat) + 1
    BY <1>7, VisitFacts, StatementByKind DEF handleGlobalDirective
  <2>2. stmt.name \in Name
    BY <2>1 DEF GlobalDirective
  <2>3. [getOrCreateSymbol(stmt.name) EXCEPT !.isGlobal = TRUE] \in Symbol
    BY <2>2, GetOrCreateSymbolType DEF Symbol
  <2>4. IsSymbolTable(symbols')
    BY <1>7, <2>2, <2>3, WithSymbolType DEF handleGlobalDirective
  <2>5. UNCHANGED <<current, sections, errors>>
    BY <1>7 DEF handleGlobalDirective
  <2>. QED
    BY <2>1, <2>4, <2>5 DEF IsSymbolTable
<1>8. CASE UNCHANGED vars
  BY <1>8 DEF vars, IsSymbolTable
<1>. QED
  BY <1>1, <1>2, <1>3, <1>4, <1>5, <1>6, <1>7, <1>8
     DEF Next, processStatement, Finished

\* Grouping keeps its state well formed: above all, the current section and the
\* section of every item exist, so that neither is used out of range.
THEOREM TypeCorrect == Spec => []TypeOK
BY InitGiven, TypeInit, TypeStep, PTL DEF Spec

-----------------------------------------------------------------------------
(* Sections are merged by type *)

\* Appending to the items of a section changes neither the number nor the types
\* of the sections.
LEMMA AppendItemKeepsTypes ==
  ASSUME TypeOK, current # 0, NEW it \in Item, AppendItem(it), OneSectionPerType
  PROVE  OneSectionPerType'
<1>1. /\ DOMAIN sections' = DOMAIN sections
      /\ \A s \in DOMAIN sections : sections'[s].type = sections[s].type
  <2>1. \A s \in DOMAIN sections : sections[s] \in Section
    BY DEF TypeOK
  <2>. QED
    BY <2>1 DEF AppendItem, Section
<1>. QED
  BY <1>1 DEF OneSectionPerType

LEMMA OneSectionStep ==
  TypeOK /\ OneSectionPerType /\ [Next]_vars => OneSectionPerType'
<1>. SUFFICES ASSUME TypeOK, OneSectionPerType, [Next]_vars
              PROVE  OneSectionPerType'
  OBVIOUS
<1>1. CASE handleSectionDirective
  <2>1. CASE UNCHANGED sections
    BY <2>1 DEF OneSectionPerType
  <2>2. CASE /\ IndicesOfType(stmt.type) = {}
             /\ sections' = Append(sections, NewSection(stmt.type))
    <3>1. \A s \in DOMAIN sections : sections[s].type # stmt.type
      BY <2>2 DEF IndicesOfType
    <3>2. NewSection(stmt.type).type = stmt.type
      BY DEF NewSection
    <3>3. sections \in Seq(Section)
      BY DEF TypeOK
    <3>. QED
      BY <2>2, <3>1, <3>2, <3>3 DEF OneSectionPerType
  <2>. QED
    BY <1>1, <2>1, <2>2 DEF handleSectionDirective
<1>2. CASE handleInstruction
  <2>1. stmt \in Item
    BY <1>2, VisitFacts, StatementByKind DEF handleInstruction, Item
  <2>. QED
    BY <1>2, <2>1, AppendItemKeepsTypes DEF handleInstruction
<1>3. CASE handleLabel
  <2>1. stmt \in Item
    BY <1>3, VisitFacts, StatementByKind DEF handleLabel, Item
  <2>. QED
    BY <1>3, <2>1, AppendItemKeepsTypes DEF handleLabel
<1>4. CASE handleDataDirective
  <2>1. stmt \in Item
    BY <1>4, VisitFacts, StatementByKind DEF handleDataDirective, Item
  <2>. QED
    BY <1>4, <2>1, AppendItemKeepsTypes DEF handleDataDirective
<1>5. CASE UNCHANGED sections
  BY <1>5 DEF OneSectionPerType
<1>. QED
  BY <1>1, <1>2, <1>3, <1>4, <1>5
     DEF Next, processStatement, Finished, vars, OutsideAnySection,
         handleEquDirective, handleGlobalDirective

\* However section directives are repeated and mixed, there is at most one
\* section of each type.
THEOREM SectionsMerged == Spec => []OneSectionPerType
<1>1. InitProgress => OneSectionPerType
  BY DEF InitProgress, OneSectionPerType
<1>. QED
  BY <1>1, InitGiven, TypeCorrect, OneSectionStep, PTL DEF Spec

-----------------------------------------------------------------------------
(* Symbols point at their definitions *)

\* Symbol n refers to an item that defines n.
PointsAtDefinition(n) ==
  /\ n \in DOMAIN symbols
  /\ symbols[n].sectionIndex \in DOMAIN sections
  /\ symbols[n].statementIndex
       \in DOMAIN sections[symbols[n].sectionIndex].items
  /\ LabelOf(sections[symbols[n].sectionIndex].items[symbols[n].statementIndex])
       = n

\* Appending an item leaves every earlier item where it was.
LEMMA AppendItemKeepsItems ==
  ASSUME TypeOK, current # 0, NEW it \in Item, AppendItem(it)
  PROVE  /\ current \in DOMAIN sections /\ DOMAIN sections' = DOMAIN sections
         /\ sections'[current].items = Append(sections[current].items, it)
         /\ Len(sections[current].items) \in Nat
         /\ \A s \in DOMAIN sections :
              /\ sections[s].items \in Seq(Item)
              /\ DOMAIN sections[s].items \subseteq DOMAIN sections'[s].items
              /\ \A i \in DOMAIN sections[s].items :
                   sections'[s].items[i] = sections[s].items[i]
              /\ s # current => sections'[s].items = sections[s].items
<1>1. current \in DOMAIN sections
  BY DEF TypeOK
<1>2. ASSUME NEW s \in DOMAIN sections PROVE sections[s].items \in Seq(Item)
  <2>1. sections[s] \in Section
    BY DEF TypeOK
  <2>. QED
    BY <2>1 DEF Section
<1>3. DOMAIN sections' = DOMAIN sections
  BY DEF AppendItem
<1>4. sections'[current].items = Append(sections[current].items, it)
  <2>1. sections[current] \in Section
    BY <1>1 DEF TypeOK
  <2>. QED
    BY <1>1, <2>1 DEF AppendItem, Section
<1>5. \A s \in DOMAIN sections : s # current => sections'[s] = sections[s]
  BY DEF AppendItem
<1>. DEFINE old == sections[current].items
<1>6. old \in Seq(Item)
  BY <1>1, <1>2
<1>. HIDE DEF old
<1>7. /\ DOMAIN old \subseteq DOMAIN Append(old, it)
      /\ \A i \in DOMAIN old : Append(old, it)[i] = old[i]
      /\ Len(old) \in Nat
  BY <1>6
<1>8. /\ DOMAIN sections[current].items \subseteq DOMAIN sections'[current].items
      /\ \A i \in DOMAIN sections[current].items :
           sections'[current].items[i] = sections[current].items[i]
      /\ Len(sections[current].items) \in Nat
  BY <1>4, <1>7 DEF old
<1>. QED
  BY <1>1, <1>2, <1>3, <1>4, <1>5, <1>8

\* An item that defines no m does not change whether m has a definition, and
\* keeps every reference to one valid.
LEMMA OtherDefinitions ==
  ASSUME TypeOK, current # 0, NEW it \in Item, AppendItem(it),
         NEW m \in Name, LabelOf(it) # m
  PROVE  /\ HasDefinition(m)' => HasDefinition(m)
         /\ PointsAtDefinition(m) /\ m \in DOMAIN symbols'
              /\ symbols'[m].sectionIndex = symbols[m].sectionIndex
              /\ symbols'[m].statementIndex = symbols[m].statementIndex
            => PointsAtDefinition(m)'
<1>1. HasDefinition(m)' => HasDefinition(m)
  <2>1. SUFFICES ASSUME NEW s \in DOMAIN sections',
                        NEW i \in DOMAIN sections'[s].items,
                        LabelOf(sections'[s].items[i]) = m
                 PROVE  HasDefinition(m)
    BY DEF HasDefinition
  <2>2. s \in DOMAIN sections
    BY AppendItemKeepsItems
  <2>3. CASE s # current
    BY <2>1, <2>2, <2>3, AppendItemKeepsItems DEF HasDefinition
  <2>4. CASE s = current
    <3>. DEFINE old == sections[current].items
    <3>1. old \in Seq(Item) /\ sections'[s].items = Append(old, it)
      BY <2>2, <2>4, AppendItemKeepsItems
    <3>2. (i \in DOMAIN old /\ old[i] = Append(old, it)[i]) \/ Append(old, it)[i] = it
      <4>. HIDE DEF old
      <4>. QED
        BY <3>1
    <3>3. i \in DOMAIN old /\ LabelOf(old[i]) = m
      BY <2>1, <3>1, <3>2
    <3>. QED
      BY <2>2, <2>4, <3>3 DEF HasDefinition
  <2>. QED
    BY <2>3, <2>4
<1>2. ASSUME PointsAtDefinition(m), m \in DOMAIN symbols',
             symbols'[m].sectionIndex = symbols[m].sectionIndex,
             symbols'[m].statementIndex = symbols[m].statementIndex
      PROVE  PointsAtDefinition(m)'
  BY <1>2, AppendItemKeepsItems DEF PointsAtDefinition
<1>. QED
  BY <1>1, <1>2

\* The item just appended is where its symbol says.
LEMMA NewDefinition ==
  ASSUME TypeOK, current # 0, NEW it \in Item, AppendItem(it),
         NEW n \in Name, LabelOf(it) = n,
         symbols' = WithSymbol(n, PlacedHere(getOrCreateSymbol(n)))
  PROVE  PointsAtDefinition(n)'
<1>. DEFINE old == sections[current].items
<1>1. /\ current \in DOMAIN sections' /\ old \in Seq(Item)
      /\ sections'[current].items = Append(old, it)
  BY AppendItemKeepsItems
<1>2. Len(old) + 1 \in DOMAIN Append(old, it) /\ Append(old, it)[Len(old) + 1] = it
  <2>. HIDE DEF old
  <2>. QED
    BY <1>1
<1>3. n \in DOMAIN symbols' /\ symbols'[n] = PlacedHere(getOrCreateSymbol(n))
  BY DEF WithSymbol
<1>4. getOrCreateSymbol(n) \in Symbol
  BY GetOrCreateSymbolType DEF TypeOK
<1>5. /\ symbols'[n].sectionIndex = current
      /\ symbols'[n].statementIndex = Len(old) + 1
  BY <1>3, <1>4 DEF PlacedHere, Symbol
<1>. QED
  BY <1>1, <1>2, <1>3, <1>5 DEF PointsAtDefinition

\* Setting parts of a symbol other than its place keeps it pointing at its item.
LEMMA SamePlaces ==
  ASSUME TypeOK, SymbolPointsAtDefinition, UNCHANGED sections,
         NEW n \in Name, NEW symbol, symbols' = WithSymbol(n, symbol),
         symbol.sectionIndex = getOrCreateSymbol(n).sectionIndex,
         symbol.statementIndex = getOrCreateSymbol(n).statementIndex
  PROVE  SymbolPointsAtDefinition'
<1>1. SUFFICES ASSUME NEW m \in Name, HasDefinition(m)'
               PROVE  PointsAtDefinition(m)'
  BY DEF SymbolPointsAtDefinition, PointsAtDefinition
<1>2. HasDefinition(m)
  BY <1>1 DEF HasDefinition
<1>3. PointsAtDefinition(m)
  BY <1>2 DEF SymbolPointsAtDefinition, PointsAtDefinition
<1>4. /\ m \in DOMAIN symbols'
      /\ symbols'[m].sectionIndex = symbols[m].sectionIndex
      /\ symbols'[m].statementIndex = symbols[m].statementIndex
  BY <1>3 DEF PointsAtDefinition, WithSymbol, getOrCreateSymbol
<1>. QED
  BY <1>3, <1>4 DEF PointsAtDefinition

LEMMA SymbolPointsStep ==
  TypeOK /\ SymbolPointsAtDefinition /\ [Next]_vars => SymbolPointsAtDefinition'
<1>. SUFFICES ASSUME TypeOK, SymbolPointsAtDefinition, [Next]_vars
              PROVE  SymbolPointsAtDefinition'
  OBVIOUS
<1>0. ASSUME NEW m \in Name, HasDefinition(m) PROVE PointsAtDefinition(m)
  BY <1>0 DEF SymbolPointsAtDefinition, PointsAtDefinition
<1>00. SUFFICES ASSUME NEW m \in Name, HasDefinition(m)'
                PROVE  PointsAtDefinition(m)'
  BY DEF SymbolPointsAtDefinition, PointsAtDefinition
<1>1. ASSUME NEW it \in Item, current # 0, AppendItem(it),
             LabelOf(it) = NoName, symbols' = symbols
      PROVE  PointsAtDefinition(m)'
  <2>1. LabelOf(it) # m
    BY <1>1, NameAssumption
  <2>2. PointsAtDefinition(m)
    BY <1>0, <1>00, <1>1, <2>1, OtherDefinitions
  <2>. QED
    BY <1>1, <2>1, <2>2, OtherDefinitions DEF PointsAtDefinition
<1>2. ASSUME NEW it \in Item, current # 0, AppendItem(it), LabelOf(it) \in Name,
             symbols' = WithSymbol(LabelOf(it), PlacedHere(getOrCreateSymbol(LabelOf(it))))
      PROVE  PointsAtDefinition(m)'
  <2>1. CASE LabelOf(it) = m
    BY <1>2, <2>1, NewDefinition
  <2>2. CASE LabelOf(it) # m
    <3>1. PointsAtDefinition(m)
      BY <1>0, <1>00, <1>2, <2>2, OtherDefinitions
    <3>2. m \in DOMAIN symbols' /\ symbols'[m] = symbols[m]
      BY <1>2, <2>2, <3>1 DEF WithSymbol, PointsAtDefinition
    <3>. QED
      BY <1>2, <2>2, <3>1, <3>2, OtherDefinitions
  <2>. QED
    BY <2>1, <2>2
<1>3. CASE handleSectionDirective
  <2>1. /\ DOMAIN sections \subseteq DOMAIN sections'
        /\ \A s \in DOMAIN sections : sections'[s] = sections[s]
        /\ \A s \in DOMAIN sections' \ DOMAIN sections : sections'[s].items = <<>>
    <3>1. CASE UNCHANGED sections
      BY <3>1
    <3>2. CASE sections' = Append(sections, NewSection(stmt.type))
      <4>1. sections \in Seq(Section) /\ NewSection(stmt.type).items = <<>>
        BY DEF TypeOK, NewSection
      <4>. QED
        BY <3>2, <4>1
    <3>. QED
      BY <1>3, <3>1, <3>2 DEF handleSectionDirective
  <2>2. HasDefinition(m)
    BY <1>00, <2>1 DEF HasDefinition
  <2>3. symbols' = symbols
    BY <1>3 DEF handleSectionDirective
  <2>. QED
    BY <1>0, <2>1, <2>2, <2>3 DEF PointsAtDefinition
<1>4. CASE handleInstruction
  <2>1. stmt \in Item /\ LabelOf(stmt) = NoName
    BY <1>4, VisitFacts, StatementByKind DEF handleInstruction, Item, LabelOf
  <2>. QED
    BY <1>1, <1>4, <2>1 DEF handleInstruction
<1>5. CASE handleLabel
  <2>1. stmt \in Item /\ stmt \in Label /\ LabelOf(stmt) = stmt.label
    BY <1>5, VisitFacts, StatementByKind DEF handleLabel, Item, LabelOf
  <2>2. stmt.label \in Name
    BY <2>1 DEF Label
  <2>. QED
    BY <1>2, <1>5, <2>1, <2>2 DEF handleLabel
<1>6. CASE handleDataDirective
  <2>1. stmt \in Item /\ stmt \in DataDirective /\ LabelOf(stmt) = stmt.label
    BY <1>6, VisitFacts, StatementByKind DEF handleDataDirective, Item, LabelOf
  <2>2. stmt.label \in Name \/ stmt.label = NoName
    BY <2>1 DEF DataDirective, OptionalName
  <2>3. CASE stmt.label = NoName
    BY <1>1, <1>6, <2>1, <2>3 DEF handleDataDirective
  <2>4. CASE stmt.label # NoName
    BY <1>2, <1>6, <2>1, <2>2, <2>4 DEF handleDataDirective
  <2>. QED
    BY <2>3, <2>4
<1>7. CASE handleEquDirective
  <2>1. stmt.name \in Name
    BY <1>7, VisitFacts, StatementByKind DEF handleEquDirective, EquDirective
  <2>2. getOrCreateSymbol(stmt.name) \in Symbol
    BY <2>1, GetOrCreateSymbolType DEF TypeOK
  <2>3. SymbolPointsAtDefinition'
    BY <1>7, <2>1, <2>2, SamePlaces DEF handleEquDirective, Symbol
  <2>. QED
    BY <1>00, <2>3 DEF SymbolPointsAtDefinition, PointsAtDefinition
<1>8. CASE handleGlobalDirective
  <2>1. stmt.name \in Name
    BY <1>8, VisitFacts, StatementByKind DEF handleGlobalDirective, GlobalDirective
  <2>2. getOrCreateSymbol(stmt.name) \in Symbol
    BY <2>1, GetOrCreateSymbolType DEF TypeOK
  <2>3. SymbolPointsAtDefinition'
    BY <1>8, <2>1, <2>2, SamePlaces DEF handleGlobalDirective, Symbol
  <2>. QED
    BY <1>00, <2>3 DEF SymbolPointsAtDefinition, PointsAtDefinition
<1>9. CASE UNCHANGED <<sections, symbols>>
  <2>1. HasDefinition(m)
    BY <1>00, <1>9 DEF HasDefinition
  <2>. QED
    BY <1>0, <1>9, <2>1 DEF PointsAtDefinition
<1>. QED
  BY <1>3, <1>4, <1>5, <1>6, <1>7, <1>8, <1>9
     DEF Next, processStatement, Finished, vars, OutsideAnySection

\* A symbol that an item defines refers to an item that defines it, in whatever
\* order labels, equ and global directives for the name come.
THEOREM SymbolsPoint == Spec => []SymbolPointsAtDefinition
<1>1. InitProgress => SymbolPointsAtDefinition
  BY DEF InitProgress, SymbolPointsAtDefinition, HasDefinition
<1>. QED
  BY <1>1, InitGiven, TypeCorrect, SymbolPointsStep, PTL DEF Spec

-----------------------------------------------------------------------------
(* Directives about symbols take effect whatever else the name is used for *)

\* A statement is the last directive of its kind for its name, and leaves the
\* last directives of other kinds and names what they were.
LEMMA LastDirectiveStep ==
  ASSUME TypeOK, NEW visited, Visit(visited), NEW kind, NEW n
  PROVE  /\ stmt.kind = kind /\ stmt.name = n
              => LastDirective(kind, n)' = {next}
         /\ ~(stmt.kind = kind /\ stmt.name = n)
              => LastDirective(kind, n)' = LastDirective(kind, n)
<1>1. next \in Nat \ {0} /\ next' = next + 1 /\ flat' = flat
  BY VisitFacts DEF Visit
<1>. QED
  BY <1>1 DEF LastDirective, stmt

\* Directives about n are recorded.
Recorded(n) ==
  /\ (n \in DOMAIN symbols /\ symbols[n].isGlobal) = (LastDirective("GLOBAL", n) # {})
  /\ \A i \in LastDirective("EQU", n) :
       n \in DOMAIN symbols /\ symbols[n].value = flat[i].value

\* A step that is not a directive about n and keeps the global flag and the
\* value of n, or makes n with those of the default symbol.
LEMMA StillRecorded ==
  ASSUME NEW n \in Name, Recorded(n), flat' = flat,
         LastDirective("GLOBAL", n)' = LastDirective("GLOBAL", n),
         LastDirective("EQU", n)' = LastDirective("EQU", n),
         n \in DOMAIN symbols =>
           /\ n \in DOMAIN symbols'
           /\ symbols'[n].isGlobal = symbols[n].isGlobal
           /\ symbols'[n].value = symbols[n].value,
         n \in DOMAIN symbols' \ DOMAIN symbols => symbols'[n].isGlobal = FALSE
  PROVE  Recorded(n)'
<1>1. (n \in DOMAIN symbols' /\ symbols'[n].isGlobal)
        = (n \in DOMAIN symbols /\ symbols[n].isGlobal)
  OBVIOUS
<1>. QED
  BY <1>1 DEF Recorded

LEMMA DirectivesStep ==
  TypeOK /\ DirectivesRecorded /\ [Next]_vars => DirectivesRecorded'
<1>. SUFFICES ASSUME TypeOK, DirectivesRecorded, [Next]_vars,
                     NEW n \in Name
              PROVE  Recorded(n)'
  BY DEF DirectivesRecorded, Recorded
<1>0. Recorded(n)
  BY DEF DirectivesRecorded, Recorded
<1>. DEFINE Sets(m, symbol) == symbols' = WithSymbol(m, symbol)
\* Labels, in either form, and statements that leave the symbols alone
<1>1. ASSUME NEW kind, Visit(kind), kind \notin {"EQU", "GLOBAL"},
             \/ symbols' = symbols
             \/ \E m \in Name : Sets(m, PlacedHere(getOrCreateSymbol(m)))
      PROVE  Recorded(n)'
  <2>1. /\ LastDirective("GLOBAL", n)' = LastDirective("GLOBAL", n)
        /\ LastDirective("EQU", n)' = LastDirective("EQU", n)
        /\ flat' = flat
    BY <1>1, VisitFacts, LastDirectiveStep
  <2>2. CASE symbols' = symbols
    BY <1>0, <2>1, <2>2, StillRecorded
  <2>3. ASSUME NEW m \in Name, Sets(m, PlacedHere(getOrCreateSymbol(m)))
        PROVE  Recorded(n)'
    <3>1. getOrCreateSymbol(m) \in Symbol
      BY GetOrCreateSymbolType DEF TypeOK
    <3>2. /\ PlacedHere(getOrCreateSymbol(m)).isGlobal = getOrCreateSymbol(m).isGlobal
          /\ PlacedHere(getOrCreateSymbol(m)).value = getOrCreateSymbol(m).value
      BY <3>1 DEF PlacedHere, Symbol
    <3>. QED
      BY <1>0, <2>1, <2>3, <3>2, StillRecorded
         DEF WithSymbol, getOrCreateSymbol, DefaultSymbol
  <2>. QED
    BY <1>1, <2>2, <2>3
<1>2. CASE handleSectionDirective
  BY <1>1, <1>2 DEF handleSectionDirective
<1>3. CASE handleInstruction
  BY <1>1, <1>3 DEF handleInstruction
<1>4. CASE handleLabel
  <2>1. stmt.label \in Name
    BY <1>4, VisitFacts, StatementByKind DEF handleLabel, Label
  <2>. QED
    BY <1>1, <1>4, <2>1 DEF handleLabel
<1>5. CASE handleDataDirective
  <2>1. stmt.label \in Name \/ stmt.label = NoName
    BY <1>5, VisitFacts, StatementByKind
       DEF handleDataDirective, DataDirective, OptionalName
  <2>. QED
    BY <1>1, <1>5, <2>1 DEF handleDataDirective
<1>6. CASE OutsideAnySection
  BY <1>1, <1>6 DEF OutsideAnySection
<1>7. CASE handleEquDirective
  <2>1. Visit("EQU") /\ stmt.name \in Name /\ stmt.kind = "EQU" /\ flat' = flat
    BY <1>7, VisitFacts, StatementByKind DEF handleEquDirective, EquDirective
  <2>2. getOrCreateSymbol(stmt.name) \in Symbol
    BY <2>1, GetOrCreateSymbolType DEF TypeOK
  <2>3. LastDirective("GLOBAL", n)' = LastDirective("GLOBAL", n)
    BY <2>1, LastDirectiveStep
  <2>4. CASE stmt.name = n
    <3>1. LastDirective("EQU", n)' = {next} /\ flat'[next] = stmt
      BY <2>1, <2>4, LastDirectiveStep DEF stmt
    <3>2. /\ n \in DOMAIN symbols' /\ symbols'[n].value = stmt.value
          /\ symbols'[n].isGlobal = getOrCreateSymbol(n).isGlobal
      BY <1>7, <2>2, <2>4 DEF handleEquDirective, WithSymbol, Symbol
    <3>3. (n \in DOMAIN symbols' /\ symbols'[n].isGlobal)
            = (n \in DOMAIN symbols /\ symbols[n].isGlobal)
      BY <3>2 DEF getOrCreateSymbol, DefaultSymbol
    <3>. QED
      BY <1>0, <2>3, <3>1, <3>2, <3>3 DEF Recorded
  <2>5. CASE stmt.name # n
    <3>1. LastDirective("EQU", n)' = LastDirective("EQU", n)
      BY <2>1, <2>5, LastDirectiveStep
    <3>. QED
      BY <1>0, <1>7, <2>1, <2>3, <2>5, <3>1, StillRecorded
         DEF handleEquDirective, WithSymbol
  <2>. QED
    BY <2>4, <2>5
<1>8. CASE handleGlobalDirective
  <2>1. Visit("GLOBAL") /\ stmt.name \in Name /\ stmt.kind = "GLOBAL" /\ flat' = flat
    BY <1>8, VisitFacts, StatementByKind DEF handleGlobalDirective, GlobalDirective
  <2>2. getOrCreateSymbol(stmt.name) \in Symbol
    BY <2>1, GetOrCreateSymbolType DEF TypeOK
  <2>3. LastDirective("EQU", n)' = LastDirective("EQU", n)
    BY <2>1, LastDirectiveStep
  <2>4. CASE stmt.name = n
    <3>1. LastDirective("GLOBAL", n)' = {next}
      BY <2>1, <2>4, LastDirectiveStep
    <3>2. /\ n \in DOMAIN symbols' /\ symbols'[n].isGlobal = TRUE
          /\ symbols'[n].value = getOrCreateSymbol(n).value
      BY <1>8, <2>2, <2>4 DEF handleGlobalDirective, WithSymbol, Symbol
    <3>. QED
      BY <1>0, <2>1, <2>3, <3>1, <3>2 DEF Recorded, getOrCreateSymbol
  <2>5. CASE stmt.name # n
    <3>1. LastDirective("GLOBAL", n)' = LastDirective("GLOBAL", n)
      BY <2>1, <2>5, LastDirectiveStep
    <3>. QED
      BY <1>0, <1>8, <2>1, <2>3, <2>5, <3>1, StillRecorded
         DEF handleGlobalDirective, WithSymbol
  <2>. QED
    BY <2>4, <2>5
<1>9. CASE UNCHANGED vars
  BY <1>0, <1>9 DEF vars, Recorded, LastDirective
<1>. QED
  BY <1>2, <1>3, <1>4, <1>5, <1>6, <1>7, <1>8, <1>9
     DEF Next, processStatement, Finished

\* Which symbols are global, and which value each constant has, is what the
\* directives visited so far say, however labels of the same names interleave.
THEOREM DirectivesTakeEffect == Spec => []DirectivesRecorded
<1>1. InitProgress => DirectivesRecorded
  BY DEF InitProgress, DirectivesRecorded, LastDirective
<1>. QED
  BY <1>1, InitGiven, TypeCorrect, DirectivesStep, PTL DEF Spec

-----------------------------------------------------------------------------
(* Merging keeps the source order, and stray items are reported *)

\* The places of the members of a set of numbers are those of a list as long as
\* the set has members.
LEMMA RankBounds ==
  ASSUME NEW n \in Nat, NEW S \in SUBSET (1 .. n - 1)
  PROVE  /\ Cardinality(S) \in Nat
         /\ \A i \in S : Rank(i, S) \in 1 .. Cardinality(S)
<1>1. IsFiniteSet(S)
  <2>1. IsFiniteSet(1 .. n - 1)
    BY FS_Interval
  <2>. QED
    BY <2>1, FS_Subset
<1>2. Cardinality(S) \in Nat
  BY <1>1, FS_CardinalityType
<1>3. ASSUME NEW i \in S PROVE Rank(i, S) \in 1 .. Cardinality(S)
  <2>. DEFINE upTo == {j \in S : j <= i}
  <2>1. IsFiniteSet(upTo) /\ Cardinality(upTo) <= Cardinality(S)
    BY <1>1, FS_Subset
  <2>2. Cardinality(upTo) \in Nat
    BY <2>1, FS_CardinalityType
  <2>3. upTo # {}
    BY <1>3
  <2>4. Cardinality(upTo) # 0
    BY <2>1, <2>3, FS_EmptySet
  <2>. QED
    BY <1>2, <2>1, <2>2, <2>4 DEF Rank
<1>. QED
  BY <1>2, <1>3

\* A number larger than all members of a set comes after them.
LEMMA RankAppend ==
  ASSUME NEW n \in Nat, NEW S \in SUBSET (1 .. n - 1)
  PROVE  /\ Cardinality(S \cup {n}) = Cardinality(S) + 1
         /\ Rank(n, S \cup {n}) = Cardinality(S) + 1
         /\ \A i \in S : Rank(i, S \cup {n}) = Rank(i, S)
<1>1. IsFiniteSet(S)
  <2>1. IsFiniteSet(1 .. n - 1)
    BY FS_Interval
  <2>. QED
    BY <2>1, FS_Subset
<1>2. n \notin S
  OBVIOUS
<1>3. Cardinality(S \cup {n}) = Cardinality(S) + 1
  BY <1>1, <1>2, FS_AddElement
<1>4. {j \in S \cup {n} : j <= n} = S \cup {n}
  <2>1. \A j \in S \cup {n} : j <= n
    OBVIOUS
  <2>. QED
    BY <2>1, Zenon
<1>5. ASSUME NEW i \in S
      PROVE  {j \in S \cup {n} : j <= i} = {j \in S : j <= i}
  OBVIOUS
<1>. QED
  BY <1>3, <1>4, <1>5 DEF Rank

\* Appending what belongs to the next number lists that number too.
LEMMA ListsAppend ==
  ASSUME NEW n \in Nat, NEW S \in SUBSET (1 .. n - 1), NEW T, NEW list \in Seq(T),
         NEW it \in T, NEW f, Lists(list, S, f), f[n] = it
  PROVE  Lists(Append(list, it), S \cup {n}, f)
<1>1. /\ Len(list) = Cardinality(S)
      /\ \A i \in S : list[Rank(i, S)] = f[i] /\ Rank(i, S) \in 1 .. Len(list)
  BY RankBounds DEF Lists
<1>2. /\ Len(Append(list, it)) = Len(list) + 1
      /\ Append(list, it)[Len(list) + 1] = it
      /\ \A k \in 1 .. Len(list) : Append(list, it)[k] = list[k]
  OBVIOUS
<1>3. \A i \in S : Append(list, it)[Rank(i, S)] = f[i]
  BY <1>1, <1>2
<1>4. /\ Cardinality(S \cup {n}) = Len(list) + 1
      /\ Rank(n, S \cup {n}) = Len(list) + 1
      /\ \A i \in S : Rank(i, S \cup {n}) = Rank(i, S)
  BY <1>1, RankAppend
<1>. QED
  BY <1>2, <1>3, <1>4 DEF Lists

\* The current section is that of the directive in force at the next statement,
\* and every visited directive has its section.
CurrentFollowsDirective ==
  /\ \A i \in 1 .. next : DirectiveOf(i) # 0 =>
       DirectiveOf(i) \in 1 .. i - 1 /\ flat[DirectiveOf(i)].kind = "SECTION"
  /\ \A j \in 1 .. next - 1 : flat[j].kind = "SECTION" =>
       \E s \in DOMAIN sections : sections[s].type = flat[j].type
  /\ (current = 0) = (DirectiveOf(next) = 0)
  /\ current # 0 => sections[current].type = flat[DirectiveOf(next)].type

\* Visiting a statement changes the directive in force only if it is one.
LEMMA DirectiveStep ==
  ASSUME TypeOK, NEW kind, Visit(kind)
  PROVE  /\ \A i \in 1 .. next : DirectiveOf(i)' = DirectiveOf(i)
         /\ kind = "SECTION" => DirectiveOf(next)' = next
         /\ kind # "SECTION" => DirectiveOf(next)' = DirectiveOf(next)
<1>1. /\ next \in Nat \ {0} /\ next' = next + 1 /\ flat' = flat
      /\ flat[next].kind = kind
  BY VisitFacts DEF Visit, stmt
<1>. DEFINE before(i) == {j \in 1 .. i - 1 : flat[j].kind = "SECTION"}
<1>2. \A i \in 1 .. next : DirectiveOf(i)' = DirectiveOf(i)
  BY <1>1 DEF DirectiveOf
<1>3. DirectiveOf(next) = Latest(before(next)) /\ DirectiveOf(next)' = Latest(before(next + 1))
  BY <1>1 DEF DirectiveOf
<1>4. CASE kind = "SECTION"
  <2>1. next \in before(next + 1) /\ \A k \in before(next + 1) : k <= next /\ k \in Nat
    BY <1>1, <1>4
  <2>. HIDE DEF before
  <2>2. \A j \in before(next + 1) : (\A k \in before(next + 1) : k <= j) => j = next
    BY <1>1, <2>1
  <2>3. Latest(before(next + 1)) = CHOOSE j \in before(next + 1) :
                                     \A k \in before(next + 1) : k <= j
    BY <2>1 DEF Latest
  <2>. QED
    BY <1>2, <1>3, <1>4, <2>1, <2>2, <2>3
<1>5. CASE kind # "SECTION"
  <2>1. before(next + 1) = before(next)
    BY <1>1, <1>5
  <2>. QED
    BY <1>2, <1>3, <1>5, <2>1
<1>. QED
  BY <1>4, <1>5

\* The statement visited joins the items of the current section, or the strays.
LEMMA BelongingStep ==
  ASSUME TypeOK, CurrentFollowsDirective, NEW kind, Visit(kind)
  PROVE  /\ \A type : Belonging(type)' =
              IF IsItem(next) /\ current # 0 /\ sections[current].type = type
              THEN Belonging(type) \cup {next} ELSE Belonging(type)
         /\ Strays' =
              IF IsItem(next) /\ current = 0 THEN Strays \cup {next} ELSE Strays
<1>1. /\ next \in Nat \ {0} /\ next' = next + 1 /\ flat' = flat
  BY VisitFacts DEF Visit
<1>2. 1 .. next' - 1 = (1 .. next - 1) \cup {next}
  BY <1>1
<1>3. \A i \in (1 .. next - 1) \cup {next} :
        IsItem(i)' = IsItem(i) /\ DirectiveOf(i)' = DirectiveOf(i)
  BY <1>1, DirectiveStep DEF IsItem
<1>4. /\ (current = 0) = (DirectiveOf(next) = 0)
      /\ current # 0 => sections[current].type = flat[DirectiveOf(next)].type
  BY DEF CurrentFollowsDirective
<1>. QED
  BY <1>1, <1>2, <1>3, <1>4 DEF Belonging, Strays

\* What a step that appends an item does, seen from outside.
ItemStep ==
  \E kind \in {"INSTR", "LABEL", "DATA"} :
    /\ Visit(kind)
    /\ current # 0
    /\ stmt \in Item
    /\ AppendItem(stmt)
    /\ UNCHANGED <<current, errors>>

\* A visit that leaves sections and errors alone.
SymbolStep ==
  \E kind \in {"EQU", "GLOBAL"} :
    Visit(kind) /\ UNCHANGED <<current, sections, errors>>

\* The handlers, as far as sections and errors are concerned.
LEMMA StepKinds ==
  TypeOK /\ [Next]_vars =>
    \/ handleSectionDirective
    \/ ItemStep
    \/ OutsideAnySection
    \/ SymbolStep
    \/ UNCHANGED vars
<1>. SUFFICES ASSUME TypeOK, [Next]_vars
              PROVE  \/ handleSectionDirective \/ ItemStep \/ OutsideAnySection
                     \/ SymbolStep \/ UNCHANGED vars
  OBVIOUS
<1>1. CASE handleInstruction
  BY <1>1, VisitFacts, StatementByKind DEF handleInstruction, Item, ItemStep
<1>2. CASE handleLabel
  BY <1>2, VisitFacts, StatementByKind DEF handleLabel, Item, ItemStep
<1>3. CASE handleDataDirective
  BY <1>3, VisitFacts, StatementByKind DEF handleDataDirective, Item, ItemStep
<1>4. CASE handleEquDirective
  BY <1>4 DEF handleEquDirective, SymbolStep
<1>5. CASE handleGlobalDirective
  BY <1>5 DEF handleGlobalDirective, SymbolStep
<1>. QED
  BY <1>1, <1>2, <1>3, <1>4, <1>5 DEF Next, processStatement, Finished

\* An appended item leaves the types of the sections what they were.
LEMMA ItemStepKeepsTypes ==
  ASSUME TypeOK, current # 0, NEW it \in Item, AppendItem(it)
  PROVE  /\ DOMAIN sections' = DOMAIN sections
         /\ \A s \in DOMAIN sections : sections'[s].type = sections[s].type
<1>1. \A s \in DOMAIN sections : sections[s] \in Section
  BY DEF TypeOK
<1>. QED
  BY <1>1 DEF AppendItem, Section

LEMMA CurrentInit == InitProgress => CurrentFollowsDirective
<1>. SUFFICES ASSUME InitProgress PROVE CurrentFollowsDirective
  OBVIOUS
<1>1. DirectiveOf(1) = 0
  BY DEF DirectiveOf, Latest
<1>. QED
  BY <1>1 DEF InitProgress, CurrentFollowsDirective

LEMMA CurrentStep ==
  TypeOK /\ CurrentFollowsDirective /\ [Next]_vars => CurrentFollowsDirective'
<1>. SUFFICES ASSUME TypeOK, CurrentFollowsDirective, [Next]_vars
              PROVE  CurrentFollowsDirective'
  OBVIOUS
\* Whatever is visited, except that current moves only with a directive
<1>1. ASSUME NEW kind, Visit(kind),
             \A s \in DOMAIN sections : s \in DOMAIN sections' /\ sections'[s].type = sections[s].type,
             IF kind = "SECTION"
             THEN current' \in DOMAIN sections' /\ sections'[current'].type = stmt.type
             ELSE current' = current
      PROVE  CurrentFollowsDirective'
  <2>1. /\ next \in Nat \ {0} /\ next' = next + 1 /\ flat' = flat
        /\ stmt = flat[next] /\ stmt.kind = kind
    BY <1>1, VisitFacts DEF Visit, stmt
  <2>2. /\ 1 .. next' = (1 .. next) \cup {next'}
        /\ 1 .. next' - 1 = (1 .. next - 1) \cup {next}
    BY <2>1
  <2>3. /\ \A i \in 1 .. next : DirectiveOf(i)' = DirectiveOf(i)
        /\ DirectiveOf(next)' = IF kind = "SECTION" THEN next ELSE DirectiveOf(next)
    BY <1>1, DirectiveStep
  <2>. DEFINE D(i) == DirectiveOf(i)
  <2>4. \A i \in 1 .. next : D(i)' # 0 => D(i)' \in 1 .. i - 1 /\ flat'[D(i)'].kind = "SECTION"
    BY <2>1, <2>3 DEF CurrentFollowsDirective
  <2>5. D(next)' # 0 => D(next)' \in 1 .. next' - 1 /\ flat'[D(next)'].kind = "SECTION"
    BY <2>1, <2>3 DEF CurrentFollowsDirective
  <2>6. \A j \in 1 .. next' - 1 : flat'[j].kind = "SECTION" =>
          \E s \in DOMAIN sections' : sections'[s].type = flat'[j].type
    BY <1>1, <2>1, <2>2 DEF CurrentFollowsDirective
  <2>7. /\ (current' = 0) = (D(next)' = 0)
        /\ current' # 0 => sections'[current'].type = flat'[D(next)'].type
    <3>1. CASE kind = "SECTION"
      <4>1. sections' \in Seq(Section)
        BY TypeStep DEF TypeOK
      <4>2. current' # 0
        BY <1>1, <3>1, <4>1
      <4>. QED
        BY <1>1, <2>1, <2>3, <3>1, <4>2
    <3>2. CASE kind # "SECTION"
      <4>1. current \in DOMAIN sections \/ current = 0
        BY DEF TypeOK
      <4>. QED
        BY <1>1, <2>1, <2>3, <3>2, <4>1 DEF CurrentFollowsDirective
    <3>. QED
      BY <3>1, <3>2
  <2>. QED
    BY <2>2, <2>4, <2>5, <2>6, <2>7 DEF CurrentFollowsDirective
<1>2. CASE handleSectionDirective
  <2>1. CASE current' \in IndicesOfType(stmt.type) /\ UNCHANGED sections
    BY <1>1, <1>2, <2>1 DEF handleSectionDirective, IndicesOfType
  <2>2. CASE /\ sections' = Append(sections, NewSection(stmt.type))
             /\ current' = Len(sections) + 1
    <3>1. sections \in Seq(Section) /\ NewSection(stmt.type).type = stmt.type
      BY DEF TypeOK, NewSection
    <3>2. /\ \A s \in DOMAIN sections : s \in DOMAIN sections' /\ sections'[s] = sections[s]
          /\ current' \in DOMAIN sections' /\ sections'[current'] = NewSection(stmt.type)
      BY <2>2, <3>1
    <3>. QED
      BY <1>1, <1>2, <3>1, <3>2 DEF handleSectionDirective
  <2>. QED
    BY <1>2, <2>1, <2>2 DEF handleSectionDirective
<1>3. CASE ItemStep
  BY <1>1, <1>3, ItemStepKeepsTypes DEF ItemStep
<1>4. CASE OutsideAnySection \/ SymbolStep
  BY <1>1, <1>4 DEF OutsideAnySection, SymbolStep
<1>5. CASE UNCHANGED vars
  BY <1>5 DEF vars, CurrentFollowsDirective, DirectiveOf
<1>. QED
  BY <1>2, <1>3, <1>4, <1>5, StepKinds

\* Every position in flat that has been visited is a number below next.
LEMMA VisitedPositions ==
  ASSUME TypeOK
  PROVE  /\ next \in Nat
         /\ \A type : Belonging(type) \in SUBSET (1 .. next - 1)
         /\ Strays \in SUBSET (1 .. next - 1)
BY DEF TypeOK, Belonging, Strays

LEMMA OrderStep ==
  TypeOK /\ OneSectionPerType /\ CurrentFollowsDirective /\ SectionsKeepSourceOrder
    /\ [Next]_vars => SectionsKeepSourceOrder'
<1>. SUFFICES ASSUME TypeOK, OneSectionPerType, CurrentFollowsDirective,
                     SectionsKeepSourceOrder, [Next]_vars
              PROVE  SectionsKeepSourceOrder'
  OBVIOUS
<1>. DEFINE Kept(s) == Lists(sections[s].items, Belonging(sections[s].type), flat)
<1>1. \A s \in DOMAIN sections : Kept(s)
  BY DEF SectionsKeepSourceOrder
<1>2. SUFFICES ASSUME NEW s \in DOMAIN sections' PROVE Kept(s)'
  BY DEF SectionsKeepSourceOrder
<1>t. PICK type : type = sections'[s].type
  OBVIOUS
<1>k. SUFFICES Lists(sections'[s].items, Belonging(type)', flat')
  BY <1>t DEF Belonging, Lists
\* A section that gets no item
<1>3. ASSUME flat' = flat, s \in DOMAIN sections, sections[s].type = type,
             sections'[s].items = sections[s].items, Belonging(type)' = Belonging(type)
      PROVE  Lists(sections'[s].items, Belonging(type)', flat')
  BY <1>1, <1>3
<1>4. CASE handleSectionDirective
  <2>1. /\ Visit("SECTION") /\ flat' = flat
        /\ next \in 1 .. Len(flat) /\ stmt = flat[next] /\ stmt.kind = "SECTION"
    BY <1>4, VisitFacts DEF handleSectionDirective, stmt
  <2>2. Belonging(type)' = Belonging(type)
    BY <2>1, BelongingStep DEF IsItem
  <2>3. CASE UNCHANGED sections
    BY <1>t, <1>3, <2>1, <2>2, <2>3
  <2>4. CASE /\ IndicesOfType(stmt.type) = {}
             /\ sections' = Append(sections, NewSection(stmt.type))
    <3>1. /\ sections \in Seq(Section)
          /\ NewSection(stmt.type).type = stmt.type /\ NewSection(stmt.type).items = <<>>
      BY DEF TypeOK, NewSection
    <3>2. \/ s \in DOMAIN sections /\ sections'[s] = sections[s]
          \/ sections'[s] = NewSection(stmt.type)
      BY <2>4, <3>1
    <3>3. Belonging(stmt.type) = {}
      <4>1. SUFFICES ASSUME NEW i \in Belonging(stmt.type) PROVE FALSE
        OBVIOUS
      <4>2. /\ DirectiveOf(i) \in 1 .. next - 1
            /\ flat[DirectiveOf(i)].kind = "SECTION"
            /\ flat[DirectiveOf(i)].type = stmt.type
        BY <2>1 DEF Belonging, CurrentFollowsDirective
      <4>3. \E t \in DOMAIN sections : sections[t].type = stmt.type
        BY <4>2 DEF CurrentFollowsDirective
      <4>. QED
        BY <2>4, <4>3 DEF IndicesOfType
    <3>4. CASE sections'[s] = NewSection(stmt.type)
      <4>1. sections'[s].items = <<>> /\ type = stmt.type
        BY <1>t, <3>1, <3>4
      <4>2. Belonging(type)' = {}
        BY <2>2, <3>3, <4>1
      <4>. QED
        BY <4>1, <4>2, FS_EmptySet DEF Lists
    <3>. QED
      BY <1>t, <1>3, <2>1, <2>2, <3>2, <3>4
  <2>. QED
    BY <1>4, <2>3, <2>4 DEF handleSectionDirective
<1>5. CASE ItemStep
  <2>1. PICK kind \in {"INSTR", "LABEL", "DATA"} :
          /\ Visit(kind) /\ current # 0 /\ stmt \in Item /\ AppendItem(stmt)
    BY <1>5 DEF ItemStep
  <2>2. flat' = flat /\ stmt = flat[next] /\ IsItem(next)
    BY <2>1, VisitFacts DEF stmt, IsItem
  <2>3. /\ current \in DOMAIN sections /\ DOMAIN sections' = DOMAIN sections
        /\ sections[s].items \in Seq(Item)
        /\ sections'[current].items = Append(sections[current].items, stmt)
        /\ s # current => sections'[s].items = sections[s].items
        /\ sections[s].type = type
    BY <1>t, <2>1, AppendItemKeepsItems, ItemStepKeepsTypes
  <2>4. CASE s = current
    <3>1. Belonging(type)' = Belonging(type) \cup {next}
      BY <2>1, <2>2, <2>3, <2>4, BelongingStep
    <3>2. Lists(Append(sections[s].items, stmt), Belonging(type) \cup {next}, flat)
      BY <1>1, <2>1, <2>2, <2>3, VisitedPositions, ListsAppend
    <3>. QED
      BY <2>2, <2>3, <2>4, <3>1, <3>2
  <2>5. CASE s # current
    <3>1. sections[current].type # type
      BY <2>3, <2>5 DEF OneSectionPerType
    <3>2. Belonging(type)' = Belonging(type)
      BY <2>1, <3>1, BelongingStep
    <3>. QED
      BY <1>3, <2>2, <2>3, <2>5, <3>2
  <2>. QED
    BY <2>4, <2>5
<1>6. CASE OutsideAnySection \/ SymbolStep
  <2>1. PICK kind : /\ Visit(kind) /\ sections' = sections
                    /\ kind \in {"EQU", "GLOBAL"} \/ current = 0
    BY <1>6 DEF OutsideAnySection, SymbolStep
  <2>2. flat' = flat /\ stmt.kind = kind /\ stmt = flat[next]
    BY <2>1, VisitFacts DEF stmt
  <2>3. Belonging(type)' = Belonging(type)
    BY <2>1, <2>2, BelongingStep DEF IsItem
  <2>. QED
    BY <1>t, <1>3, <2>1, <2>2, <2>3
<1>7. CASE UNCHANGED vars
  <2>1. Belonging(type)' = Belonging(type)
    BY <1>7 DEF vars, Belonging, DirectiveOf, IsItem
  <2>. QED
    BY <1>t, <1>3, <1>7, <2>1 DEF vars
<1>. QED
  BY <1>4, <1>5, <1>6, <1>7, StepKinds

\* However sections are interleaved in the source, each holds exactly its own
\* items, in the order of the source.
THEOREM SectionsInSourceOrder == Spec => []SectionsKeepSourceOrder
<1>1. InitProgress => SectionsKeepSourceOrder
  BY DEF InitProgress, SectionsKeepSourceOrder
<1>. QED
  BY <1>1, InitGiven, CurrentInit, CurrentStep, TypeCorrect, SectionsMerged, OrderStep, PTL DEF Spec

LEMMA StrayStep ==
  TypeOK /\ CurrentFollowsDirective /\ StrayItemsReported /\ [Next]_vars
    => StrayItemsReported'
<1>. SUFFICES ASSUME TypeOK, CurrentFollowsDirective, StrayItemsReported, [Next]_vars
              PROVE  StrayItemsReported'
  OBVIOUS
<1>. DEFINE position == [i \in DOMAIN flat |-> i]
<1>1. Lists(errors, Strays, position)
  BY DEF StrayItemsReported
<1>2. ASSUME Strays' = Strays, UNCHANGED <<flat, errors>>
      PROVE  StrayItemsReported'
  BY <1>1, <1>2 DEF StrayItemsReported
<1>3. CASE OutsideAnySection
  <2>1. PICK kind \in {"INSTR", "LABEL", "DATA"} : Visit(kind)
    BY <1>3 DEF OutsideAnySection
  <2>2. current = 0 /\ errors' = Append(errors, next)
    BY <1>3 DEF OutsideAnySection
  <2>3. next \in 1 .. Len(flat) /\ flat' = flat /\ IsItem(next)
    BY <2>1, VisitFacts DEF stmt, IsItem
  <2>4. Strays' = Strays \cup {next}
    BY <2>1, <2>2, <2>3, BelongingStep
  <2>5. errors \in Seq(1 .. Len(flat)) /\ position[next] = next
    BY <2>3 DEF TypeOK
  <2>6. Lists(Append(errors, next), Strays \cup {next}, position)
    BY <1>1, <2>3, <2>5, VisitedPositions, ListsAppend
  <2>. QED
    BY <2>2, <2>3, <2>4, <2>6 DEF StrayItemsReported
<1>4. CASE handleSectionDirective \/ ItemStep \/ SymbolStep
  <2>1. PICK kind : /\ Visit(kind) /\ errors' = errors
                    /\ kind \notin {"INSTR", "LABEL", "DATA"} \/ current # 0
    BY <1>4 DEF handleSectionDirective, ItemStep, SymbolStep
  <2>2. flat' = flat /\ stmt.kind = kind /\ stmt = flat[next]
    BY <2>1, VisitFacts DEF stmt
  <2>3. Strays' = Strays
    BY <2>1, <2>2, BelongingStep DEF IsItem
  <2>. QED
    BY <1>2, <2>1, <2>2, <2>3
<1>5. CASE UNCHANGED vars
  BY <1>2, <1>5 DEF vars, Strays, DirectiveOf, IsItem
<1>. QED
  BY <1>3, <1>4, <1>5, StepKinds

\* Exactly the items before the first section directive are reported.
THEOREM StraysReported == Spec => []StrayItemsReported
<1>1. InitProgress => StrayItemsReported
  BY FS_EmptySet DEF InitProgress, StrayItemsReported, Strays, Lists
<1>. QED
  BY <1>1, InitGiven, CurrentInit, CurrentStep, TypeCorrect, StrayStep, PTL DEF Spec

-----------------------------------------------------------------------------
(* What the stages after Grouper can rely on *)

ItemsAreStatements ==
  \A s \in DOMAIN sections : \A i \in DOMAIN sections[s].items :
    \E j \in DOMAIN flat : sections[s].items[i] = flat[j]

LEMMA ItemsStep == TypeOK /\ ItemsAreStatements /\ [Next]_vars => ItemsAreStatements'
<1>. SUFFICES ASSUME TypeOK, ItemsAreStatements, [Next]_vars
              PROVE  ItemsAreStatements'
  OBVIOUS
<1>1. CASE UNCHANGED <<flat, sections>>
  BY <1>1 DEF ItemsAreStatements
<1>2. CASE handleSectionDirective /\ sections' # sections
  <2>1. /\ UNCHANGED flat
        /\ sections' = Append(sections, NewSection(stmt.type))
    BY <1>2 DEF handleSectionDirective, Visit
  <2>2. \A s \in DOMAIN sections' :
          \/ s \in DOMAIN sections /\ sections'[s] = sections[s]
          \/ sections'[s].items = <<>>
    BY <2>1 DEF TypeOK, NewSection
  <2>. QED
    BY <2>1, <2>2 DEF ItemsAreStatements
<1>3. CASE ItemStep
  <2>1. PICK kind : Visit(kind)
    BY <1>3 DEF ItemStep
  <2>2. next \in DOMAIN flat /\ flat' = flat /\ stmt = flat[next]
    BY <2>1, VisitFacts DEF TypeOK, stmt
  <2>3. current # 0 /\ stmt \in Item /\ AppendItem(stmt)
    BY <1>3 DEF ItemStep
  <2>4. /\ current \in DOMAIN sections /\ DOMAIN sections' = DOMAIN sections
        /\ sections[current].items \in Seq(Item)
        /\ sections'[current].items = Append(sections[current].items, stmt)
        /\ \A s \in DOMAIN sections :
             s # current => sections'[s].items = sections[s].items
    BY <2>3, AppendItemKeepsItems
  <2>5. \A i \in DOMAIN sections'[current].items :
          \/ /\ i \in DOMAIN sections[current].items
             /\ sections'[current].items[i] = sections[current].items[i]
          \/ sections'[current].items[i] = stmt
    BY <2>4
  <2>. QED
    BY <2>2, <2>4, <2>5 DEF ItemsAreStatements
<1>. QED
  BY <1>1, <1>2, <1>3, StepKinds
     DEF handleSectionDirective, Visit, OutsideAnySection, SymbolStep, vars

IInv ==
  /\ TypeOK
  /\ OneSectionPerType
  /\ SymbolPointsAtDefinition
  /\ CurrentFollowsDirective
  /\ SectionsKeepSourceOrder
  /\ StrayItemsReported
  /\ ItemsAreStatements

LEMMA InvStart == Given /\ InitProgress => IInv
<1>1. InitProgress => /\ OneSectionPerType /\ SymbolPointsAtDefinition
                      /\ SectionsKeepSourceOrder /\ ItemsAreStatements
  BY DEF InitProgress, OneSectionPerType, SymbolPointsAtDefinition, HasDefinition,
         SectionsKeepSourceOrder, ItemsAreStatements
<1>2. InitProgress => StrayItemsReported
  BY FS_EmptySet DEF InitProgress, StrayItemsReported, Strays, Lists
<1>. QED
  BY <1>1, <1>2, TypeInit, CurrentInit DEF IInv

LEMMA InvStep == IInv /\ [Next]_vars => IInv'
BY TypeStep, OneSectionStep, SymbolPointsStep, CurrentStep, OrderStep, StrayStep,
   ItemsStep DEF IInv

\* There are three types of sections, and no two sections of one type.
LEMMA FewSections == IInv => Len(sections) <= 3
<1>. SUFFICES ASSUME IInv, Len(sections) > 3 PROVE FALSE
  BY DEF IInv, TypeOK
<1>1. sections \in Seq(Section) /\ OneSectionPerType
  BY DEF IInv, TypeOK
<1>2. 1 \in DOMAIN sections /\ 2 \in DOMAIN sections /\ 3 \in DOMAIN sections
        /\ 4 \in DOMAIN sections
  BY <1>1
<1>3. \A s \in DOMAIN sections : sections[s] \in Section
  BY <1>1
<1>4. \A s \in DOMAIN sections : sections[s].type \in {"DATA", "TEXT", "BSS"}
  BY <1>3 DEF Section, SectionType
<1>. QED
  BY <1>1, <1>2, <1>4 DEF OneSectionPerType

\* When nothing is reported, every item of the program is in some section.
LEMMA NothingDropped ==
  ASSUME IInv, Grouped, errors = <<>>, NEW i \in DOMAIN flat, IsItem(i)
  PROVE  \E s \in DOMAIN sections : \E j \in DOMAIN sections[s].items :
           sections[s].items[j] = flat[i]
<1>1. next = Len(flat) + 1 /\ i \in 1 .. next - 1 /\ next \in Nat /\ i \in 1 .. next
  BY DEF IInv, TypeOK, Grouped
<1>2. DirectiveOf(i) # 0
  <2>. SUFFICES ASSUME DirectiveOf(i) = 0 PROVE FALSE
    OBVIOUS
  <2>1. i \in Strays
    BY <1>1 DEF Strays
  <2>2. Cardinality(Strays) = 0
    BY DEF IInv, StrayItemsReported, Lists
  <2>3. Rank(i, Strays) \in 1 .. Cardinality(Strays)
    BY <1>1, <2>1, RankBounds, VisitedPositions DEF IInv
  <2>. QED
    BY <2>2, <2>3
<1>3. DirectiveOf(i) \in 1 .. next - 1 /\ flat[DirectiveOf(i)].kind = "SECTION"
  <2>1. DirectiveOf(i) \in 1 .. i - 1 /\ flat[DirectiveOf(i)].kind = "SECTION"
    BY <1>1, <1>2 DEF IInv, CurrentFollowsDirective
  <2>. QED
    BY <1>1, <2>1
<1>4. PICK s \in DOMAIN sections : sections[s].type = flat[DirectiveOf(i)].type
  BY <1>3 DEF IInv, CurrentFollowsDirective
<1>. DEFINE S == Belonging(sections[s].type)
<1>5. i \in S
  BY <1>1, <1>2, <1>4 DEF Belonging
<1>6. Lists(sections[s].items, S, flat)
  BY DEF IInv, SectionsKeepSourceOrder
<1>7. Rank(i, S) \in 1 .. Cardinality(S)
  BY <1>1, <1>5, RankBounds, VisitedPositions DEF IInv
<1>8. sections[s].items \in Seq(Item)
  <2>1. sections[s] \in Section
    BY DEF IInv, TypeOK
  <2>. QED
    BY <2>1 DEF Section
<1>. HIDE DEF S
<1>9. /\ Rank(i, S) \in DOMAIN sections[s].items
      /\ sections[s].items[Rank(i, S)] = flat[i]
  BY <1>5, <1>6, <1>7, <1>8 DEF Lists
<1>. QED
  BY <1>9

=============================================================================
