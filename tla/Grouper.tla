------------------------------ MODULE Grouper ------------------------------
(***************************************************************************)
(* Grouper: splits the parser's flat list of statements into sections and  *)
(* builds the symbol table. group() visits the statements in order; each   *)
(* handler of processStatement is an action.                               *)
(***************************************************************************)
EXTENDS AsmProgram, FiniteSets

CONSTANT FlatPrograms  \* the statement lists the parser may hand over

ASSUME FlatProgramsAssumption == FlatPrograms \subseteq Seq(Statement)

VARIABLES
  flat,      \* flatProgram
  next,      \* the statement group() visits next
  current,   \* currentSectionIndex, 0 for static_cast<size_t>(-1)
  sections,  \* result.sections
  symbols,   \* result.symbols
  errors     \* errors: the positions of the statements they are about

progress == <<next, current, errors>>
vars == <<flat, next, current, sections, symbols, errors>>

stmt == flat[next]

-----------------------------------------------------------------------------

InitProgress ==
  /\ next = 1
  /\ current = 0
  /\ sections = <<>>
  /\ symbols = [n \in {} |-> DefaultSymbol]
  /\ errors = <<>>

Init == flat \in FlatPrograms /\ InitProgress

\* Mutant: only the section made last is compared.
NewestOfType(type) ==
  {s \in DOMAIN sections : s = Len(sections) /\ sections[s].type = type}

IndicesOfType(type) == {s \in DOMAIN sections : sections[s].type = type}

NewSection(type) ==
  [type |-> type, items |-> <<>>,
   size |-> 0, fileOffset |-> 0, virtualAddr |-> 0]

\* Mutant: a symbol that is there already is made anew.
createSymbol(n) == DefaultSymbol

getOrCreateSymbol(n) == IF n \in DOMAIN symbols THEN symbols[n] ELSE DefaultSymbol

\* The symbol table with symbol n set, created if it was not there.
WithSymbol(n, symbol) ==
  [m \in DOMAIN symbols \cup {n} |-> IF m = n THEN symbol ELSE symbols[m]]

\* Mutant: the index of the item before.
PlacedBefore(symbol) ==
  [symbol EXCEPT !.kind = "LABEL",
                 !.sectionIndex = current,
                 !.statementIndex = Len(sections[current].items)]

\* Mutant: the section index stays that of an earlier definition.
PlacedInOldSection(symbol) ==
  [symbol EXCEPT !.kind = "LABEL",
                 !.statementIndex = Len(sections[current].items) + 1]

\* Where the item about to be appended to the current section will stand.
PlacedHere(symbol) ==
  [symbol EXCEPT !.kind = "LABEL",
                 !.sectionIndex = current,
                 !.statementIndex = Len(sections[current].items) + 1]

AppendItem(item) ==
  sections' = [sections EXCEPT ![current].items = Append(@, item)]

\* One iteration of group(): the statement is visited by the handler of kind.
Visit(kind) ==
  /\ next <= Len(flat)
  /\ stmt.kind = kind
  /\ next' = next + 1
  /\ UNCHANGED flat

\* Mutant: a section that exists already does not become the current one.
handleNewSectionDirective ==
  /\ Visit("SECTION")
  /\ \/ /\ IndicesOfType(stmt.type) # {}
        /\ UNCHANGED <<current, sections>>
     \/ /\ IndicesOfType(stmt.type) = {}
        /\ sections' = Append(sections, NewSection(stmt.type))
        /\ current' = Len(sections) + 1
  /\ UNCHANGED <<symbols, errors>>

handleSectionDirective ==
  /\ Visit("SECTION")
  /\ \/ /\ current' \in IndicesOfType(stmt.type)
        /\ UNCHANGED sections
     \/ /\ IndicesOfType(stmt.type) = {}
        /\ sections' = Append(sections, NewSection(stmt.type))
        /\ current' = Len(sections) + 1
  /\ UNCHANGED <<symbols, errors>>

handleInstruction ==
  /\ Visit("INSTR")
  /\ current # 0
  /\ AppendItem(stmt)
  /\ UNCHANGED <<current, symbols, errors>>

handleLabel ==
  /\ Visit("LABEL")
  /\ current # 0
  /\ AppendItem(stmt)
  /\ symbols' = WithSymbol(stmt.label, PlacedHere(getOrCreateSymbol(stmt.label)))
  /\ UNCHANGED <<current, errors>>

handleDataDirective ==
  /\ Visit("DATA")
  /\ current # 0
  /\ AppendItem(stmt)
  /\ symbols' =
       IF stmt.label = NoName THEN symbols
       ELSE WithSymbol(stmt.label, PlacedHere(getOrCreateSymbol(stmt.label)))
  /\ UNCHANGED <<current, errors>>

\* Mutant: the early return without an error.
DropOutsideAnySection ==
  /\ \E kind \in {"INSTR", "LABEL", "DATA"} : Visit(kind)
  /\ current = 0
  /\ UNCHANGED <<current, sections, symbols, errors>>

\* The early return shared by the three handlers of items.
OutsideAnySection ==
  /\ \E kind \in {"INSTR", "LABEL", "DATA"} : Visit(kind)
  /\ current = 0
  /\ errors' = Append(errors, next)
  /\ UNCHANGED <<current, sections, symbols>>

handleEquDirective ==
  /\ Visit("EQU")
  /\ symbols' = WithSymbol(stmt.name, [getOrCreateSymbol(stmt.name) EXCEPT
                                         !.kind = "EQU", !.value = stmt.value])
  /\ UNCHANGED <<current, sections, errors>>

handleGlobalDirective ==
  /\ Visit("GLOBAL")
  /\ symbols' = WithSymbol(stmt.name, [getOrCreateSymbol(stmt.name) EXCEPT
                                         !.isGlobal = TRUE])
  /\ UNCHANGED <<current, sections, errors>>

processStatement ==
  \/ handleSectionDirective
  \/ handleInstruction
  \/ handleLabel
  \/ handleDataDirective
  \/ OutsideAnySection
  \/ handleEquDirective
  \/ handleGlobalDirective

Grouped == next > Len(flat)

\* group() has returned: the result is no longer touched by Grouper.
Finished == Grouped /\ UNCHANGED vars

Next == processStatement \/ Finished

Spec == Init /\ [][Next]_vars

-----------------------------------------------------------------------------
(* Properties *)

TypeOK ==
  /\ flat \in Seq(Statement)
  /\ next \in 1 .. Len(flat) + 1
  /\ sections \in Seq(Section)
  /\ current \in 0 .. Len(sections)
  /\ IsSymbolTable(symbols)
  /\ errors \in Seq(1 .. Len(flat))

\* The largest of a set of positions, 0 if there is none.
Latest(S) == IF S = {} THEN 0 ELSE CHOOSE j \in S : \A k \in S : k <= j

\* The section directive in force at statement i, 0 before the first one.
DirectiveOf(i) == Latest({j \in 1 .. i - 1 : flat[j].kind = "SECTION"})

IsItem(i) == flat[i].kind \in {"INSTR", "LABEL", "DATA"}

\* The statements visited so far that are items of sections of a type, and those
\* that stand before the first section directive.
Belonging(type) ==
  {i \in 1 .. next - 1 : /\ IsItem(i)
                         /\ DirectiveOf(i) # 0
                         /\ flat[DirectiveOf(i)].type = type}

Strays == {i \in 1 .. next - 1 : IsItem(i) /\ DirectiveOf(i) = 0}

\* The place of i when the set of numbers S is listed in increasing order.
Rank(i, S) == Cardinality({j \in S : j <= i})

\* list is what f gives for the members of S, in increasing order.
Lists(list, S, f) ==
  /\ Len(list) = Cardinality(S)
  /\ \A i \in S : list[Rank(i, S)] = f[i]

\* Sections declared several times are merged, and merging keeps the source
\* order: the items of a section are exactly the items visited so far that
\* stand under a directive of its type, in the order of the source.
SectionsKeepSourceOrder ==
  \A s \in DOMAIN sections :
    Lists(sections[s].items, Belonging(sections[s].type), flat)

\* No item is dropped silently: those before the first section directive, and
\* only those, are reported, each once and in order.
StrayItemsReported ==
  Lists(errors, Strays, [i \in DOMAIN flat |-> i])

\* getOrCreateSection never makes two sections of one type, whatever the order
\* and number of section directives.
OneSectionPerType ==
  \A s, t \in DOMAIN sections : sections[s].type = sections[t].type => s = t

HasDefinition(n) ==
  \E s \in DOMAIN sections : \E i \in DOMAIN sections[s].items :
    LabelOf(sections[s].items[i]) = n

\* A symbol that some item defines refers to an item that defines it, even when
\* equ and global directives for the same name come before or after, or the
\* label is defined again in another section.
SymbolPointsAtDefinition ==
  \A n \in Name : HasDefinition(n) =>
    /\ n \in DOMAIN symbols
    /\ symbols[n].sectionIndex \in DOMAIN sections
    /\ symbols[n].statementIndex
         \in DOMAIN sections[symbols[n].sectionIndex].items
    /\ LabelOf(sections[symbols[n].sectionIndex].items[symbols[n].statementIndex])
         = n

\* Grouping is insensitive to where directives about symbols stand: a symbol is
\* global exactly when a visited global directive names it, and its equ value
\* is that of the last visited equ directive for it.
LastDirective(kind, n) ==
  {i \in 1 .. next - 1 :
     /\ flat[i].kind = kind
     /\ flat[i].name = n
     /\ \A j \in i + 1 .. next - 1 : flat[j].kind = kind => flat[j].name # n}

DirectivesRecorded ==
  \A n \in Name :
    /\ (n \in DOMAIN symbols /\ symbols[n].isGlobal) = (LastDirective("GLOBAL", n) # {})
    /\ \A i \in LastDirective("EQU", n) :
         n \in DOMAIN symbols /\ symbols[n].value = flat[i].value

=============================================================================
