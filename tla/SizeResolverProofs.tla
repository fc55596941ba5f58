------------------------- MODULE SizeResolverProofs -------------------------
(***************************************************************************)
(* Proofs about SizeResolver, for all programs: its type invariant, that   *)
(* the offsets it stops with are a fixed point of its pass, and, for       *)
(* programs whose sizes grow with their symbols, that relaxation is        *)
(* monotone and how many passes it needs.                                  *)
(***************************************************************************)
EXTENDS SizeResolver, PlacementProofs, FiniteSetTheorems

-----------------------------------------------------------------------------
(* Types *)

\* The program and the encoder that resolve() is given.
Given == /\ sections \in Seq(Section)
         /\ IsSymbolTable(symbols)
         /\ encoderFailed = FALSE

LEMMA InitGiven == Init => Given /\ InitProgress
BY ProgramsAssumption DEF Init, IsProgram, Given

\* Every program that Grouper hands over starts in a well-formed state.
LEMMA TypeInit == Given /\ InitProgress => TypeOK
<1>. SUFFICES ASSUME Given, InitProgress PROVE TypeOK
  OBVIOUS
<1>1. sections \in Seq(Section) /\ IsSymbolTable(symbols)
  BY DEF Given
<1>2. InitProgress /\ encoderFailed = FALSE
  BY DEF Given
<1>3. 0 \in Word
  BY WordAssumption DEF Word
<1>4. \A s \in DOMAIN sections :
        place[s] \in [1 .. Len(sections[s].items) + 1 -> Word]
  BY <1>2, <1>3 DEF InitProgress
<1>5. \A s \in DOMAIN sections : sections[s].items \in Seq(Item)
  <2>1. \A s \in DOMAIN sections : sections[s] \in Section
    BY <1>1
  <2>. QED
    BY <2>1 DEF Section
<1>6. section <= Len(sections) => statement <= Len(items) + 1
  <2>. SUFFICES ASSUME section <= Len(sections) PROVE statement <= Len(items) + 1
    OBVIOUS
  <2>1. sections[section].items \in Seq(Item)
    BY <1>1, <1>2, <1>5 DEF InitProgress
  <2>2. Len(items) \in Nat
    BY <2>1 DEF items
  <2>. QED
    BY <1>2, <2>2 DEF InitProgress
<1>7. passCount \in 0 .. MaxPasses + 1 /\ section \in 1 .. Len(sections) + 1
  BY <1>1, <1>2, MaxPassesAssumption DEF InitProgress
<1>8. /\ phase \in {"top", "pass", "stable", "failed"}
      /\ changed \in BOOLEAN /\ encoderFailed \in BOOLEAN /\ errors \in BOOLEAN
      /\ DOMAIN place = DOMAIN sections
  BY <1>2 DEF InitProgress
<1>9. statement \in Nat \ {0}
  BY <1>2 DEF InitProgress
<1>. QED
  BY <1>1, <1>4, <1>6, <1>7, <1>8, <1>9 DEF TypeOK

\* What holds while an item is being visited.
LEMMA VisitFacts ==
  ASSUME TypeOK, NEW kind, Visiting(kind)
  PROVE  /\ section \in DOMAIN sections /\ sections[section].items \in Seq(Item)
         /\ statement \in DOMAIN items /\ statement \in Nat \ {0}
         /\ item \in Item /\ item.kind = kind
         /\ place[section] \in [1 .. Len(items) + 1 -> Word]
         /\ offset \in Word /\ offset \in Nat
<1>1. section \in DOMAIN sections
  BY DEF TypeOK, Visiting
<1>2. sections[section] \in Section
  BY <1>1 DEF TypeOK
<1>3. sections[section].items \in Seq(Item)
  BY <1>2 DEF Section
<1>4. statement \in DOMAIN items /\ statement \in Nat \ {0}
  BY <1>3 DEF TypeOK, Visiting, items
<1>5. item \in Item /\ item.kind = kind
  BY <1>3, <1>4 DEF item, items, Visiting
<1>6. place[section] \in [1 .. Len(items) + 1 -> Word]
  BY <1>1 DEF TypeOK, items
<1>7. offset \in Word
  BY <1>3, <1>4, <1>6 DEF offset, items
<1>. QED
  BY <1>1, <1>3, <1>4, <1>5, <1>6, <1>7, WordAssumption DEF Word

\* Advancing past an item records the new offset and nothing else.
LEMMA AdvanceFacts ==
  ASSUME TypeOK, NEW kind, Visiting(kind), NEW size \in Nat, Advance(size)
  PROVE  /\ UNCHANGED <<sections, phase, passCount, section>>
         /\ statement' = statement + 1 /\ statement' <= Len(items) + 1
         /\ DOMAIN place' = DOMAIN place
         /\ place'[section][statement + 1] = Wrap(offset + size)
         /\ \A s \in DOMAIN sections :
              /\ place'[s] \in [1 .. Len(sections[s].items) + 1 -> Word]
              /\ \A i \in 1 .. Len(sections[s].items) + 1 :
                   s # section \/ i <= statement => place'[s][i] = place[s][i]
<1>1. /\ section \in DOMAIN sections /\ items \in Seq(Item)
      /\ statement \in DOMAIN items /\ statement \in Nat \ {0}
      /\ place[section] \in [1 .. Len(items) + 1 -> Word] /\ offset \in Nat
  BY VisitFacts DEF items
<1>2. Wrap(offset + size) \in Word
  BY <1>1, WrapType
<1>3. statement + 1 \in 1 .. Len(items) + 1
  BY <1>1
<1>4. place' = [place EXCEPT ![section] = [place[section] EXCEPT ![statement + 1] = Wrap(offset + size)]]
  BY DEF Advance
<1>. DEFINE new == [place[section] EXCEPT ![statement + 1] = Wrap(offset + size)]
<1>5. /\ new \in [1 .. Len(items) + 1 -> Word]
      /\ new[statement + 1] = Wrap(offset + size)
      /\ \A i \in 1 .. Len(items) + 1 : i <= statement => new[i] = place[section][i]
  BY <1>1, <1>2, <1>3
<1>. HIDE DEF new
<1>6. place' = [place EXCEPT ![section] = new]
  BY <1>4 DEF new
<1>7. section \in DOMAIN place /\ DOMAIN place = DOMAIN sections
  BY <1>1 DEF TypeOK
<1>8. ASSUME NEW s \in DOMAIN sections
      PROVE  /\ place'[s] \in [1 .. Len(sections[s].items) + 1 -> Word]
             /\ \A i \in 1 .. Len(sections[s].items) + 1 :
                  s # section \/ i <= statement => place'[s][i] = place[s][i]
  <2>1. CASE s = section
    BY <1>5, <1>6, <1>7, <2>1 DEF items
  <2>2. CASE s # section
    BY <1>6, <1>7, <2>2 DEF TypeOK
  <2>. QED
    BY <2>1, <2>2
<1>9. UNCHANGED <<sections, phase, passCount, section>> /\ statement' = statement + 1
  BY DEF Advance
<1>. QED
  BY <1>3, <1>5, <1>6, <1>7, <1>8, <1>9

\* Relocating a label only changes its offset, and reports whether it did.
LEMMA RelocateFacts ==
  ASSUME TypeOK, offset \in Word, NEW n \in DOMAIN symbols, Relocate(n)
  PROVE  /\ IsSymbolTable(symbols') /\ changed' \in BOOLEAN
         /\ ~changed' => ~changed /\ symbols[n].offset = offset /\ symbols' = symbols
<1>1. PICK D \in SUBSET Name : symbols \in [D -> Symbol]
  BY DEF TypeOK, IsSymbolTable
<1>2. symbols[n] \in Symbol
  BY <1>1
<1>. DEFINE new == [symbols[n] EXCEPT !.offset = offset]
<1>3. new \in Symbol
  BY <1>2 DEF Symbol
<1>4. symbols[n].offset = offset => new = symbols[n]
  BY <1>2 DEF Symbol
<1>5. symbols' = [symbols EXCEPT ![n] = new]
  BY DEF Relocate
<1>6. (changed' = (changed \/ symbols[n].offset # offset)) /\ changed \in BOOLEAN
  BY DEF Relocate, TypeOK
<1>. HIDE DEF new
<1>7. symbols' \in [D -> Symbol]
  BY <1>1, <1>3, <1>5
<1>8. new = symbols[n] => symbols' = symbols
  BY <1>1, <1>5
<1>. QED
  BY <1>4, <1>6, <1>7, <1>8 DEF IsSymbolTable

\* resolve() begins no pass after MAX_PASSES. TypeOK is inductive only with it:
\* giving up counts one more.
PassesCounted == phase # "failed" => passCount <= MaxPasses

\* Every step of a pass, and every step between passes, keeps the types.
LEMMA AdvanceType ==
  ASSUME TypeOK, NEW kind, Visiting(kind), NEW size \in Nat, Advance(size),
         IsSymbolTable(symbols'), changed' \in BOOLEAN, encoderFailed' \in BOOLEAN,
         errors' \in BOOLEAN
  PROVE  TypeOK'
<1>1. /\ UNCHANGED <<sections, phase, passCount, section>>
      /\ statement' = statement + 1 /\ statement' <= Len(items) + 1
      /\ DOMAIN place' = DOMAIN place
      /\ \A s \in DOMAIN sections :
           place'[s] \in [1 .. Len(sections[s].items) + 1 -> Word]
  BY AdvanceFacts
<1>2. statement' \in Nat \ {0} /\ items' = items
  BY <1>1 DEF TypeOK, items
<1>3. IsSymbolTable(symbols)'
  BY DEF IsSymbolTable
<1>. QED
  BY <1>1, <1>2, <1>3 DEF TypeOK

\* The size of a section is all that EndSection changes of the sections.
LEMMA EndSectionFacts ==
  ASSUME TypeOK, EndSection
  PROVE  /\ section \in DOMAIN sections /\ statement = Len(items) + 1
         /\ sections' \in Seq(Section) /\ Len(sections') = Len(sections)
         /\ \A s \in DOMAIN sections : sections'[s].items = sections[s].items
         /\ changed' \in BOOLEAN
         /\ ~changed' => /\ ~changed /\ sections[section].size = offset
                         /\ sections' = sections
<1>1. section \in DOMAIN sections /\ statement = Len(items) + 1
  BY DEF TypeOK, EndSection
<1>2. sections[section] \in Section
  BY <1>1 DEF TypeOK
<1>3. Len(sections[section].items) \in Nat
  BY <1>2 DEF Section
<1>4. offset \in Word
  BY <1>1, <1>3 DEF TypeOK, offset, items
<1>. DEFINE new == [sections[section] EXCEPT !.size = offset]
<1>5. new \in Section /\ new.items = sections[section].items
  BY <1>2, <1>4 DEF Section
<1>6. sections[section].size = offset => new = sections[section]
  BY <1>2 DEF Section
<1>7. sections' = [sections EXCEPT ![section] = new]
  BY DEF EndSection
<1>8. (changed' = (changed \/ sections[section].size # offset)) /\ changed \in BOOLEAN
  BY DEF EndSection, TypeOK
<1>. HIDE DEF new
<1>9. /\ sections' \in Seq(Section) /\ Len(sections') = Len(sections)
      /\ \A s \in DOMAIN sections : sections'[s].items = sections[s].items
  BY <1>1, <1>5, <1>7 DEF TypeOK
<1>10. new = sections[section] => sections' = sections
  BY <1>1, <1>7 DEF TypeOK
<1>. QED
  BY <1>1, <1>6, <1>8, <1>9, <1>10

LEMMA TypeStep == TypeOK /\ PassesCounted /\ [Next]_vars => TypeOK'
<1>. SUFFICES ASSUME TypeOK, PassesCounted, [Next]_vars PROVE TypeOK'
  OBVIOUS
<1>1. CASE BeginPass
  <2>1. passCount' \in 0 .. MaxPasses + 1
    <3>1. passCount < MaxPasses /\ passCount' = passCount + 1
      BY <1>1 DEF BeginPass
    <3>2. passCount \in 0 .. MaxPasses + 1
      BY DEF TypeOK
    <3>. QED
      BY <3>1, <3>2, MaxPassesAssumption
  <2>2. Len(sections) \in Nat /\ section' = 1 /\ statement' = 1
    BY <1>1 DEF TypeOK, BeginPass
  <2>3. section' <= Len(sections') => statement' <= Len(items') + 1
    <3>. SUFFICES ASSUME 1 <= Len(sections) PROVE 1 <= Len(sections[1].items) + 1
      BY <1>1, <2>2 DEF BeginPass, items
    <3>1. sections[1] \in Section
      BY <2>2 DEF TypeOK
    <3>2. Len(sections[1].items) \in Nat
      BY <3>1 DEF Section
    <3>. QED
      BY <3>2
  <2>4. section' \in 1 .. Len(sections') + 1 /\ statement' \in Nat \ {0}
    BY <1>1, <2>2 DEF BeginPass
  <2>5. /\ UNCHANGED <<sections, symbols, place, encoderFailed, errors>>
        /\ phase' = "pass" /\ changed' = FALSE
    BY <1>1 DEF BeginPass
  <2>. QED
    BY <2>1, <2>3, <2>4, <2>5 DEF TypeOK, IsSymbolTable
<1>2. CASE GiveUp
  <2>1. passCount' \in 0 .. MaxPasses + 1
    <3>1. phase = "top" /\ passCount' = passCount + 1
      BY <1>2 DEF GiveUp
    <3>2. passCount \in 0 .. MaxPasses + 1 /\ passCount <= MaxPasses
      BY <3>1 DEF TypeOK, PassesCounted
    <3>. QED
      BY <3>1, <3>2, MaxPassesAssumption
  <2>2. /\ UNCHANGED <<sections, symbols, section, statement, place, changed,
                        encoderFailed>>
        /\ phase' = "failed" /\ errors' = TRUE
    BY <1>2 DEF GiveUp
  <2>. QED
    BY <2>1, <2>2 DEF TypeOK, IsSymbolTable, items
<1>3. CASE VisitLabel
  <2>1. Visiting("LABEL") /\ Advance(0) /\ encoderFailed' \in BOOLEAN
    BY <1>3 DEF VisitLabel, TypeOK
  <2>2. IsSymbolTable(symbols') /\ changed' \in BOOLEAN /\ errors' \in BOOLEAN
    <3>1. CASE item.label \in DOMAIN symbols
      <4>1. Relocate(item.label) /\ errors' = errors
        BY <1>3, <3>1 DEF VisitLabel
      <4>2. offset \in Word
        BY <2>1, VisitFacts
      <4>. QED
        BY <3>1, <4>1, <4>2, RelocateFacts DEF TypeOK
    <3>2. CASE item.label \notin DOMAIN symbols
      <4>1. symbols' = symbols /\ changed' = changed /\ errors' = TRUE
        BY <1>3, <3>2 DEF VisitLabel
      <4>. QED
        BY <4>1 DEF TypeOK
    <3>. QED
      BY <3>1, <3>2
  <2>. QED
    BY <2>1, <2>2, AdvanceType
<1>4. CASE VisitInstruction
  <2>1. Visiting("INSTR") /\ Advance(EncodedLength(item, symbols))
    BY <1>4 DEF VisitInstruction
  <2>2. EncodedLength(item, symbols) \in Nat
    BY <2>1, VisitFacts, ItemByKind, EncodedLengthType
  <2>3. UNCHANGED <<symbols, changed, encoderFailed, errors>>
    BY <1>4 DEF VisitInstruction
  <2>. QED
    BY <2>1, <2>2, <2>3, AdvanceType DEF TypeOK
<1>5. CASE VisitInstructionFailing
  <2>1. /\ Visiting("INSTR") /\ Advance(0) /\ UNCHANGED <<symbols, changed>>
        /\ encoderFailed' = TRUE /\ errors' = TRUE
    BY <1>5 DEF VisitInstructionFailing
  <2>. QED
    BY <2>1, AdvanceType DEF TypeOK
<1>6. CASE VisitData
  <2>1. /\ Visiting("DATA") /\ Advance(estimateDataSize(item, offset))
        /\ UNCHANGED <<encoderFailed, errors>>
    BY <1>6 DEF VisitData
  <2>2. estimateDataSize(item, offset) \in Nat /\ offset \in Word
    BY <2>1, VisitFacts, ItemByKind, DataSizeType
  <2>3. IsSymbolTable(symbols') /\ changed' \in BOOLEAN
    <3>1. CASE item.label # NoName /\ item.label \in DOMAIN symbols
      <4>1. Relocate(item.label)
        BY <1>6, <3>1 DEF VisitData
      <4>. QED
        BY <2>2, <3>1, <4>1, RelocateFacts
    <3>2. CASE ~(item.label # NoName /\ item.label \in DOMAIN symbols)
      <4>1. symbols' = symbols /\ changed' = changed
        BY <1>6, <3>2 DEF VisitData
      <4>. QED
        BY <4>1 DEF TypeOK
    <3>. QED
      BY <3>1, <3>2
  <2>. QED
    BY <2>1, <2>2, <2>3, AdvanceType DEF TypeOK
<1>7. CASE EndSection
  <2>1. /\ sections' \in Seq(Section) /\ Len(sections') = Len(sections)
        /\ \A s \in DOMAIN sections : sections'[s].items = sections[s].items
        /\ section \in DOMAIN sections /\ changed' \in BOOLEAN
    BY <1>7, EndSectionFacts
  <2>2. /\ section' = section + 1 /\ statement' = 1
        /\ UNCHANGED <<symbols, phase, passCount, place, encoderFailed, errors>>
    BY <1>7 DEF EndSection
  <2>3. section' \in 1 .. Len(sections') + 1 /\ statement' \in Nat \ {0}
    BY <2>1, <2>2 DEF TypeOK
  <2>4. section' <= Len(sections') => statement' <= Len(items') + 1
    <3>. SUFFICES ASSUME section' <= Len(sections')
                  PROVE  1 <= Len(sections'[section'].items) + 1
      BY <2>2 DEF items
    <3>1. sections'[section'] \in Section
      BY <2>1, <2>3
    <3>2. Len(sections'[section'].items) \in Nat
      BY <3>1 DEF Section
    <3>. QED
      BY <3>2
  <2>5. /\ DOMAIN place' = DOMAIN sections'
        /\ \A s \in DOMAIN sections' :
             place'[s] \in [1 .. Len(sections'[s].items) + 1 -> Word]
    <3>1. sections \in Seq(Section) /\ sections' \in Seq(Section)
      BY <2>1 DEF TypeOK
    <3>2. DOMAIN sections' = DOMAIN sections
      BY <2>1, <3>1
    <3>3. /\ DOMAIN place = DOMAIN sections
          /\ \A s \in DOMAIN sections :
               place[s] \in [1 .. Len(sections[s].items) + 1 -> Word]
      BY DEF TypeOK
    <3>4. place' = place
      BY <2>2
    <3>. QED
      BY <2>1, <3>2, <3>3, <3>4
  <2>. QED
    BY <2>1, <2>2, <2>3, <2>4, <2>5 DEF TypeOK, IsSymbolTable
<1>8. CASE EndPass
  <2>1. /\ UNCHANGED <<sections, symbols, passCount, section, statement, place,
                        changed, encoderFailed, errors>>
        /\ phase' \in {"top", "stable"}
    BY <1>8 DEF EndPass
  <2>. QED
    BY <2>1 DEF TypeOK, IsSymbolTable, items
<1>9. CASE UNCHANGED vars
  BY <1>9 DEF TypeOK, IsSymbolTable, items, vars, progress
<1>. QED
  BY <1>1, <1>2, <1>3, <1>4, <1>5, <1>6, <1>7, <1>8, <1>9
     DEF Next, resolve, passSection, Finished

LEMMA CountInit == InitProgress => PassesCounted
BY MaxPassesAssumption DEF InitProgress, PassesCounted

LEMMA CountStep == TypeOK /\ PassesCounted /\ [Next]_vars => PassesCounted'
<1>. SUFFICES ASSUME TypeOK, PassesCounted, [Next]_vars PROVE PassesCounted'
  OBVIOUS
<1>1. CASE BeginPass
  <2>1. passCount < MaxPasses /\ passCount' = passCount + 1
    BY <1>1 DEF BeginPass
  <2>2. passCount \in 0 .. MaxPasses + 1
    BY DEF TypeOK
  <2>. QED
    BY <2>1, <2>2, MaxPassesAssumption DEF PassesCounted
<1>2. CASE GiveUp
  BY <1>2 DEF GiveUp, PassesCounted
<1>3. CASE passSection
  <2>1. passCount' = passCount /\ phase' = phase
    BY <1>3 DEF passSection, VisitLabel, VisitInstruction,
                VisitInstructionFailing, VisitData, EndSection, Advance
  <2>. QED
    BY <2>1 DEF PassesCounted
<1>4. CASE EndPass
  BY <1>4 DEF EndPass, PassesCounted
<1>5. CASE UNCHANGED vars
  BY <1>5 DEF PassesCounted, vars, progress
<1>. QED
  BY <1>1, <1>2, <1>3, <1>4, <1>5 DEF Next, resolve, Finished

\* The resolver keeps its state well formed: offsets and sizes stay 64-bit
\* words, and passes never run past a section or MaxPasses + 1.
THEOREM TypeCorrect == Spec => []TypeOK
<1>1. Init => TypeOK /\ PassesCounted
  BY InitGiven, TypeInit, CountInit
<1>2. TypeOK /\ PassesCounted /\ [Next]_vars => (TypeOK /\ PassesCounted)'
  BY TypeStep, CountStep
<1>. QED
  BY <1>1, <1>2, PTL DEF Spec

-----------------------------------------------------------------------------
(* The fixed point *)

\* Offsets within a section start at 0.
FirstPlace == \A s \in DOMAIN sections : place[s][1] = 0

\* Item i of section s stands where its label says.
PlacedAt(s, i) == ItemPlaced(place[s], i, sections[s], symbols)

\* The current pass has found everything it visited where it belongs.
PlacesDone ==
  \A s \in DOMAIN sections :
    /\ s < section => SectionPlaced(s)
    /\ s = section =>
         \A i \in DOMAIN sections[s].items : i < statement => PlacedAt(s, i)

\* A pass that has changed nothing so far has verified what it visited.
PlacedSoFar ==
  phase = "pass" /\ ~changed /\ ~encoderFailed => PlacesDone

FixedPointSoFar == FirstPlace /\ PlacedSoFar /\ StablePlacement

IInv == TypeOK /\ PassesCounted /\ FixedPointSoFar

\* An item whose place and whose successor's place are untouched is still
\* placed, as long as the symbol table and the sections are.
LEMMA PlacedAtKept ==
  ASSUME symbols' = symbols, sections' = sections,
         NEW s, NEW i, PlacedAt(s, i),
         place'[s][i] = place[s][i], place'[s][i + 1] = place[s][i + 1]
  PROVE  PlacedAt(s, i)'
BY DEF PlacedAt, ItemPlaced, ItemSize

\* A whole section stays placed for the same reason.
LEMMA SectionPlacedKept ==
  ASSUME TypeOK, symbols' = symbols, sections' = sections,
         NEW s \in DOMAIN sections, SectionPlaced(s),
         \A i \in 1 .. Len(sections[s].items) + 1 : place'[s][i] = place[s][i]
  PROVE  SectionPlaced(s)'
<1>1. sections[s] \in Section
  BY DEF TypeOK
<1>2. sections[s].items \in Seq(Item) /\ Len(sections[s].items) \in Nat
  BY <1>1 DEF Section
<1>3. /\ 1 \in 1 .. Len(sections[s].items) + 1
      /\ Len(sections[s].items) + 1 \in 1 .. Len(sections[s].items) + 1
  BY <1>2
<1>4. ASSUME NEW i \in DOMAIN sections[s].items PROVE PlacedAt(s, i)'
  <2>1. i \in 1 .. Len(sections[s].items) + 1 /\ i + 1 \in 1 .. Len(sections[s].items) + 1
    BY <1>2
  <2>2. PlacedAt(s, i)
    BY DEF SectionPlaced, IsPlaced, PlacedAt
  <2>. QED
    BY <2>1, <2>2, PlacedAtKept
<1>. QED
  BY <1>3, <1>4 DEF SectionPlaced, IsPlaced, PlacedAt

\* Visiting an item that is where its label says extends what the pass has
\* verified by this item.
LEMMA VisitExtendsPlaces ==
  ASSUME TypeOK, PlacesDone, NEW kind, Visiting(kind), NEW size \in Nat,
         Advance(size), symbols' = symbols, size = ItemSize(item, offset, symbols),
         LabelOf(item) \in DOMAIN symbols => symbols[LabelOf(item)].offset = offset
  PROVE  PlacesDone'
<1>1. /\ sections' = sections /\ section' = section /\ statement' = statement + 1
      /\ place'[section][statement + 1] = Wrap(offset + size)
      /\ \A s \in DOMAIN sections : \A i \in 1 .. Len(sections[s].items) + 1 :
           s # section \/ i <= statement => place'[s][i] = place[s][i]
  BY AdvanceFacts
<1>2. /\ section \in DOMAIN sections /\ statement \in DOMAIN items
      /\ statement \in Nat \ {0} /\ items \in Seq(Item)
  BY VisitFacts DEF items
<1>3. section \in Nat
  BY DEF TypeOK
<1>4. ASSUME NEW s \in DOMAIN sections, s < section PROVE SectionPlaced(s)'
  <2>1. SectionPlaced(s) /\ s # section
    BY <1>3, <1>4 DEF PlacesDone
  <2>. QED
    BY <1>1, <2>1, SectionPlacedKept
<1>5. ASSUME NEW i \in DOMAIN sections[section].items, i < statement + 1
      PROVE  /\ sections'[section].items[i] = sections[section].items[i]
             /\ place'[section][i] = place[section][i]
             /\ i < statement => /\ PlacedAt(section, i)
                                 /\ place'[section][i + 1] = place[section][i + 1]
             /\ i >= statement => i = statement
  <2>1. i \in Nat /\ i \in 1 .. Len(items) + 1 /\ i + 1 \in 1 .. Len(items) + 1
    BY <1>2 DEF items
  <2>2. i <= statement /\ (i < statement => i + 1 <= statement)
    BY <1>2, <1>5, <2>1
  <2>3. place'[section][i] = place[section][i]
    BY <1>1, <1>2, <2>1, <2>2 DEF items
  <2>4. i < statement => place'[section][i + 1] = place[section][i + 1]
    BY <1>1, <1>2, <2>1, <2>2 DEF items
  <2>5. i < statement => PlacedAt(section, i)
    BY <1>2 DEF PlacesDone
  <2>6. i >= statement => i = statement
    BY <1>2, <2>1, <2>2
  <2>. QED
    BY <1>1, <2>3, <2>4, <2>5, <2>6
<1>6. ASSUME NEW s \in DOMAIN sections, s = section,
             NEW i \in DOMAIN sections[s].items, i < statement + 1
      PROVE  PlacedAt(s, i)'
  <2>0. i \in Nat
    BY <1>2, <1>6 DEF items
  <2>1. CASE i < statement
    BY <1>1, <1>5, <1>6, <2>1, PlacedAtKept
  <2>2. CASE i >= statement
    <3>1. i = statement /\ place'[s][i] = offset
      BY <1>5, <1>6, <2>2 DEF offset
    <3>2. sections'[s].items[i] = item
      BY <1>1, <1>6, <3>1 DEF item, items
    <3>3. place'[s][i + 1] = Wrap(offset + ItemSize(item, offset, symbols))
      BY <1>1, <1>6, <3>1
    <3>4. ItemSize(item, offset, symbols) = CASE item.kind = "INSTR" -> EncodedLength(item, symbols')
                                   [] item.kind = "DATA"  -> estimateDataSize(item, offset)
                                   [] item.kind = "LABEL" -> 0
      BY DEF ItemSize
    <3>. HIDE DEF item, offset
    <3>. QED
      BY <3>1, <3>2, <3>3, <3>4 DEF PlacedAt, ItemPlaced, ItemSize
  <2>. QED
    BY <1>2, <2>0, <2>1, <2>2
<1>. QED
  BY <1>1, <1>4, <1>6 DEF PlacesDone

Visit == VisitLabel \/ VisitInstruction \/ VisitInstructionFailing \/ VisitData

\* Every visit advances by some size.
LEMMA VisitAdvances ==
  ASSUME TypeOK, Visit
  PROVE  \E kind \in {"INSTR", "LABEL", "DATA"}, size \in Nat :
           Visiting(kind) /\ Advance(size)
<1>1. CASE VisitLabel
  BY <1>1 DEF VisitLabel
<1>2. CASE VisitInstruction
  <2>1. Visiting("INSTR") /\ Advance(EncodedLength(item, symbols))
    BY <1>2 DEF VisitInstruction
  <2>2. EncodedLength(item, symbols) \in Nat
    BY <2>1, VisitFacts, ItemByKind, EncodedLengthType
  <2>. QED
    BY <2>1, <2>2
<1>3. CASE VisitInstructionFailing
  BY <1>3 DEF VisitInstructionFailing
<1>4. CASE VisitData
  <2>1. Visiting("DATA") /\ Advance(estimateDataSize(item, offset))
    BY <1>4 DEF VisitData
  <2>2. estimateDataSize(item, offset) \in Nat
    BY <2>1, VisitFacts, ItemByKind, DataSizeType
  <2>. QED
    BY <2>1, <2>2
<1>. QED
  BY <1>1, <1>2, <1>3, <1>4 DEF Visit

\* No pass writes the offset at the start of a section.
LEMMA FirstPlaceStep ==
  ASSUME TypeOK, FirstPlace, [Next]_vars
  PROVE  FirstPlace'
<1>1. CASE Visit
  <2>1. PICK kind \in {"INSTR", "LABEL", "DATA"}, size \in Nat :
               Visiting(kind) /\ Advance(size)
    BY <1>1, VisitAdvances
  <2>2. /\ sections' = sections
        /\ \A s \in DOMAIN sections : \A i \in 1 .. Len(sections[s].items) + 1 :
             s # section \/ i <= statement => place'[s][i] = place[s][i]
    BY <2>1, AdvanceFacts
  <2>3. statement \in Nat \ {0}
    BY DEF TypeOK
  <2>4. ASSUME NEW s \in DOMAIN sections PROVE place'[s][1] = place[s][1]
    <3>1. sections[s] \in Section
      BY DEF TypeOK
    <3>2. Len(sections[s].items) \in Nat
      BY <3>1 DEF Section
    <3>3. 1 \in 1 .. Len(sections[s].items) + 1 /\ 1 <= statement
      BY <2>3, <3>2
    <3>. QED
      BY <2>2, <3>3
  <2>. QED
    BY <2>2, <2>4 DEF FirstPlace
<1>2. CASE EndSection
  <2>1. place' = place
    BY <1>2 DEF EndSection
  <2>2. DOMAIN sections' = DOMAIN sections
    <3>1. /\ sections' \in Seq(Section) /\ Len(sections') = Len(sections)
          /\ sections \in Seq(Section)
      BY <1>2, EndSectionFacts DEF TypeOK
    <3>. QED
      BY <3>1
  <2>. QED
    BY <2>1, <2>2 DEF FirstPlace
<1>3. CASE ~(Visit \/ EndSection)
  <2>1. UNCHANGED <<sections, place>>
    BY <1>3 DEF Next, resolve, passSection, Visit, BeginPass, EndPass, GiveUp,
                Finished, vars, progress
  <2>. QED
    BY <2>1 DEF FirstPlace
<1>. QED
  BY <1>1, <1>2, <1>3

\* While a pass has changed nothing, the items it has visited are placed.
LEMMA VisitStep ==
  ASSUME TypeOK, PlacedSoFar, Visit, ~changed', ~encoderFailed'
  PROVE  PlacesDone'
<1>0. phase = "pass"
  BY DEF Visit, VisitLabel, VisitInstruction, VisitInstructionFailing, VisitData,
         Visiting
<1>1. CASE VisitLabel
  <2>1. Visiting("LABEL") /\ Advance(0) /\ encoderFailed' = encoderFailed
    BY <1>1 DEF VisitLabel
  <2>2. offset \in Word /\ item.kind = "LABEL"
    BY <2>1, VisitFacts
  <2>3. /\ ~changed /\ symbols' = symbols
        /\ item.label \in DOMAIN symbols => symbols[item.label].offset = offset
    <3>1. CASE item.label \in DOMAIN symbols
      <4>1. Relocate(item.label)
        BY <1>1, <3>1 DEF VisitLabel
      <4>. QED
        BY <2>2, <3>1, <4>1, RelocateFacts
    <3>2. CASE item.label \notin DOMAIN symbols
      <4>1. symbols' = symbols /\ changed' = changed
        BY <1>1, <3>2 DEF VisitLabel
      <4>. QED
        BY <3>2, <4>1
    <3>. QED
      BY <3>1, <3>2
  <2>4. LabelOf(item) = item.label /\ ItemSize(item, offset, symbols) = 0
    BY <2>2 DEF LabelOf, ItemSize
  <2>5. PlacesDone
    BY <1>0, <2>1, <2>3 DEF PlacedSoFar
  <2>6. LabelOf(item) \in DOMAIN symbols => symbols[LabelOf(item)].offset = offset
    BY <2>3, <2>4
  <2>. QED
    BY <2>1, <2>3, <2>4, <2>5, <2>6, VisitExtendsPlaces
<1>2. CASE VisitInstruction
  <2>1. /\ Visiting("INSTR") /\ Advance(EncodedLength(item, symbols))
        /\ UNCHANGED <<symbols, changed, encoderFailed>>
    BY <1>2 DEF VisitInstruction
  <2>2. item.kind = "INSTR" /\ EncodedLength(item, symbols) \in Nat
    BY <2>1, VisitFacts, ItemByKind, EncodedLengthType
  <2>3. LabelOf(item) = NoName /\ ItemSize(item, offset, symbols) = EncodedLength(item, symbols)
    BY <2>2 DEF LabelOf, ItemSize
  <2>4. LabelOf(item) \notin DOMAIN symbols
    BY <2>3, NameAssumption DEF TypeOK, IsSymbolTable
  <2>5. PlacesDone
    BY <1>0, <2>1 DEF PlacedSoFar
  <2>. QED
    BY <2>1, <2>2, <2>3, <2>4, <2>5, VisitExtendsPlaces
<1>3. CASE VisitInstructionFailing
  BY <1>3 DEF VisitInstructionFailing
<1>4. CASE VisitData
  <2>1. /\ Visiting("DATA") /\ Advance(estimateDataSize(item, offset))
        /\ encoderFailed' = encoderFailed
    BY <1>4 DEF VisitData
  <2>2. /\ item.kind = "DATA" /\ offset \in Word
        /\ estimateDataSize(item, offset) \in Nat
    BY <2>1, VisitFacts, ItemByKind, DataSizeType
  <2>3. /\ ~changed /\ symbols' = symbols
        /\ item.label \in DOMAIN symbols => symbols[item.label].offset = offset
    <3>1. CASE item.label # NoName /\ item.label \in DOMAIN symbols
      <4>1. Relocate(item.label)
        BY <1>4, <3>1 DEF VisitData
      <4>. QED
        BY <2>2, <3>1, <4>1, RelocateFacts
    <3>2. CASE ~(item.label # NoName /\ item.label \in DOMAIN symbols)
      <4>1. symbols' = symbols /\ changed' = changed
        BY <1>4, <3>2 DEF VisitData
      <4>2. NoName \notin DOMAIN symbols
        BY NameAssumption DEF TypeOK, IsSymbolTable
      <4>. QED
        BY <3>2, <4>1, <4>2
    <3>. QED
      BY <3>1, <3>2
  <2>4. LabelOf(item) = item.label
    BY <2>2 DEF LabelOf
  <2>5. ItemSize(item, offset, symbols) = estimateDataSize(item, offset)
    BY <2>2 DEF ItemSize
  <2>6. PlacesDone
    BY <1>0, <2>1, <2>3 DEF PlacedSoFar
  <2>7. LabelOf(item) \in DOMAIN symbols => symbols[LabelOf(item)].offset = offset
    BY <2>3, <2>4
  <2>. QED
    BY <2>1, <2>2, <2>3, <2>5, <2>6, <2>7, VisitExtendsPlaces
<1>. QED
  BY <1>1, <1>2, <1>3, <1>4 DEF Visit

\* A section that ends with the size it had is placed as a whole.
LEMMA EndSectionStep ==
  ASSUME TypeOK, FirstPlace, PlacedSoFar, EndSection, ~changed', ~encoderFailed'
  PROVE  PlacesDone'
<1>1. /\ section \in DOMAIN sections /\ statement = Len(items) + 1
      /\ ~changed /\ sections[section].size = offset /\ sections' = sections
  BY EndSectionFacts
<1>2. /\ UNCHANGED <<symbols, place, encoderFailed>> /\ phase = "pass"
      /\ section' = section + 1 /\ statement' = 1
  BY DEF EndSection
<1>3. PlacesDone
  BY <1>1, <1>2 DEF PlacedSoFar
<1>4. sections \in Seq(Section) /\ section \in Nat
  BY DEF TypeOK
<1>5. sections[section].items \in Seq(Item)
  <2>1. sections[section] \in Section
    BY <1>1, <1>4
  <2>. QED
    BY <2>1 DEF Section
<1>6. SectionPlaced(section)
  <2>1. \A i \in DOMAIN sections[section].items : i < statement
    BY <1>1, <1>5 DEF items
  <2>2. \A i \in DOMAIN sections[section].items : PlacedAt(section, i)
    BY <1>1, <1>3, <2>1 DEF PlacesDone
  <2>3. sections[section].size = place[section][Len(sections[section].items) + 1]
    BY <1>1 DEF offset, items
  <2>. QED
    BY <1>1, <2>2, <2>3 DEF SectionPlaced, IsPlaced, PlacedAt, FirstPlace
<1>7. ASSUME NEW s \in DOMAIN sections, s < section + 1 PROVE SectionPlaced(s)'
  <2>1. s \in Nat
    BY <1>4
  <2>2. s < section \/ s = section
    BY <1>4, <1>7, <2>1
  <2>3. SectionPlaced(s)
    BY <1>3, <1>6, <2>2 DEF PlacesDone
  <2>. QED
    BY <1>1, <1>2, <2>3, SectionPlacedKept
<1>8. ASSUME NEW s \in DOMAIN sections, NEW i \in DOMAIN sections[s].items
      PROVE  ~(i < 1)
  <2>1. sections[s] \in Section
    BY <1>4
  <2>2. sections[s].items \in Seq(Item)
    BY <2>1 DEF Section
  <2>. QED
    BY <2>2
<1>. QED
  BY <1>1, <1>2, <1>7, <1>8 DEF PlacesDone

\* A pass begins with nothing verified.
LEMMA BeginPassStep ==
  ASSUME TypeOK, BeginPass
  PROVE  PlacesDone'
<1>1. sections' = sections /\ section' = 1 /\ statement' = 1
  BY DEF BeginPass
<1>2. sections \in Seq(Section)
  BY DEF TypeOK
<1>3. \A s \in DOMAIN sections : ~(s < 1)
  BY <1>2
<1>4. ASSUME NEW s \in DOMAIN sections, NEW i \in DOMAIN sections[s].items
      PROVE  ~(i < 1)
  <2>1. sections[s] \in Section
    BY <1>2
  <2>2. sections[s].items \in Seq(Item)
    BY <2>1 DEF Section
  <2>. QED
    BY <2>2
<1>. QED
  BY <1>1, <1>3, <1>4 DEF PlacesDone

\* When resolve() stops after a pass that changed nothing, that pass has
\* verified every section.
LEMMA EndPassStep ==
  ASSUME TypeOK, PlacedSoFar, EndPass
  PROVE  StablePlacement'
<1>1. SUFFICES ASSUME phase' = "stable", ~encoderFailed', NEW s \in DOMAIN sections'
               PROVE  SectionPlaced(s)'
  BY DEF StablePlacement
<1>2. /\ phase = "pass" /\ ~changed /\ section = Len(sections) + 1
      /\ UNCHANGED <<sections, symbols, place, encoderFailed>>
  BY <1>1 DEF EndPass
<1>3. PlacesDone
  BY <1>1, <1>2 DEF PlacedSoFar
<1>4. s \in DOMAIN sections /\ s < section
  <2>1. sections \in Seq(Section)
    BY DEF TypeOK
  <2>. QED
    BY <1>2, <2>1
<1>. QED
  BY <1>2, <1>3, <1>4, SectionPlacedKept DEF PlacesDone

LEMMA PlacementStep == IInv /\ [Next]_vars => FixedPointSoFar'
<1>. SUFFICES ASSUME IInv, [Next]_vars PROVE FixedPointSoFar'
  OBVIOUS
<1>1. TypeOK /\ FirstPlace /\ PlacedSoFar /\ StablePlacement
  BY DEF IInv, FixedPointSoFar
<1>2. FirstPlace'
  BY <1>1, FirstPlaceStep
<1>3. PlacedSoFar'
  <2>1. SUFFICES ASSUME phase' = "pass", ~changed', ~encoderFailed'
                 PROVE  PlacesDone'
    BY DEF PlacedSoFar
  <2>2. CASE Visit
    BY <1>1, <2>1, <2>2, VisitStep
  <2>3. CASE EndSection
    BY <1>1, <2>1, <2>3, EndSectionStep
  <2>4. CASE BeginPass
    BY <1>1, <2>4, BeginPassStep
  <2>5. CASE EndPass \/ GiveUp
    BY <2>1, <2>5 DEF EndPass, GiveUp
  <2>6. CASE UNCHANGED vars
    <3>1. PlacesDone
      BY <1>1, <2>1, <2>6 DEF PlacedSoFar, vars, progress
    <3>2. UNCHANGED <<sections, symbols, place, section, statement>>
      BY <2>6 DEF vars, progress
    <3>. QED
      BY <1>1, <3>1, <3>2, SectionPlacedKept, PlacedAtKept DEF PlacesDone
  <2>. QED
    BY <2>2, <2>3, <2>4, <2>5, <2>6 DEF Next, resolve, passSection, Visit, Finished
<1>4. StablePlacement'
  <2>1. CASE EndPass
    BY <1>1, <2>1, EndPassStep
  <2>2. CASE UNCHANGED vars
    <3>1. UNCHANGED <<sections, symbols, place, phase, encoderFailed>>
      BY <2>2 DEF vars, progress
    <3>. QED
      BY <1>1, <3>1, SectionPlacedKept DEF StablePlacement
  <2>3. CASE BeginPass \/ GiveUp \/ passSection
    <3>1. phase' # "stable"
      BY <2>3 DEF BeginPass, GiveUp, passSection, VisitLabel, VisitInstruction,
                  VisitInstructionFailing, VisitData, Visiting, Advance, EndSection
    <3>. QED
      BY <3>1 DEF StablePlacement
  <2>. QED
    BY <2>1, <2>2, <2>3 DEF Next, resolve, Finished
<1>. QED
  BY <1>2, <1>3, <1>4 DEF FixedPointSoFar

LEMMA PlacementInit == Given /\ InitProgress => FixedPointSoFar
<1>. SUFFICES ASSUME Given, InitProgress PROVE FixedPointSoFar
  OBVIOUS
<1>1. TypeOK /\ phase = "top"
  BY TypeInit DEF InitProgress
<1>2. ASSUME NEW s \in DOMAIN sections PROVE place[s][1] = 0
  <2>1. sections[s] \in Section
    BY <1>1 DEF TypeOK
  <2>2. Len(sections[s].items) \in Nat
    BY <2>1 DEF Section
  <2>3. 1 \in 1 .. Len(sections[s].items) + 1
    BY <2>2
  <2>. QED
    BY <2>3 DEF InitProgress
<1>. QED
  BY <1>1, <1>2 DEF FixedPointSoFar, FirstPlace, PlacedSoFar, StablePlacement

LEMMA InvStart == Given /\ InitProgress => IInv
BY TypeInit, CountInit, PlacementInit DEF IInv

LEMMA InvStep == IInv /\ [Next]_vars => IInv'
BY TypeStep, CountStep, PlacementStep DEF IInv

\* What resolve() stops with is a fixed point of its pass: labels, offsets and
\* section sizes agree with the sizes the final symbol table gives every item.
THEOREM PlacementIsFixedPoint == Spec => []StablePlacement
<1>1. IInv => StablePlacement
  BY DEF IInv, FixedPointSoFar
<1>. QED
  BY <1>1, InitGiven, InvStart, InvStep, PTL DEF Spec

-----------------------------------------------------------------------------
(* What the stages after the resolver can rely on *)

LEMMA RelocateKeepsPlaces ==
  ASSUME TypeOK, NEW n \in DOMAIN symbols, Relocate(n)
  PROVE  /\ DOMAIN symbols' = DOMAIN symbols
         /\ \A m \in DOMAIN symbols :
              /\ symbols'[m].sectionIndex = symbols[m].sectionIndex
              /\ symbols'[m].statementIndex = symbols[m].statementIndex
<1>1. symbols' = [symbols EXCEPT ![n] = [symbols[n] EXCEPT !.offset = offset]]
  BY DEF Relocate
<1>2. symbols[n] \in Symbol
  BY DEF TypeOK, IsSymbolTable
<1>. QED
  BY <1>1, <1>2 DEF Symbol

\* The resolver sets sizes and offsets; the items, and the places of the symbols
\* among them, are those of Grouper.
LEMMA ProgramKept ==
  ASSUME TypeOK, [Next]_vars
  PROVE  /\ Len(sections') = Len(sections) /\ DOMAIN sections' = DOMAIN sections
         /\ \A s \in DOMAIN sections : sections'[s].items = sections[s].items
         /\ DOMAIN symbols' = DOMAIN symbols
         /\ \A m \in DOMAIN symbols :
              /\ symbols'[m].sectionIndex = symbols[m].sectionIndex
              /\ symbols'[m].statementIndex = symbols[m].statementIndex
<1>1. CASE EndSection
  <2>1. /\ sections' \in Seq(Section) /\ Len(sections') = Len(sections)
        /\ \A s \in DOMAIN sections : sections'[s].items = sections[s].items
    BY <1>1, EndSectionFacts
  <2>2. symbols' = symbols
    BY <1>1 DEF EndSection
  <2>. QED
    BY <2>1, <2>2 DEF TypeOK
<1>2. CASE Visit
  <2>1. sections' = sections
    BY <1>2 DEF Visit, VisitLabel, VisitInstruction, VisitInstructionFailing, VisitData,
                Advance
  <2>2. \/ symbols' = symbols
        \/ \E n \in DOMAIN symbols : Relocate(n)
    BY <1>2 DEF Visit, VisitLabel, VisitInstruction, VisitInstructionFailing, VisitData
  <2>. QED
    BY <2>1, <2>2, RelocateKeepsPlaces
<1>3. CASE BeginPass \/ EndPass \/ GiveUp \/ UNCHANGED vars
  BY <1>3 DEF BeginPass, EndPass, GiveUp, vars
<1>. QED
  BY <1>1, <1>2, <1>3 DEF Next, resolve, passSection, Visit, Finished

\* An instruction that has an encoding, and refers to symbols of the program.
Sound(it) ==
  /\ it.match
  /\ ~UndefinedTerm(it, symbols)
  /\ ~UndefinedTarget(it, symbols)

Passed(s, i) == s < section \/ (s = section /\ i < statement)

\* Unless the encoder has failed, the instructions of the current pass are sound,
\* and giving up is an error.
EncodedSoFar ==
  /\ phase = "failed" => errors
  /\ ~encoderFailed =>
       \A s \in DOMAIN sections : \A i \in DOMAIN sections[s].items :
         /\ sections[s].items[i].kind = "INSTR"
         /\ phase = "stable" \/ (phase = "pass" /\ Passed(s, i))
         => Sound(sections[s].items[i])

LEMMA EncodedStart == InitProgress => EncodedSoFar
BY DEF InitProgress, EncodedSoFar

LEMMA SoundKept ==
  ASSUME DOMAIN symbols' = DOMAIN symbols, NEW it, Sound(it)
  PROVE  Sound(it)'
BY DEF Sound, UndefinedTerm, UndefinedTarget

LEMMA VisitEncodes ==
  ASSUME TypeOK, EncodedSoFar, Visit
  PROVE  EncodedSoFar'
<1>1. PICK kind \in {"INSTR", "LABEL", "DATA"}, size \in Nat :
             Visiting(kind) /\ Advance(size)
  BY VisitAdvances
<1>2. /\ UNCHANGED <<sections, phase, section>> /\ statement' = statement + 1
      /\ phase = "pass"
  BY <1>1, AdvanceFacts DEF Visiting
<1>3. /\ section \in DOMAIN sections /\ statement \in DOMAIN items
      /\ item.kind = kind /\ item = sections[section].items[statement]
  BY <1>1, VisitFacts DEF item, items
<1>4. statement \in Nat /\ \A s \in DOMAIN sections : s \in Nat
  BY DEF TypeOK
<1>5. DOMAIN symbols' = DOMAIN symbols
  BY ProgramKept DEF Next, resolve, passSection, Visit
<1>6. ASSUME ~encoderFailed', NEW s \in DOMAIN sections, NEW i \in DOMAIN sections[s].items,
             sections[s].items[i].kind = "INSTR", Passed(s, i)'
      PROVE  Sound(sections[s].items[i])'
  <2>1. ~encoderFailed
    BY <1>6 DEF Visit, VisitLabel, VisitInstruction, VisitInstructionFailing, VisitData
  <2>2. CASE s = section /\ i = statement
    <3>1. VisitInstruction
      BY <1>3, <1>6, <2>2
         DEF Visit, VisitLabel, VisitInstructionFailing, VisitData, Visiting
    <3>2. Sound(item)
      BY <3>1 DEF VisitInstruction, SizingFails, EncodeFails, Sound
    <3>. QED
      BY <1>2, <1>3, <1>5, <2>2, <3>2, SoundKept
  <2>3. CASE ~(s = section /\ i = statement)
    <3>1. sections[s] \in Section /\ i \in Nat
      <4>1. sections[s] \in Section
        BY DEF TypeOK
      <4>2. sections[s].items \in Seq(Item)
        BY <4>1 DEF Section
      <4>. QED
        BY <4>1, <4>2
    <3>2. Passed(s, i)
      BY <1>2, <1>4, <1>6, <2>3, <3>1 DEF Passed
    <3>3. Sound(sections[s].items[i])
      BY <1>2, <1>6, <2>1, <3>2 DEF EncodedSoFar
    <3>. QED
      BY <1>2, <1>5, <3>3, SoundKept
  <2>. QED
    BY <2>2, <2>3
<1>. QED
  BY <1>2, <1>6 DEF EncodedSoFar

LEMMA EncodedStep == TypeOK /\ EncodedSoFar /\ [Next]_vars => EncodedSoFar'
<1>. SUFFICES ASSUME TypeOK, EncodedSoFar, [Next]_vars PROVE EncodedSoFar'
  OBVIOUS
<1>1. /\ DOMAIN sections' = DOMAIN sections /\ DOMAIN symbols' = DOMAIN symbols
      /\ \A s \in DOMAIN sections : sections'[s].items = sections[s].items
  BY ProgramKept
<1>2. \A s \in DOMAIN sections : /\ sections[s].items \in Seq(Item)
                                 /\ s \in Nat \ {0} /\ s <= Len(sections)
  <2>1. \A s \in DOMAIN sections : sections[s] \in Section
    BY DEF TypeOK
  <2>. QED
    BY <2>1 DEF Section, TypeOK
<1>3. ASSUME NEW s \in DOMAIN sections, NEW i \in DOMAIN sections[s].items,
             Sound(sections[s].items[i])
      PROVE  Sound(sections[s].items[i])'
  BY <1>1, <1>3, SoundKept
<1>4. CASE BeginPass
  <2>1. phase' = "pass" /\ section' = 1 /\ statement' = 1
    BY <1>4 DEF BeginPass
  <2>2. \A s \in DOMAIN sections : \A i \in DOMAIN sections[s].items : ~Passed(s, i)'
    BY <1>2, <2>1 DEF Passed
  <2>. QED
    BY <1>1, <2>1, <2>2 DEF EncodedSoFar
<1>5. CASE GiveUp
  BY <1>5 DEF GiveUp, EncodedSoFar
<1>6. CASE Visit
  BY <1>6, VisitEncodes
<1>7. CASE EndSection
  <2>1. /\ phase = "pass" /\ phase' = "pass" /\ section' = section + 1 /\ statement' = 1
        /\ statement = Len(items) + 1 /\ UNCHANGED encoderFailed
    BY <1>7 DEF EndSection
  <2>2. ASSUME NEW s \in DOMAIN sections, NEW i \in DOMAIN sections[s].items, Passed(s, i)'
        PROVE  Passed(s, i)
    <3>1. section \in Nat /\ s \in Nat /\ i \in Nat /\ i <= Len(sections[s].items) /\ i >= 1
      BY <1>2 DEF TypeOK
    <3>2. Len(sections[s].items) \in Nat
      BY <1>2
    <3>. QED
      BY <2>1, <2>2, <3>1, <3>2 DEF Passed, items
  <2>. QED
    BY <1>1, <1>3, <2>1, <2>2 DEF EncodedSoFar
<1>8. CASE EndPass
  <2>1. /\ phase = "pass" /\ phase' \in {"top", "stable"} /\ UNCHANGED encoderFailed
        /\ section = Len(sections) + 1
    BY <1>8 DEF EndPass
  <2>2. \A s \in DOMAIN sections : \A i \in DOMAIN sections[s].items : Passed(s, i)
    BY <1>2, <2>1 DEF Passed, TypeOK
  <2>. QED
    BY <1>1, <1>3, <2>1, <2>2 DEF EncodedSoFar
<1>9. CASE UNCHANGED vars
  <2>1. UNCHANGED <<phase, section, statement, encoderFailed, errors>>
    BY <1>9 DEF vars, progress
  <2>. QED
    BY <1>1, <1>3, <2>1 DEF EncodedSoFar, Passed
<1>. QED
  BY <1>4, <1>5, <1>6, <1>7, <1>8, <1>9 DEF Next, resolve, passSection, Visit, Finished

-----------------------------------------------------------------------------
(* Relaxation is monotone *)

LEMMA SectionFacts ==
  ASSUME TypeOK, NEW s \in DOMAIN sections
  PROVE  /\ sections[s] \in Section /\ sections[s].items \in Seq(Item)
         /\ Len(sections[s].items) \in Nat
         /\ \A i \in DOMAIN sections[s].items :
              /\ sections[s].items[i] \in Item
              /\ i \in Nat \ {0} /\ i <= Len(sections[s].items)
              /\ i \in 1 .. Len(sections[s].items) + 1
              /\ i + 1 \in 1 .. Len(sections[s].items) + 1
<1>1. sections[s] \in Section
  BY DEF TypeOK
<1>2. sections[s].items \in Seq(Item)
  BY <1>1 DEF Section
<1>. QED
  BY <1>1, <1>2

LEMMA PlaceType ==
  ASSUME TypeOK, NEW s \in DOMAIN sections, NEW i \in 1 .. Len(sections[s].items) + 1
  PROVE  place[s][i] \in Nat /\ place[s][i] < WordSize
<1>1. place[s][i] \in Word
  BY DEF TypeOK
<1>. QED
  BY <1>1, WordAssumption DEF Word

\* LongestSize is what it says.
LEMMA LongestSizeBounds ==
  ASSUME NEW it \in Item, NEW at \in Nat, NEW table
  PROVE  LongestSize(it) \in Nat /\ ItemSize(it, at, table) <= LongestSize(it)
<1>1. CASE it.kind = "INSTR"
  <2>1. it \in Instruction
    BY <1>1, ItemByKind
  <2>2. it.head \in Nat /\ ExtraLength[it.extra] \in Nat
    <3>1. it.head \in Nat /\ it.extra \in ExtraEncoding
      BY <2>1 DEF Instruction
    <3>. QED
      BY <3>1 DEF ExtraEncoding, ExtraLength
  <2>3. /\ DispLength(Displacement(it, table)) \in Nat
        /\ DispLength(Displacement(it, table)) <= 4
    BY DEF DispLength
  <2>4. /\ LongestSize(it) = it.head + 4 + ExtraLength[it.extra]
        /\ ItemSize(it, at, table)
             = it.head + DispLength(Displacement(it, table)) + ExtraLength[it.extra]
    BY <1>1 DEF LongestSize, ItemSize, EncodedLength
  <2>. QED
    BY <2>2, <2>3, <2>4
<1>2. CASE it.kind = "LABEL"
  BY <1>2 DEF LongestSize, ItemSize
<1>3. CASE it.kind = "DATA"
  <2>1. it \in DataDirective
    BY <1>3, ItemByKind
  <2>2. /\ it.dir \in DefineKind \cup ReserveKind \cup {"ALIGN"} /\ it.count \in Nat
        /\ estimateDataSize(it, at) \in Nat /\ estimateDataSize(it, 0) \in Nat
    BY <2>1, DataSizeType DEF DataDirective
  <2>3. ItemSize(it, at, table) = estimateDataSize(it, at)
    BY <1>3 DEF ItemSize
  <2>4. CASE it.dir = "ALIGN"
    <3>1. estimateDataSize(it, at) = AlignPadding(it.count, at) /\ LongestSize(it) = it.count
      BY <1>3, <2>4 DEF estimateDataSize, LongestSize, ReserveKind, DefineKind
    <3>2. AlignPadding(it.count, at) <= it.count
      <4>1. CASE it.count <= 1
        BY <2>2, <4>1 DEF AlignPadding
      <4>2. CASE it.count > 1
        <5>1. at % it.count \in 0 .. it.count - 1
          BY <2>2, <4>2
        <5>2. it.count - (at % it.count) \in Nat
          BY <2>2, <5>1
        <5>3. (it.count - (at % it.count)) % it.count <= it.count
          BY <2>2, <4>2, <5>2
        <5>. QED
          BY <4>2, <2>2, <5>3 DEF AlignPadding
      <4>. QED
        BY <2>2, <4>1, <4>2
    <3>. QED
      BY <2>2, <2>3, <3>1, <3>2
  <2>5. CASE it.dir # "ALIGN"
    <3>1. estimateDataSize(it, at) = estimateDataSize(it, 0)
      BY <2>2, <2>5 DEF estimateDataSize
    <3>2. LongestSize(it) = estimateDataSize(it, 0)
      BY <1>3, <2>5 DEF LongestSize
    <3>. QED
      BY <2>2, <2>3, <3>1, <3>2
  <2>. QED
    BY <2>4, <2>5
<1>. QED
  BY <1>1, <1>2, <1>3, ItemByKind

\* The longest places of a section begin at 0 and add up.
LEMMA LongestPlacesAddUp ==
  ASSUME TypeOK, NEW s \in DOMAIN sections
  PROVE  /\ \A i \in 0 .. Len(sections[s].items) : LongestPlaces(s)[i] \in Nat
         /\ LongestPlaces(s)[0] = 0
         /\ \A i \in DOMAIN sections[s].items :
              LongestPlaces(s)[i] = LongestPlaces(s)[i - 1] + LongestSize(sections[s].items[i])
<1>. DEFINE n == Len(sections[s].items)
            v == [i \in DOMAIN sections[s].items |-> LongestSize(sections[s].items[i])]
<1>1. sections[s].items \in Seq(Item) /\ n \in Nat
  BY SectionFacts
<1>2. ASSUME NEW i \in 1 .. n
      PROVE  v[i] \in Nat /\ v[i] = LongestSize(sections[s].items[i])
  <2>1. i \in DOMAIN sections[s].items /\ sections[s].items[i] \in Item
    BY <1>1
  <2>2. 0 \in Nat
    OBVIOUS
  <2>. QED
    BY <2>1, <2>2, LongestSizeBounds
<1>3. LongestPlaces(s) = Sums(0, v, n)
  BY DEF LongestPlaces
<1>4. DOMAIN sections[s].items = 1 .. n
  BY <1>1
<1>. HIDE DEF v, n
<1>5. \A i \in 0 .. n : Sums(0, v, n)[i] \in Nat
  BY <1>1, <1>2, SumsOfNaturals
<1>6. Sums(0, v, n)[0] = 0 /\ \A i \in 1 .. n : Sums(0, v, n)[i] = Sums(0, v, n)[i - 1] + v[i]
  BY <1>1, <1>2, SumsOfIntegers
<1>. QED
  BY <1>2, <1>3, <1>4, <1>5, <1>6 DEF n

\* Every symbol is given by Grouper without an offset.
Fresh == \A n \in DOMAIN symbols : symbols[n].offset = 0

LEMMA InitFresh == Init => Fresh
BY ProgramsAssumption DEF Init, IsProgram, Fresh

Encodable(it) == it.kind = "INSTR" => ~UndefinedTerm(it, symbols)

\* Item i of section s, and the label it may define, are not further on than the
\* current symbol table would put them: the next pass can only move them forward.
NotAhead(s, i) ==
  LET it == sections[s].items[i]
      n  == LabelOf(it)
  IN  /\ Encodable(it) =>
           place[s][i + 1] <= place[s][i] + ItemSize(it, place[s][i], symbols)
      /\ n \in DOMAIN symbols => symbols[n].offset <= place[s][i]

\* Nothing has wrapped around yet.
InRoom ==
  Growing =>
    \A s \in DOMAIN sections : \A i \in 1 .. Len(sections[s].items) + 1 :
      place[s][i] <= LongestPlaces(s)[i - 1]

NothingAhead ==
  Growing /\ ~encoderFailed =>
    \A s \in DOMAIN sections : \A i \in DOMAIN sections[s].items : NotAhead(s, i)

Monotone == InRoom /\ NothingAhead

LEMMA MonotoneStart ==
  ASSUME TypeOK, InitProgress, Fresh
  PROVE  Monotone
<1>1. ASSUME NEW s \in DOMAIN sections, NEW i \in 1 .. Len(sections[s].items) + 1
      PROVE  place[s][i] = 0 /\ i - 1 \in 0 .. Len(sections[s].items)
  BY SectionFacts DEF InitProgress
<1>2. InRoom
  BY <1>1, LongestPlacesAddUp DEF InRoom
<1>3. ASSUME NEW s \in DOMAIN sections, NEW i \in DOMAIN sections[s].items
      PROVE  NotAhead(s, i)
  <2>1. /\ place[s][i] = 0 /\ place[s][i + 1] = 0
        /\ sections[s].items[i] \in Item
    BY <1>1, SectionFacts
  <2>2. ItemSize(sections[s].items[i], 0, symbols) \in Nat
    BY <2>1, ItemSizeType
  <2>. QED
    BY <2>1, <2>2 DEF NotAhead, Fresh
<1>. QED
  BY <1>2, <1>3 DEF Monotone, NothingAhead

\* What relocating a label does to the symbol table.
LEMMA RelocateMoves ==
  ASSUME TypeOK, NEW n \in DOMAIN symbols, Relocate(n)
  PROVE  /\ DOMAIN symbols' = DOMAIN symbols
         /\ symbols'[n].offset = offset
         /\ \A m \in DOMAIN symbols :
              /\ symbols'[m].kind = symbols[m].kind
              /\ symbols'[m].value = symbols[m].value
              /\ m # n => symbols'[m].offset = symbols[m].offset
<1>1. symbols' = [symbols EXCEPT ![n] = [symbols[n] EXCEPT !.offset = offset]]
  BY DEF Relocate
<1>2. symbols[n] \in Symbol
  BY DEF TypeOK, IsSymbolTable
<1>. QED
  BY <1>1, <1>2 DEF Symbol

LEMMA KindsKept ==
  ASSUME TypeOK, [Next]_vars
  PROVE  /\ DOMAIN symbols' = DOMAIN symbols
         /\ \A m \in DOMAIN symbols :
              symbols'[m].kind = symbols[m].kind /\ symbols'[m].value = symbols[m].value
<1>1. \/ symbols' = symbols
      \/ \E n \in DOMAIN symbols : Relocate(n)
  BY DEF Next, resolve, passSection, BeginPass, EndPass, GiveUp, Finished, VisitLabel,
         VisitInstruction, VisitInstructionFailing, VisitData, EndSection, vars
<1>. QED
  BY <1>1, RelocateMoves

LEMMA SymbolFacts ==
  ASSUME IsSymbolTable(symbols), NEW n \in DOMAIN symbols
  PROVE  symbols[n].offset \in Nat
<1>1. symbols[n] \in Symbol
  BY DEF IsSymbolTable
<1>. QED
  BY <1>1, WordAssumption DEF Symbol, Word

\* A program does not begin to grow while it is resolved.
LEMMA GrowingKept ==
  ASSUME TypeOK, [Next]_vars, Growing'
  PROVE  /\ Growing
         /\ \A s \in DOMAIN sections : LongestPlaces(s)' = LongestPlaces(s)
<1>1. /\ DOMAIN sections' = DOMAIN sections /\ DOMAIN symbols' = DOMAIN symbols
      /\ \A s \in DOMAIN sections : sections'[s].items = sections[s].items
  BY ProgramKept
<1>2. \A s \in DOMAIN sections : Labels(s)' = Labels(s)
  BY <1>1 DEF Labels
<1>3. UniqueLabels
  BY <1>1, <1>2 DEF Growing, UniqueLabels
<1>4. \A s \in DOMAIN sections : LongestPlaces(s)' = LongestPlaces(s)
  BY <1>1 DEF LongestPlaces
<1>5. ASSUME NEW i, GrowsWithSymbols(i)' PROVE GrowsWithSymbols(i)
  <2>1. ASSUME NEW n \in DOMAIN symbols, TermValue(n, symbols') >= 0
        PROVE  TermValue(n, symbols) >= 0
    BY <2>1, KindsKept, SymbolFacts DEF TermValue, TypeOK
  <2>. QED
    BY <1>1, <1>5, <2>1 DEF GrowsWithSymbols
<1>6. ASSUME NEW s \in DOMAIN sections
      PROVE  /\ \A i \in 0 .. Len(sections[s].items) : LongestPlaces(s)[i] < WordSize
             /\ \A i \in DOMAIN sections[s].items :
                  sections[s].items[i].kind = "INSTR" => GrowsWithSymbols(sections[s].items[i])
  <2>1. s \in DOMAIN sections' /\ sections'[s].items = sections[s].items
    BY <1>1
  <2>2. \A i \in 0 .. Len(sections[s].items) : LongestPlaces(s)'[i] < WordSize
    BY <2>1 DEF Growing
  <2>3. ASSUME NEW i \in DOMAIN sections[s].items, sections[s].items[i].kind = "INSTR"
        PROVE  GrowsWithSymbols(sections[s].items[i])
    <3>1. PICK it : it = sections[s].items[i]
      OBVIOUS
    <3>2. GrowsWithSymbols(it)'
      BY <2>1, <2>3, <3>1 DEF Growing
    <3>. QED
      BY <1>5, <3>1, <3>2
  <2>. QED
    BY <1>4, <2>2, <2>3
<1>. QED
  BY <1>3, <1>4, <1>6 DEF Growing

\* An advance writes one place.
LEMMA AdvanceTouches ==
  ASSUME TypeOK, NEW size, Advance(size),
         NEW s \in DOMAIN sections, NEW i \in 1 .. Len(sections[s].items) + 1,
         s # section \/ i # statement + 1
  PROVE  place'[s][i] = place[s][i]
BY DEF Advance, TypeOK

\* Visiting an item does not wrap around.
LEMMA VisitStaysInRoom ==
  ASSUME TypeOK, InRoom, Growing, NEW kind, Visiting(kind),
         NEW size \in Nat, size <= LongestSize(item), Advance(size)
  PROVE  /\ place'[section][statement + 1] = offset + size
         /\ \A s \in DOMAIN sections : \A i \in 1 .. Len(sections[s].items) + 1 :
              place'[s][i] <= LongestPlaces(s)[i - 1]
<1>1. /\ section \in DOMAIN sections /\ statement \in DOMAIN items
      /\ statement \in Nat \ {0} /\ item \in Item /\ offset \in Nat
      /\ items = sections[section].items /\ item = sections[section].items[statement]
  BY VisitFacts DEF item, items
<1>2. place'[section][statement + 1] = Wrap(offset + size)
  BY AdvanceFacts
<1>. DEFINE longest == LongestPlaces(section)
<1>3. /\ statement \in 0 .. Len(sections[section].items)
      /\ statement - 1 \in 0 .. Len(sections[section].items)
      /\ statement \in 1 .. Len(sections[section].items) + 1
  BY <1>1, SectionFacts
<1>4. longest[statement] = longest[statement - 1] + LongestSize(item)
  BY <1>1, LongestPlacesAddUp
<1>5. longest[statement] \in Nat /\ longest[statement - 1] \in Nat /\ LongestSize(item) \in Nat
  BY <1>1, <1>3, LongestPlacesAddUp, LongestSizeBounds
<1>6. offset <= longest[statement - 1] /\ longest[statement] < WordSize
  BY <1>1, <1>3 DEF InRoom, Growing, offset
<1>. HIDE DEF longest
<1>7. offset + size \in Nat /\ offset + size < WordSize /\ offset + size <= longest[statement]
  BY <1>1, <1>4, <1>5, <1>6, WordAssumption
<1>8. place'[section][statement + 1] = offset + size
  BY <1>2, <1>7, WrapExact
<1>9. ASSUME NEW s \in DOMAIN sections, NEW i \in 1 .. Len(sections[s].items) + 1
      PROVE  place'[s][i] <= LongestPlaces(s)[i - 1]
  <2>1. CASE s = section /\ i = statement + 1
    BY <1>1, <1>7, <1>8, <2>1 DEF longest
  <2>2. CASE ~(s = section /\ i = statement + 1)
    BY <2>2, AdvanceTouches DEF InRoom
  <2>. QED
    BY <2>1, <2>2
<1>. QED
  BY <1>8, <1>9

\* An instruction of a growing program grows with the offsets of symbols.
LEMMA InstructionGrows ==
  ASSUME TypeOK, IsSymbolTable(symbols'), Growing,
         DOMAIN symbols' = DOMAIN symbols,
         \A m \in DOMAIN symbols : /\ symbols'[m].kind = symbols[m].kind
                                   /\ symbols'[m].value = symbols[m].value
                                   /\ symbols'[m].offset >= symbols[m].offset,
         NEW s \in DOMAIN sections, NEW i \in DOMAIN sections[s].items,
         sections[s].items[i].kind = "INSTR", Encodable(sections[s].items[i])
  PROVE  GrowsBetween(sections[s].items[i], symbols, symbols')
<1>. DEFINE it == sections[s].items[i]
<1>1. GrowsWithSymbols(it)
  BY DEF Growing
<1>2. it \in Instruction
  BY SectionFacts, ItemByKind
<1>. HIDE DEF it
<1>3. CASE it.terms # <<>>
  <2>1. it.disp >= 0 /\ \A k \in DOMAIN it.terms :
                          /\ it.terms[k].sign = 1
                          /\ it.terms[k].name \in DOMAIN symbols =>
                               TermValue(it.terms[k].name, symbols) >= 0
    BY <1>1, <1>3 DEF GrowsWithSymbols
  <2>2. \A k \in DOMAIN it.terms : it.terms[k].name \in DOMAIN symbols
    BY DEF Encodable, UndefinedTerm, it
  <2>3. ASSUME NEW n \in DOMAIN symbols, TermValue(n, symbols) >= 0
        PROVE  /\ TermValue(n, symbols) \in Nat /\ TermValue(n, symbols') \in Nat
               /\ TermValue(n, symbols) <= TermValue(n, symbols')
    <3>1. symbols[n] \in Symbol /\ symbols'[n] \in Symbol
      BY DEF TypeOK, IsSymbolTable
    <3>2. /\ symbols[n].offset \in Nat /\ symbols'[n].offset \in Nat /\ symbols[n].value \in Int
      BY <3>1, WordAssumption DEF Symbol, Word
    <3>. QED
      BY <2>3, <3>2 DEF TermValue
  <2>. QED
    BY <2>1, <2>2, <2>3 DEF GrowsBetween, it
<1>. QED
  BY <1>3 DEF GrowsBetween, it

\* No other item defines the label of the one that is visited.
LEMMA OtherLabel ==
  ASSUME TypeOK, Growing, NEW kind, Visiting(kind), LabelOf(item) \in DOMAIN symbols,
         NEW s \in DOMAIN sections, NEW i \in DOMAIN sections[s].items,
         ~(s = section /\ i = statement)
  PROVE  LabelOf(sections[s].items[i]) # LabelOf(item)
<1>. SUFFICES ASSUME LabelOf(sections[s].items[i]) = LabelOf(item) PROVE FALSE
  OBVIOUS
<1>1. NoName \notin DOMAIN symbols
  BY NameAssumption DEF TypeOK, IsSymbolTable
<1>2. /\ section \in DOMAIN sections /\ statement \in DOMAIN sections[section].items
      /\ item = sections[section].items[statement]
  BY VisitFacts DEF item, items
<1>3. i \in Labels(s) /\ statement \in Labels(section)
  BY <1>1, <1>2 DEF Labels
<1>. QED
  BY <1>2, <1>3 DEF Growing, UniqueLabels

\* A visit that does not fail relocates the label of its item, if it has one,
\* and advances by its size.
LEMMA VisitShape ==
  ASSUME TypeOK, Visit, ~encoderFailed'
  PROVE  \E kind \in {"INSTR", "LABEL", "DATA"} :
           /\ Visiting(kind) /\ Advance(ItemSize(item, offset, symbols)) /\ Encodable(item)
           /\ IF LabelOf(item) \in DOMAIN symbols
                THEN Relocate(LabelOf(item))
                ELSE symbols' = symbols /\ changed' = changed
<1>1. NoName \notin DOMAIN symbols
  BY NameAssumption DEF TypeOK, IsSymbolTable
<1>2. CASE VisitLabel
  <2>1. Visiting("LABEL") /\ Advance(0) /\ item.kind = "LABEL"
    BY <1>2 DEF VisitLabel, Visiting
  <2>2. LabelOf(item) = item.label /\ ItemSize(item, offset, symbols) = 0 /\ Encodable(item)
    BY <2>1 DEF LabelOf, ItemSize, Encodable
  <2>3. IF item.label \in DOMAIN symbols THEN Relocate(item.label)
                                         ELSE symbols' = symbols /\ changed' = changed
    BY <1>2 DEF VisitLabel
  <2>. QED
    BY <2>1, <2>2, <2>3
<1>3. CASE VisitInstruction
  <2>1. /\ Visiting("INSTR") /\ Advance(EncodedLength(item, symbols)) /\ item.kind = "INSTR"
        /\ symbols' = symbols /\ changed' = changed
    BY <1>3 DEF VisitInstruction, Visiting
  <2>2. /\ LabelOf(item) \notin DOMAIN symbols
        /\ ItemSize(item, offset, symbols) = EncodedLength(item, symbols)
    BY <1>1, <2>1 DEF LabelOf, ItemSize
  <2>3. Encodable(item)
    BY <1>3 DEF VisitInstruction, SizingFails, EncodeFails, Encodable
  <2>. QED
    BY <2>1, <2>2, <2>3
<1>4. CASE VisitInstructionFailing
  BY <1>4 DEF VisitInstructionFailing
<1>5. CASE VisitData
  <2>1. Visiting("DATA") /\ Advance(estimateDataSize(item, offset)) /\ item.kind = "DATA"
    BY <1>5 DEF VisitData, Visiting
  <2>2. /\ LabelOf(item) = item.label /\ Encodable(item)
        /\ ItemSize(item, offset, symbols) = estimateDataSize(item, offset)
    BY <2>1 DEF LabelOf, ItemSize, Encodable
  <2>3. IF item.label \in DOMAIN symbols THEN Relocate(item.label)
                                         ELSE symbols' = symbols /\ changed' = changed
    BY <1>1, <1>5 DEF VisitData
  <2>. QED
    BY <2>1, <2>2, <2>3
<1>. QED
  BY <1>2, <1>3, <1>4, <1>5 DEF Visit

\* Visiting an item moves it and its label forward, if at all, and leaves
\* nothing ahead of the symbol table.
LEMMA VisitMovesForward ==
  ASSUME TypeOK, InRoom, Growing, IsSymbolTable(symbols'), NEW kind, Visiting(kind),
         \A s \in DOMAIN sections : \A i \in DOMAIN sections[s].items : NotAhead(s, i),
         Advance(ItemSize(item, offset, symbols)), Encodable(item),
         IF LabelOf(item) \in DOMAIN symbols THEN Relocate(LabelOf(item))
                                             ELSE symbols' = symbols
  PROVE  /\ \A m \in DOMAIN symbols : symbols'[m].offset >= symbols[m].offset
         /\ \A s \in DOMAIN sections : \A i \in DOMAIN sections[s].items : NotAhead(s, i)'
<1>. DEFINE size == ItemSize(item, offset, symbols)
            lbl  == LabelOf(item)
<1>1. /\ section \in DOMAIN sections /\ statement \in DOMAIN sections[section].items
      /\ item \in Item /\ offset \in Nat /\ offset = place[section][statement]
      /\ item = sections[section].items[statement]
      /\ sections' = sections
  BY VisitFacts DEF item, items, offset, Advance
<1>2. size \in Nat /\ size <= LongestSize(item)
  BY <1>1, ItemSizeType, LongestSizeBounds
<1>3. place'[section][statement + 1] = offset + size
  BY <1>2, VisitStaysInRoom
<1>4. /\ place[section][statement + 1] <= offset + size
      /\ lbl \in DOMAIN symbols => symbols[lbl].offset <= offset
  <2>1. NotAhead(section, statement)
    BY <1>1
  <2>. QED
    BY <1>1, <2>1 DEF NotAhead
<1>5. /\ DOMAIN symbols' = DOMAIN symbols
      /\ lbl \in DOMAIN symbols => symbols'[lbl].offset = offset
      /\ \A m \in DOMAIN symbols :
           /\ symbols'[m].kind = symbols[m].kind
           /\ symbols'[m].value = symbols[m].value
           /\ lbl \notin DOMAIN symbols \/ m # lbl => symbols'[m].offset = symbols[m].offset
  BY RelocateMoves
<1>6. ASSUME NEW m \in DOMAIN symbols
      PROVE  symbols'[m].offset >= symbols[m].offset
  <2>1. symbols[m].offset \in Nat
    BY SymbolFacts DEF TypeOK
  <2>. QED
    BY <1>1, <1>4, <1>5, <2>1
<1>7. ASSUME NEW s \in DOMAIN sections, NEW i \in 1 .. Len(sections[s].items) + 1
      PROVE  /\ place[s][i] \in Nat /\ place'[s][i] \in Nat /\ place[s][i] <= place'[s][i]
             /\ s # section \/ i # statement + 1 => place'[s][i] = place[s][i]
  <2>1. place[s][i] \in Nat
    BY PlaceType
  <2>2. CASE s = section /\ i = statement + 1
    BY <1>1, <1>2, <1>3, <1>4, <2>1, <2>2
  <2>3. CASE ~(s = section /\ i = statement + 1)
    BY <2>1, <2>3, AdvanceTouches
  <2>. QED
    BY <2>1, <2>2, <2>3
<1>. HIDE DEF size, lbl
<1>8. ASSUME NEW s \in DOMAIN sections, NEW i \in DOMAIN sections[s].items,
             Encodable(sections[s].items[i])'
      PROVE  place'[s][i + 1]
               <= place'[s][i] + ItemSize(sections[s].items[i], place'[s][i], symbols')
  <2>. DEFINE it == sections[s].items[i]
  <2>1. /\ i \in 1 .. Len(sections[s].items) + 1 /\ i + 1 \in 1 .. Len(sections[s].items) + 1
        /\ it \in Item /\ i \in Nat
    BY SectionFacts
  <2>2. Encodable(it)
    BY <1>1, <1>5, <1>8 DEF Encodable, UndefinedTerm
  <2>3. it.kind = "INSTR" => GrowsBetween(it, symbols, symbols')
    BY <1>5, <1>6, <2>2, InstructionGrows
  <2>4. /\ place[s][i] \in Nat /\ place'[s][i] \in Nat /\ place[s][i] <= place'[s][i]
        /\ place'[s][i + 1] \in Nat
    BY <1>7, <2>1
  <2>5. place'[s][i + 1] <= place[s][i] + ItemSize(it, place[s][i], symbols)
    <3>1. CASE s = section /\ i = statement
      <4>1. it = item /\ place[s][i] = offset
        BY <1>1, <3>1
      <4>2. offset + size \in Nat
        BY <1>1, <1>2
      <4>. QED
        BY <1>3, <3>1, <4>1, <4>2 DEF size
    <3>2. CASE ~(s = section /\ i = statement)
      <4>1. s # section \/ i + 1 # statement + 1
        BY <1>1, <2>1, <3>2, SectionFacts
      <4>2. place'[s][i + 1] = place[s][i + 1]
        BY <1>7, <2>1, <4>1
      <4>3. NotAhead(s, i)
        OBVIOUS
      <4>. QED
        BY <2>2, <4>2, <4>3 DEF NotAhead
    <3>. QED
      BY <3>1, <3>2
  <2>. HIDE DEF it
  <2>6. place[s][i] + ItemSize(it, place[s][i], symbols)
          <= place'[s][i] + ItemSize(it, place'[s][i], symbols')
    BY <2>1, <2>3, <2>4, ItemEndGrows
  <2>7. /\ ItemSize(it, place[s][i], symbols) \in Nat
        /\ ItemSize(it, place'[s][i], symbols') \in Nat
    BY <2>1, <2>4, ItemSizeType
  <2>8. place'[s][i + 1] <= place'[s][i] + ItemSize(it, place'[s][i], symbols')
    BY <2>4, <2>5, <2>6, <2>7
  <2>. QED
    BY <2>8 DEF it
<1>9. ASSUME NEW s \in DOMAIN sections, NEW i \in DOMAIN sections[s].items,
             LabelOf(sections[s].items[i]) \in DOMAIN symbols
      PROVE  symbols'[LabelOf(sections[s].items[i])].offset <= place'[s][i]
  <2>. DEFINE n == LabelOf(sections[s].items[i])
  <2>1. /\ i \in 1 .. Len(sections[s].items) + 1 /\ i \in Nat /\ statement \in Nat
    BY <1>1, SectionFacts
  <2>2. place[s][i] \in Nat /\ place'[s][i] \in Nat /\ place[s][i] <= place'[s][i]
    BY <1>7, <2>1
  <2>3. CASE s = section /\ i = statement
    <3>1. n = lbl /\ place'[s][i] = offset
      BY <1>1, <1>7, <2>1, <2>3 DEF lbl
    <3>. QED
      BY <1>1, <1>5, <1>9, <3>1
  <2>4. CASE ~(s = section /\ i = statement)
    <3>1. lbl \notin DOMAIN symbols \/ n # lbl
      BY <2>4, OtherLabel DEF lbl
    <3>2. symbols'[n].offset = symbols[n].offset
      BY <1>5, <1>9, <3>1
    <3>3. symbols[n].offset <= place[s][i] /\ symbols[n].offset \in Nat
      <4>1. NotAhead(s, i)
        OBVIOUS
      <4>. QED
        BY <1>9, <4>1, SymbolFacts DEF NotAhead, TypeOK
    <3>. QED
      BY <2>2, <3>2, <3>3
  <2>. QED
    BY <2>3, <2>4
<1>10. ASSUME NEW s \in DOMAIN sections, NEW i \in DOMAIN sections[s].items
       PROVE  NotAhead(s, i)'
  BY <1>1, <1>5, <1>8, <1>9 DEF NotAhead
<1>. QED
  BY <1>6, <1>10

\* Each visit that does not fail is one of those.
LEMMA VisitForward ==
  ASSUME TypeOK, TypeOK', Monotone, Growing, Visit, ~encoderFailed'
  PROVE  /\ \A m \in DOMAIN symbols : symbols'[m].offset >= symbols[m].offset
         /\ \A s \in DOMAIN sections : \A i \in DOMAIN sections[s].items : NotAhead(s, i)'
<1>1. ~encoderFailed
  BY DEF Visit, VisitLabel, VisitInstruction, VisitInstructionFailing, VisitData
<1>2. /\ InRoom /\ IsSymbolTable(symbols')
      /\ \A s \in DOMAIN sections : \A i \in DOMAIN sections[s].items : NotAhead(s, i)
  BY <1>1 DEF Monotone, NothingAhead, TypeOK
<1>. QED
  BY <1>2, VisitShape, VisitMovesForward

\* No visit takes more room than the item can need.
LEMMA VisitInRoom ==
  ASSUME TypeOK, InRoom, Growing, Visit
  PROVE  \A s \in DOMAIN sections : \A i \in 1 .. Len(sections[s].items) + 1 :
           place'[s][i] <= LongestPlaces(s)[i - 1]
<1>1. \E kind \in {"INSTR", "LABEL", "DATA"}, size \in Nat :
        Visiting(kind) /\ Advance(size) /\ size <= LongestSize(item)
  <2>1. CASE VisitLabel \/ VisitInstructionFailing
    <3>1. PICK kind \in {"LABEL", "INSTR"} : Visiting(kind) /\ Advance(0)
      BY <2>1 DEF VisitLabel, VisitInstructionFailing
    <3>2. LongestSize(item) \in Nat
      BY <3>1, VisitFacts, LongestSizeBounds
    <3>. QED
      BY <3>1, <3>2
  <2>2. CASE VisitInstruction
    <3>1. Visiting("INSTR") /\ Advance(EncodedLength(item, symbols)) /\ item.kind = "INSTR"
      BY <2>2 DEF VisitInstruction, Visiting
    <3>2. item \in Item /\ offset \in Nat
      BY <3>1, VisitFacts
    <3>3. ItemSize(item, offset, symbols) = EncodedLength(item, symbols)
      BY <3>1 DEF ItemSize
    <3>4. EncodedLength(item, symbols) \in Nat /\ EncodedLength(item, symbols) <= LongestSize(item)
      BY <3>2, <3>3, ItemSizeType, LongestSizeBounds
    <3>. QED
      BY <3>1, <3>4
  <2>3. CASE VisitData
    <3>1. Visiting("DATA") /\ Advance(estimateDataSize(item, offset)) /\ item.kind = "DATA"
      BY <2>3 DEF VisitData, Visiting
    <3>2. item \in Item /\ offset \in Nat
      BY <3>1, VisitFacts
    <3>3. ItemSize(item, offset, symbols) = estimateDataSize(item, offset)
      BY <3>1 DEF ItemSize
    <3>4. /\ estimateDataSize(item, offset) \in Nat
          /\ estimateDataSize(item, offset) <= LongestSize(item)
      BY <3>2, <3>3, ItemSizeType, LongestSizeBounds
    <3>. QED
      BY <3>1, <3>4
  <2>. QED
    BY <2>1, <2>2, <2>3 DEF Visit
<1>. QED
  BY <1>1, VisitStaysInRoom

\* A step that is no visit leaves places and symbols alone.
LEMMA OtherStepsMoveNothing ==
  ASSUME TypeOK, [Next]_vars, ~Visit
  PROVE  UNCHANGED <<place, symbols, encoderFailed>>
BY DEF Next, resolve, passSection, Visit, BeginPass, EndSection, EndPass, GiveUp,
       Finished, vars, progress

LEMMA MonotoneStep ==
  ASSUME TypeOK, TypeOK', Monotone, [Next]_vars
  PROVE  /\ Monotone'
         /\ Growing /\ ~encoderFailed' =>
              \A n \in DOMAIN symbols : symbols'[n].offset >= symbols[n].offset
<1>1. /\ DOMAIN sections' = DOMAIN sections /\ DOMAIN symbols' = DOMAIN symbols
      /\ \A s \in DOMAIN sections : sections'[s].items = sections[s].items
  BY ProgramKept
<1>2. CASE Visit
  <2>1. InRoom'
    <3>1. SUFFICES ASSUME Growing', NEW s \in DOMAIN sections',
                          NEW i \in 1 .. Len(sections'[s].items) + 1
                   PROVE  place'[s][i] <= LongestPlaces(s)'[i - 1]
      BY DEF InRoom
    <3>2. Growing /\ LongestPlaces(s)' = LongestPlaces(s)
      BY <1>1, <3>1, GrowingKept
    <3>. QED
      BY <1>1, <1>2, <3>2, VisitInRoom DEF Monotone
  <2>2. NothingAhead'
    <3>1. SUFFICES ASSUME Growing', ~encoderFailed', NEW s \in DOMAIN sections',
                          NEW i \in DOMAIN sections'[s].items
                   PROVE  NotAhead(s, i)'
      BY DEF NothingAhead
    <3>2. Growing
      BY <3>1, GrowingKept
    <3>. QED
      BY <1>1, <1>2, <3>1, <3>2, VisitForward
  <2>. QED
    BY <1>2, <2>1, <2>2, VisitForward DEF Monotone
<1>3. CASE ~Visit
  <2>1. UNCHANGED <<place, symbols, encoderFailed>>
    BY <1>3, OtherStepsMoveNothing
  <2>2. InRoom'
    BY <1>1, <2>1, GrowingKept DEF Monotone, InRoom
  <2>3. \A s \in DOMAIN sections : \A i \in DOMAIN sections[s].items :
          NotAhead(s, i) => NotAhead(s, i)'
    BY <1>1, <2>1 DEF NotAhead, Encodable
  <2>4. NothingAhead'
    BY <1>1, <2>1, <2>3, GrowingKept DEF Monotone, NothingAhead
  <2>5. \A n \in DOMAIN symbols : symbols'[n].offset >= symbols[n].offset
    BY <2>1, SymbolFacts DEF TypeOK
  <2>. QED
    BY <2>2, <2>4, <2>5 DEF Monotone
<1>. QED
  BY <1>2, <1>3

\* In a program whose sizes can only grow with the symbols, no step of any pass
\* moves a label towards the start of its section.
THEOREM RelaxationIsMonotone == Spec => LabelsOnlyMoveForward
<1>. DEFINE Forward == Growing /\ ~encoderFailed' =>
                         \A n \in DOMAIN symbols : symbols'[n].offset >= symbols[n].offset
<1>1. Init => TypeOK /\ PassesCounted /\ Monotone
  BY InitGiven, InitFresh, TypeInit, CountInit, MonotoneStart DEF Given
<1>2. TypeOK /\ PassesCounted /\ Monotone /\ [Next]_vars
        => (TypeOK /\ PassesCounted /\ Monotone)' /\ [Forward]_vars
  BY TypeStep, CountStep, MonotoneStep
<1>. QED
  BY <1>1, <1>2, PTL DEF Spec, LabelsOnlyMoveForward

-----------------------------------------------------------------------------
(* How many passes relaxation needs *)

\* There are finitely many instructions that depend on symbols.
LEMMA DependentFinite ==
  ASSUME TypeOK
  PROVE  IsFiniteSet(DependentInstructions) /\ SymbolDependent \in Nat
<1>. DEFINE In(s) == {s} \X {i \in DOMAIN sections[s].items :
                               /\ sections[s].items[i].kind = "INSTR"
                               /\ sections[s].items[i].terms # <<>>}
            f == [s \in DOMAIN sections |-> In(s)]
            S == {In(s) : s \in DOMAIN sections}
<1>1. IsFiniteSet(S)
  <2>1. IsFiniteSet(DOMAIN sections)
    <3>1. Len(sections) \in Nat /\ DOMAIN sections = 1 .. Len(sections)
      BY DEF TypeOK
    <3>. QED
      BY <3>1, FS_Interval
  <2>2. f \in Surjection(DOMAIN sections, S)
    <3>. HIDE DEF In
    <3>. QED
      BY DEF Surjection
  <2>. QED
    BY <2>1, <2>2, FS_Surjection
<1>2. ASSUME NEW T \in S PROVE IsFiniteSet(T)
  <2>1. PICK s \in DOMAIN sections : T = In(s)
    OBVIOUS
  <2>. DEFINE D == 1 .. Len(sections[s].items)
              J == {i \in DOMAIN sections[s].items :
                      /\ sections[s].items[i].kind = "INSTR"
                      /\ sections[s].items[i].terms # <<>>}
  <2>2. sections[s].items \in Seq(Item) /\ Len(sections[s].items) \in Nat
    BY SectionFacts
  <2>3. IsFiniteSet(D)
    BY <2>2, FS_Interval
  <2>4. J \in SUBSET D
    BY <2>2
  <2>5. IsFiniteSet(J)
    <3>. HIDE DEF J, D
    <3>. QED
      BY <2>3, <2>4, FS_Subset
  <2>6. IsFiniteSet({s})
    BY FS_Singleton
  <2>7. IsFiniteSet({s} \X J)
    <3>. HIDE DEF J
    <3>. QED
      BY <2>5, <2>6, FS_Product
  <2>. QED
    BY <2>1, <2>7
<1>3. DependentInstructions = UNION S
  BY DEF DependentInstructions
<1>. HIDE DEF S
<1>4. IsFiniteSet(DependentInstructions)
  BY <1>1, <1>2, <1>3, FS_UNION
<1>. QED
  BY <1>4, FS_CardinalityType DEF SymbolDependent

\* it can be encoded, and its displacement takes g bytes or more.
Reaches(it, g) == Encodable(it) /\ DispLength(Displacement(it, symbols)) >= g

\* How often displacements have got longer: at most twice each, from no byte to
\* one and from one to four.
Raised ==
  {x \in DependentInstructions \X {1, 4} :
     Reaches(sections[x[1][1]].items[x[1][2]], x[2])}

Raises == Cardinality(Raised)

LEMMA RaisesBounded ==
  ASSUME TypeOK
  PROVE  IsFiniteSet(Raised) /\ Raises \in Nat /\ Raises <= 2 * SymbolDependent
<1>1. IsFiniteSet({1, 4}) /\ Cardinality({1, 4}) = 2
  <2>1. IsFiniteSet({1}) /\ Cardinality({1}) = 1
    BY FS_Singleton
  <2>2. {1, 4} = {1} \cup {4} /\ 4 \notin {1}
    OBVIOUS
  <2>. QED
    BY <2>1, <2>2, FS_AddElement
<1>. DEFINE P == DependentInstructions \X {1, 4}
<1>2. IsFiniteSet(P) /\ Cardinality(P) = SymbolDependent * 2
  BY <1>1, DependentFinite, FS_Product DEF SymbolDependent
<1>3. Raised \in SUBSET P
  BY DEF Raised
<1>. HIDE DEF P
<1>4. IsFiniteSet(Raised) /\ Cardinality(Raised) <= Cardinality(P)
  BY <1>2, <1>3, FS_Subset
<1>5. Cardinality(Raised) \in Nat
  BY <1>4, FS_CardinalityType
<1>. QED
  BY <1>2, <1>4, <1>5, DependentFinite DEF Raises

LEMMA DependentKept ==
  ASSUME TypeOK, [Next]_vars
  PROVE  DependentInstructions' = DependentInstructions
<1>1. /\ DOMAIN sections' = DOMAIN sections
      /\ \A s \in DOMAIN sections : sections'[s].items = sections[s].items
  BY ProgramKept
<1>. QED
  BY <1>1 DEF DependentInstructions

LEMMA DependentFacts ==
  ASSUME TypeOK, NEW s, NEW i
  PROVE  <<s, i>> \in DependentInstructions
           <=> /\ s \in DOMAIN sections /\ i \in DOMAIN sections[s].items
               /\ sections[s].items[i].kind = "INSTR"
               /\ sections[s].items[i].terms # <<>>
BY DEF DependentInstructions

\* When labels move forward, displacements get longer, or all sizes stay.
LEMMA RaisesGrow ==
  ASSUME TypeOK, TypeOK', [Next]_vars, sections' = sections, Growing,
         \A m \in DOMAIN symbols : symbols'[m].offset >= symbols[m].offset
  PROVE  /\ Raises <= Raises'
         /\ \/ Raises + 1 <= Raises'
            \/ \A s \in DOMAIN sections : \A i \in DOMAIN sections[s].items : \A at :
                 Encodable(sections[s].items[i]) =>
                   ItemSize(sections[s].items[i], at, symbols')
                     = ItemSize(sections[s].items[i], at, symbols)
<1>1. DOMAIN symbols' = DOMAIN symbols /\ DependentInstructions' = DependentInstructions
  BY KindsKept, DependentKept
<1>2. \A it : Encodable(it)' <=> Encodable(it)
  BY <1>1 DEF Encodable, UndefinedTerm
<1>3. ASSUME NEW s \in DOMAIN sections, NEW i \in DOMAIN sections[s].items,
             sections[s].items[i].kind = "INSTR", Encodable(sections[s].items[i])
      PROVE  /\ sections[s].items[i] \in Instruction
             /\ DispLength(Displacement(sections[s].items[i], symbols))
                  <= DispLength(Displacement(sections[s].items[i], symbols'))
  <2>1. IsSymbolTable(symbols')
    BY DEF TypeOK
  <2>2. GrowsBetween(sections[s].items[i], symbols, symbols')
    BY <1>1, <1>3, <2>1, KindsKept, InstructionGrows
  <2>3. sections[s].items[i] \in Instruction
    BY <1>3, SectionFacts, ItemByKind
  <2>. QED
    BY <2>2, <2>3, InstructionDispGrows
<1>4. \A d : DispLength(d) \in {0, 1, 4}
  BY DEF DispLength
<1>5. ASSUME NEW it, NEW g \in {1, 4}
      PROVE  Reaches(it, g)' <=> /\ Encodable(it)
                                 /\ DispLength(Displacement(it, symbols')) >= g
  BY <1>2 DEF Reaches
<1>6. ASSUME NEW s, NEW i, NEW g
      PROVE  /\ <<<<s, i>>, g>> \in Raised
                  <=> /\ <<s, i>> \in DependentInstructions /\ g \in {1, 4}
                      /\ Encodable(sections[s].items[i])
                      /\ DispLength(Displacement(sections[s].items[i], symbols)) >= g
             /\ <<<<s, i>>, g>> \in Raised'
                  <=> /\ <<s, i>> \in DependentInstructions /\ g \in {1, 4}
                      /\ Encodable(sections[s].items[i])
                      /\ DispLength(Displacement(sections[s].items[i], symbols')) >= g
  <2>1. PICK it : it = sections[s].items[i]
    OBVIOUS
  <2>2. <<<<s, i>>, g>> \in Raised
          <=> <<s, i>> \in DependentInstructions /\ g \in {1, 4} /\ Reaches(it, g)
    BY <2>1 DEF Raised
  <2>3. <<<<s, i>>, g>> \in Raised'
          <=> <<s, i>> \in DependentInstructions /\ g \in {1, 4} /\ Reaches(it, g)'
    BY <1>1, <2>1 DEF Raised
  <2>. QED
    BY <1>5, <2>1, <2>2, <2>3 DEF Reaches
<1>7. Raised \subseteq Raised'
  <2>. SUFFICES ASSUME NEW x \in Raised PROVE x \in Raised'
    OBVIOUS
  <2>1. PICK s, i, g : x = <<<<s, i>>, g>> /\ g \in {1, 4} /\ <<s, i>> \in DependentInstructions
    BY DEF Raised, DependentInstructions
  <2>2. /\ s \in DOMAIN sections /\ i \in DOMAIN sections[s].items
        /\ sections[s].items[i].kind = "INSTR"
    BY <2>1, DependentFacts
  <2>3. /\ Encodable(sections[s].items[i])
        /\ DispLength(Displacement(sections[s].items[i], symbols)) >= g
    BY <1>6, <2>1
  <2>4. DispLength(Displacement(sections[s].items[i], symbols'))
          >= DispLength(Displacement(sections[s].items[i], symbols))
    BY <1>3, <1>4, <2>2, <2>3
  <2>5. DispLength(Displacement(sections[s].items[i], symbols')) >= g
    BY <1>4, <2>1, <2>3, <2>4
  <2>. QED
    BY <1>6, <2>1, <2>3, <2>5
<1>8. /\ IsFiniteSet(Raised') /\ Raises' = Cardinality(Raised') /\ Raises' \in Nat
      /\ Raises = Cardinality(Raised) /\ Raises \in Nat
  <2>1. (IsFiniteSet(Raised) /\ Raises \in Nat)'
    BY RaisesBounded, PTL
  <2>. QED
    BY <2>1, RaisesBounded DEF Raises
<1>9. Raises <= Raises' /\ (Raises = Raises' => Raised' = Raised)
  BY <1>7, <1>8, FS_Subset
<1>10. CASE Raised' = Raised
  <2>1. ASSUME NEW s \in DOMAIN sections, NEW i \in DOMAIN sections[s].items, NEW at,
               Encodable(sections[s].items[i])
        PROVE  ItemSize(sections[s].items[i], at, symbols')
                 = ItemSize(sections[s].items[i], at, symbols)
    <3>1. CASE sections[s].items[i].kind = "INSTR" /\ sections[s].items[i].terms # <<>>
      <4>1. <<s, i>> \in DependentInstructions
        BY <3>1, DependentFacts
      <4>2. \A g \in {1, 4} :
              DispLength(Displacement(sections[s].items[i], symbols)) >= g
                <=> DispLength(Displacement(sections[s].items[i], symbols')) >= g
        BY <1>6, <1>10, <2>1, <4>1
      <4>3. DispLength(Displacement(sections[s].items[i], symbols))
              = DispLength(Displacement(sections[s].items[i], symbols'))
        BY <1>4, <4>2
      <4>. QED
        BY <3>1, <4>3 DEF ItemSize, EncodedLength
    <3>2. CASE sections[s].items[i].kind = "INSTR" /\ sections[s].items[i].terms = <<>>
      <4>1. Displacement(sections[s].items[i], symbols)
              = Displacement(sections[s].items[i], symbols')
        BY <3>2, ConstantDisplacement
      <4>. QED
        BY <3>2, <4>1 DEF ItemSize, EncodedLength
    <3>3. CASE sections[s].items[i].kind # "INSTR"
      <4>1. sections[s].items[i].kind \in {"LABEL", "DATA"}
        BY <3>3, SectionFacts, ItemByKind
      <4>. QED
        BY <4>1 DEF ItemSize
    <3>. QED
      BY <3>1, <3>2, <3>3
  <2>. QED
    BY <1>9, <2>1
<1>11. CASE Raised' # Raised
  BY <1>8, <1>9, <1>11
<1>. QED
  BY <1>10, <1>11

Sized(s) == sections[s].size = place[s][Len(sections[s].items) + 1]

Verified(s, i) == Encodable(sections[s].items[i]) /\ PlacedAt(s, i)

VerifiedSoFar ==
  \A s \in DOMAIN sections :
    /\ s < section => Sized(s)
    /\ \A i \in DOMAIN sections[s].items : Passed(s, i) => Verified(s, i)

AllVerified ==
  \A s \in DOMAIN sections :
    Sized(s) /\ \A i \in DOMAIN sections[s].items : Verified(s, i)

\* Every pass but the first and the last has been asked for by a displacement
\* that got longer in the pass before: if none has since a pass began, that pass
\* leaves a fixed point, and if there was a fixed point when a pass began, it
\* changes nothing.
PassesAccounted ==
  Growing /\ ~encoderFailed =>
    \/ passCount <= Raises
    \/ /\ passCount <= 1 + Raises
       /\ IF phase = "pass" THEN VerifiedSoFar ELSE AllVerified
    \/ /\ passCount <= 2 + Raises
       /\ phase # "top"
       /\ phase = "pass" => ~changed /\ AllVerified

LEMMA AccountedStart ==
  ASSUME TypeOK, InitProgress
  PROVE  PassesAccounted
<1>1. passCount = 0 /\ Raises \in Nat
  BY RaisesBounded DEF InitProgress
<1>. QED
  BY <1>1 DEF PassesAccounted

\* A visit that changes no size extends what the pass has verified.
LEMMA VisitVerifies ==
  ASSUME TypeOK, Growing, NEW kind, Visiting(kind), VerifiedSoFar,
         Advance(ItemSize(item, offset, symbols)), Encodable(item),
         IF LabelOf(item) \in DOMAIN symbols THEN Relocate(LabelOf(item))
                                             ELSE symbols' = symbols,
         \A s \in DOMAIN sections : \A i \in DOMAIN sections[s].items : \A at :
           Encodable(sections[s].items[i]) =>
             ItemSize(sections[s].items[i], at, symbols')
               = ItemSize(sections[s].items[i], at, symbols)
  PROVE  VerifiedSoFar'
<1>. DEFINE lbl == LabelOf(item)
<1>1. /\ section \in DOMAIN sections /\ statement \in DOMAIN sections[section].items
      /\ item \in Item /\ offset \in Nat /\ offset = place[section][statement]
      /\ item = sections[section].items[statement]
      /\ sections' = sections /\ section' = section /\ statement' = statement + 1
      /\ statement \in Nat /\ section \in Nat
  BY VisitFacts DEF item, items, offset, Advance, TypeOK
<1>2. place'[section][statement + 1] = Wrap(offset + ItemSize(item, offset, symbols))
  BY <1>1, ItemSizeType, AdvanceFacts
<1>3. /\ DOMAIN symbols' = DOMAIN symbols
      /\ lbl \in DOMAIN symbols => symbols'[lbl].offset = offset
      /\ \A m \in DOMAIN symbols :
           lbl \notin DOMAIN symbols \/ m # lbl => symbols'[m].offset = symbols[m].offset
  BY RelocateMoves
<1>4. ASSUME NEW s \in DOMAIN sections, NEW i \in 1 .. Len(sections[s].items) + 1,
             s # section \/ i # statement + 1
      PROVE  place'[s][i] = place[s][i]
  BY <1>4, AdvanceTouches
<1>. HIDE DEF lbl
<1>5. ASSUME NEW s \in DOMAIN sections, s < section PROVE Sized(s)'
  <2>1. Len(sections[s].items) + 1 \in 1 .. Len(sections[s].items) + 1 /\ s # section
    BY <1>1, <1>5, SectionFacts
  <2>2. Sized(s)
    BY <1>5 DEF VerifiedSoFar
  <2>. QED
    BY <1>1, <1>4, <2>1, <2>2 DEF Sized
<1>6. ASSUME NEW s \in DOMAIN sections, NEW i \in DOMAIN sections[s].items, Passed(s, i)'
      PROVE  Verified(s, i)'
  <2>. DEFINE it == sections[s].items[i]
              n  == LabelOf(it)
  <2>1. /\ i \in 1 .. Len(sections[s].items) + 1 /\ i + 1 \in 1 .. Len(sections[s].items) + 1
        /\ i \in Nat /\ s \in Nat
    BY SectionFacts DEF TypeOK
  <2>2. CASE s = section /\ i = statement
    <3>1. it = item /\ n = lbl
      BY <1>1, <2>2 DEF lbl
    <3>2. place'[s][i] = offset
      BY <1>1, <1>4, <2>1, <2>2
    <3>3. place'[s][i + 1] = Wrap(place'[s][i] + ItemSize(it, place'[s][i], symbols'))
      BY <1>1, <1>2, <2>2, <3>1, <3>2
    <3>4. n \in DOMAIN symbols' => symbols'[n].offset = place'[s][i]
      BY <1>3, <3>1, <3>2
    <3>5. Encodable(it)'
      BY <1>1, <1>3, <3>1 DEF Encodable, UndefinedTerm
    <3>. QED
      BY <1>1, <3>3, <3>4, <3>5 DEF Verified, PlacedAt, ItemPlaced
  <2>3. CASE ~(s = section /\ i = statement)
    <3>1. Passed(s, i)
      BY <1>1, <1>6, <2>1, <2>3 DEF Passed
    <3>2. Encodable(it) /\ PlacedAt(s, i)
      BY <3>1 DEF VerifiedSoFar, Verified
    <3>3. place'[s][i] = place[s][i] /\ place'[s][i + 1] = place[s][i + 1]
      BY <1>1, <1>4, <2>1, <2>3, <3>1 DEF Passed
    <3>4. place'[s][i + 1] = Wrap(place'[s][i] + ItemSize(it, place'[s][i], symbols'))
      BY <3>2, <3>3 DEF PlacedAt, ItemPlaced
    <3>5. n \in DOMAIN symbols => symbols'[n].offset = symbols[n].offset
      BY <1>3, <2>3, OtherLabel DEF lbl
    <3>6. n \in DOMAIN symbols' => symbols'[n].offset = place'[s][i]
      BY <1>3, <3>2, <3>3, <3>5 DEF PlacedAt, ItemPlaced
    <3>7. Encodable(it)'
      BY <1>1, <1>3, <3>2 DEF Encodable, UndefinedTerm
    <3>. QED
      BY <1>1, <3>4, <3>6, <3>7 DEF Verified, PlacedAt, ItemPlaced
  <2>. QED
    BY <2>2, <2>3
<1>. QED
  BY <1>1, <1>5, <1>6 DEF VerifiedSoFar

\* At a fixed point a visit changes nothing.
LEMMA VisitOfFixedPoint ==
  ASSUME TypeOK, NEW kind, Visiting(kind), AllVerified,
         Advance(ItemSize(item, offset, symbols)),
         IF LabelOf(item) \in DOMAIN symbols THEN Relocate(LabelOf(item))
                                             ELSE symbols' = symbols /\ changed' = changed
  PROVE  symbols' = symbols /\ changed' = changed /\ AllVerified'
<1>1. /\ section \in DOMAIN sections /\ statement \in DOMAIN sections[section].items
      /\ item \in Item /\ offset \in Nat /\ offset = place[section][statement]
      /\ item = sections[section].items[statement] /\ sections' = sections
  BY VisitFacts DEF item, items, offset, Advance
<1>2. /\ place[section][statement + 1] = Wrap(offset + ItemSize(item, offset, symbols))
      /\ LabelOf(item) \in DOMAIN symbols => symbols[LabelOf(item)].offset = offset
  BY <1>1 DEF AllVerified, Verified, PlacedAt, ItemPlaced
<1>3. symbols' = symbols /\ changed' = changed
  <2>1. CASE LabelOf(item) \in DOMAIN symbols
    <3>1. symbols[LabelOf(item)] \in Symbol /\ changed \in BOOLEAN
      BY <2>1 DEF TypeOK, IsSymbolTable
    <3>2. symbols' = [symbols EXCEPT ![LabelOf(item)] = [symbols[LabelOf(item)] EXCEPT !.offset = offset]]
      BY <2>1 DEF Relocate
    <3>3. [symbols[LabelOf(item)] EXCEPT !.offset = offset] = symbols[LabelOf(item)]
      BY <1>2, <2>1, <3>1 DEF Symbol
    <3>4. symbols' = symbols
      BY <3>2, <3>3 DEF TypeOK, IsSymbolTable
    <3>5. changed' = (changed \/ symbols[LabelOf(item)].offset # offset)
      BY <2>1 DEF Relocate
    <3>. QED
      BY <1>2, <2>1, <3>1, <3>4, <3>5
  <2>. QED
    BY <2>1
<1>4. place'[section][statement + 1] = Wrap(offset + ItemSize(item, offset, symbols))
  BY <1>1, ItemSizeType, AdvanceFacts
<1>5. ASSUME NEW s \in DOMAIN sections, NEW i \in 1 .. Len(sections[s].items) + 1
      PROVE  place'[s][i] = place[s][i]
  BY <1>2, <1>4, AdvanceTouches
<1>6. ASSUME NEW s \in DOMAIN sections PROVE Sized(s)'
  <2>1. Len(sections[s].items) + 1 \in 1 .. Len(sections[s].items) + 1
    BY SectionFacts
  <2>2. Sized(s)
    BY DEF AllVerified
  <2>. QED
    BY <1>1, <1>5, <2>1, <2>2 DEF Sized
<1>7. ASSUME NEW s \in DOMAIN sections, NEW i \in DOMAIN sections[s].items
      PROVE  Verified(s, i)'
  <2>1. Verified(s, i) /\ place'[s][i] = place[s][i] /\ place'[s][i + 1] = place[s][i + 1]
    BY <1>5, SectionFacts DEF AllVerified
  <2>. QED
    BY <1>1, <1>3, <2>1, PlacedAtKept DEF Verified, Encodable, UndefinedTerm
<1>. QED
  BY <1>1, <1>3, <1>6, <1>7 DEF AllVerified

\* What has been counted and verified stays while no symbol and no place moves.
LEMMA CountsKept ==
  ASSUME TypeOK, [Next]_vars, symbols' = symbols, place' = place
  PROVE  /\ Raises' = Raises /\ Raises \in Nat
         /\ \A s \in DOMAIN sections : \A i \in DOMAIN sections[s].items :
              Verified(s, i) => Verified(s, i)'
<1>1. /\ DOMAIN sections' = DOMAIN sections
      /\ \A s \in DOMAIN sections : sections'[s].items = sections[s].items
  BY ProgramKept
<1>2. \A it : Encodable(it)' <=> Encodable(it)
  BY DEF Encodable, UndefinedTerm
<1>3. \A it, g : Reaches(it, g)' <=> Reaches(it, g)
  BY <1>2 DEF Reaches
<1>4. ASSUME NEW s, NEW i, NEW g
      PROVE  <<<<s, i>>, g>> \in Raised' <=> <<<<s, i>>, g>> \in Raised
  <2>1. PICK it : it = sections[s].items[i]
    OBVIOUS
  <2>2. <<s, i>> \in DependentInstructions => sections'[s].items[i] = it
    BY <1>1, <2>1 DEF DependentInstructions
  <2>3. <<<<s, i>>, g>> \in Raised
          <=> <<s, i>> \in DependentInstructions /\ g \in {1, 4} /\ Reaches(it, g)
    BY <2>1 DEF Raised
  <2>4. <<<<s, i>>, g>> \in Raised'
          <=> <<s, i>> \in DependentInstructions /\ g \in {1, 4} /\ Reaches(it, g)'
    BY <2>2, DependentKept DEF Raised
  <2>. QED
    BY <1>3, <2>3, <2>4
<1>5. Raised' = Raised
  <2>1. ASSUME NEW x \in Raised \cup Raised'
        PROVE  \E s, i, g : x = <<<<s, i>>, g>>
    BY DependentKept DEF Raised, DependentInstructions
  <2>. QED
    BY <1>4, <2>1
<1>6. \A s \in DOMAIN sections : \A i \in DOMAIN sections[s].items :
        Verified(s, i) => Verified(s, i)'
  BY <1>1, <1>2 DEF Verified, PlacedAt, ItemPlaced
<1>. QED
  BY <1>5, <1>6, RaisesBounded DEF Raises

LEMMA AccountedVisit ==
  ASSUME TypeOK, TypeOK', Monotone, PassesAccounted, [Next]_vars, Visit, Growing,
         ~encoderFailed'
  PROVE  PassesAccounted'
<1>1. PICK kind \in {"INSTR", "LABEL", "DATA"} :
        /\ Visiting(kind) /\ Advance(ItemSize(item, offset, symbols)) /\ Encodable(item)
        /\ IF LabelOf(item) \in DOMAIN symbols
             THEN Relocate(LabelOf(item))
             ELSE symbols' = symbols /\ changed' = changed
  BY VisitShape
<1>2. /\ phase = "pass" /\ phase' = "pass" /\ passCount' = passCount /\ sections' = sections
      /\ ~encoderFailed /\ passCount \in Nat
  BY <1>1 DEF Visiting, Advance, Visit, VisitLabel, VisitInstruction,
              VisitInstructionFailing, VisitData, TypeOK
<1>. DEFINE SizesStay ==
              \A s \in DOMAIN sections : \A i \in DOMAIN sections[s].items : \A at :
                Encodable(sections[s].items[i]) =>
                  ItemSize(sections[s].items[i], at, symbols')
                    = ItemSize(sections[s].items[i], at, symbols)
<1>3. Raises <= Raises' /\ (Raises + 1 <= Raises' \/ SizesStay)
  BY <1>2, VisitForward, RaisesGrow
<1>4. Raises \in Nat /\ Raises' \in Nat
  <2>1. (Raises \in Nat)'
    BY RaisesBounded, PTL
  <2>. QED
    BY <2>1, RaisesBounded
<1>. HIDE DEF SizesStay
<1>5. Raises <= Raises' /\ passCount \in Nat /\ passCount' = passCount
  BY <1>2, <1>3
<1>6. \A p, r, q, k \in Nat : p <= k + r /\ r <= q => p <= k + q
  OBVIOUS
<1>7. CASE passCount <= Raises
  <2>1. passCount' <= Raises'
    BY <1>2, <1>4, <1>5, <1>7
  <2>. QED
    BY <2>1 DEF PassesAccounted
<1>8. CASE passCount <= 1 + Raises /\ VerifiedSoFar
  <2>1. CASE Raises + 1 <= Raises'
    <3>1. passCount' <= Raises'
      BY <1>2, <1>4, <1>8, <2>1
    <3>. QED
      BY <3>1 DEF PassesAccounted
  <2>2. CASE ~(Raises + 1 <= Raises')
    <3>1. VerifiedSoFar'
      BY <1>1, <1>3, <1>8, <2>2, VisitVerifies DEF SizesStay
    <3>2. passCount' <= 1 + Raises'
      <4>1. passCount <= 1 + Raises
        BY <1>8
      <4>. QED
        BY <1>4, <1>5, <1>6, <4>1
    <3>. QED
      BY <1>2, <3>1, <3>2 DEF PassesAccounted
  <2>. QED
    BY <2>1, <2>2
<1>9. CASE passCount <= 2 + Raises /\ ~changed /\ AllVerified
  <2>1. changed' = changed /\ AllVerified'
    BY <1>1, <1>9, VisitOfFixedPoint
  <2>2. passCount' <= 2 + Raises'
    <3>1. passCount <= 2 + Raises
      BY <1>9
    <3>. QED
      BY <1>4, <1>5, <1>6, <3>1
  <2>. QED
    BY <1>2, <1>9, <2>1, <2>2 DEF PassesAccounted
<1>. QED
  BY <1>2, <1>7, <1>8, <1>9 DEF PassesAccounted

\* At the end of a section its size is verified too.
LEMMA AccountedEndSection ==
  ASSUME TypeOK, PassesAccounted, [Next]_vars, EndSection, Growing, ~encoderFailed
  PROVE  PassesAccounted'
<1>1. /\ phase = "pass" /\ phase' = "pass" /\ passCount' = passCount
      /\ symbols' = symbols /\ place' = place /\ section' = section + 1 /\ statement' = 1
      /\ section \in DOMAIN sections /\ statement = Len(sections[section].items) + 1
      /\ section \in Nat /\ sections \in Seq(Section)
  BY EndSectionFacts DEF EndSection, TypeOK, items
<1>2. /\ DOMAIN sections' = DOMAIN sections
      /\ \A s \in DOMAIN sections : sections'[s].items = sections[s].items
  BY ProgramKept
<1>3. /\ Raises' = Raises
      /\ \A s \in DOMAIN sections : \A i \in DOMAIN sections[s].items :
           Verified(s, i) => Verified(s, i)'
  BY <1>1, CountsKept
<1>4. /\ sections' = [sections EXCEPT ![section] = [sections[section] EXCEPT !.size = offset]]
      /\ changed' = (changed \/ sections[section].size # offset)
  BY DEF EndSection
<1>5. offset = place[section][Len(sections[section].items) + 1]
  BY <1>1 DEF offset
<1>6. \A s \in DOMAIN sections : s = section \/ Sized(s) => Sized(s)'
  <2>. SUFFICES ASSUME NEW s \in DOMAIN sections, s = section \/ Sized(s) PROVE Sized(s)'
    OBVIOUS
  <2>1. CASE s = section
    <3>1. sections[section] \in Section
      BY <1>1
    <3>2. sections'[section].size = offset
      BY <1>1, <1>4, <3>1 DEF Section
    <3>. QED
      BY <1>1, <1>2, <1>5, <2>1, <3>2 DEF Sized
  <2>2. CASE s # section
    BY <1>1, <1>2, <1>4, <2>2 DEF Sized
  <2>. QED
    BY <2>1, <2>2
<1>7. CASE passCount <= Raises
  BY <1>1, <1>3, <1>7 DEF PassesAccounted
<1>8. CASE passCount <= 1 + Raises /\ VerifiedSoFar
  <2>1. ASSUME NEW s \in DOMAIN sections, s < section + 1 PROVE Sized(s)'
    <3>1. s = section \/ s < section
      BY <1>1, <2>1
    <3>. QED
      BY <1>6, <1>8, <3>1 DEF VerifiedSoFar
  <2>2. ASSUME NEW s \in DOMAIN sections, NEW i \in DOMAIN sections[s].items, Passed(s, i)'
        PROVE  Verified(s, i)'
    <3>1. i \in Nat \ {0} /\ i <= Len(sections[s].items) /\ Len(sections[s].items) \in Nat
      BY SectionFacts
    <3>2. s < section + 1
      BY <1>1, <2>2, <3>1 DEF Passed
    <3>3. Passed(s, i)
      BY <1>1, <3>1, <3>2 DEF Passed
    <3>. QED
      BY <1>3, <1>8, <3>3 DEF VerifiedSoFar
  <2>3. VerifiedSoFar'
    BY <1>1, <1>2, <2>1, <2>2 DEF VerifiedSoFar
  <2>. QED
    BY <1>1, <1>3, <1>8, <2>3 DEF PassesAccounted
<1>9. CASE passCount <= 2 + Raises /\ ~changed /\ AllVerified
  <2>1. Sized(section)
    BY <1>1, <1>9 DEF AllVerified
  <2>2. ~changed'
    BY <1>4, <1>5, <1>9, <2>1 DEF Sized
  <2>3. AllVerified'
    BY <1>2, <1>3, <1>6, <1>9 DEF AllVerified
  <2>. QED
    BY <1>1, <1>3, <1>9, <2>2, <2>3 DEF PassesAccounted
<1>. QED
  BY <1>1, <1>7, <1>8, <1>9 DEF PassesAccounted

\* Steps between passes.
LEMMA AccountedBetween ==
  ASSUME TypeOK, PassesAccounted, [Next]_vars, BeginPass \/ EndPass \/ GiveUp, Growing,
         ~encoderFailed
  PROVE  PassesAccounted'
<1>1. /\ symbols' = symbols /\ place' = place /\ sections' = sections
      /\ passCount \in Nat /\ sections \in Seq(Section)
  BY DEF BeginPass, EndPass, GiveUp, TypeOK
<1>2. /\ Raises' = Raises /\ Raises \in Nat
      /\ \A s \in DOMAIN sections : \A i \in DOMAIN sections[s].items :
           Verified(s, i) => Verified(s, i)'
  BY <1>1, CountsKept
<1>3. AllVerified => AllVerified'
  BY <1>1, <1>2 DEF AllVerified, Sized
<1>4. CASE BeginPass
  <2>1. /\ phase = "top" /\ phase' = "pass" /\ passCount' = passCount + 1
        /\ section' = 1 /\ statement' = 1 /\ ~changed'
    BY <1>4 DEF BeginPass
  <2>2. \A s \in DOMAIN sections : \A i \in DOMAIN sections[s].items :
          s \in Nat \ {0} /\ i \in Nat \ {0}
    BY <1>1, SectionFacts
  <2>3. VerifiedSoFar'
    BY <1>1, <2>1, <2>2 DEF VerifiedSoFar, Passed
  <2>4. CASE passCount <= Raises
    BY <1>1, <1>2, <2>1, <2>3, <2>4 DEF PassesAccounted
  <2>5. CASE passCount <= 1 + Raises /\ AllVerified
    BY <1>1, <1>2, <1>3, <2>1, <2>5 DEF PassesAccounted
  <2>. QED
    BY <2>1, <2>4, <2>5 DEF PassesAccounted
<1>5. CASE EndPass
  <2>1. /\ phase = "pass" /\ passCount' = passCount /\ section = Len(sections) + 1
        /\ phase' = IF changed THEN "top" ELSE "stable"
    BY <1>5 DEF EndPass
  <2>2. VerifiedSoFar => AllVerified
    <3>1. \A s \in DOMAIN sections : s < section
      BY <1>1, <2>1
    <3>. QED
      BY <3>1 DEF VerifiedSoFar, AllVerified, Passed
  <2>. QED
    BY <1>2, <1>3, <2>1, <2>2 DEF PassesAccounted
<1>6. CASE GiveUp
  <2>1. phase = "top" /\ phase' = "failed" /\ passCount' = passCount + 1
    BY <1>6 DEF GiveUp
  <2>2. passCount <= 1 + Raises
    BY <1>1, <1>2, <2>1 DEF PassesAccounted
  <2>. QED
    BY <1>1, <1>2, <2>1, <2>2 DEF PassesAccounted
<1>. QED
  BY <1>4, <1>5, <1>6

LEMMA AccountedStep ==
  TypeOK /\ TypeOK' /\ Monotone /\ PassesAccounted /\ [Next]_vars => PassesAccounted'
<1>. SUFFICES ASSUME TypeOK, TypeOK', Monotone, PassesAccounted, [Next]_vars,
                     Growing', ~encoderFailed'
              PROVE  PassesAccounted'
  BY DEF PassesAccounted
<1>1. Growing
  BY GrowingKept
<1>2. ~encoderFailed
  BY DEF Next, resolve, passSection, BeginPass, EndPass, GiveUp, Finished, VisitLabel,
         VisitInstruction, VisitInstructionFailing, VisitData, EndSection, vars
<1>3. CASE Visit
  BY <1>1, <1>3, AccountedVisit
<1>4. CASE EndSection
  BY <1>1, <1>2, <1>4, AccountedEndSection
<1>5. CASE BeginPass \/ EndPass \/ GiveUp
  BY <1>1, <1>2, <1>5, AccountedBetween
<1>6. CASE UNCHANGED vars
  <2>1. /\ symbols' = symbols /\ place' = place /\ sections' = sections
        /\ UNCHANGED <<phase, passCount, section, statement, changed>>
    BY <1>6 DEF vars, progress
  <2>2. /\ Raises' = Raises
        /\ \A s \in DOMAIN sections : \A i \in DOMAIN sections[s].items :
             Verified(s, i) => Verified(s, i)'
    BY <2>1, CountsKept
  <2>3. (AllVerified => AllVerified') /\ (VerifiedSoFar => VerifiedSoFar')
    BY <2>1, <2>2 DEF AllVerified, VerifiedSoFar, Sized, Passed
  <2>. QED
    BY <1>1, <1>2, <2>1, <2>2, <2>3 DEF PassesAccounted
<1>. QED
  BY <1>3, <1>4, <1>5, <1>6 DEF Next, resolve, passSection, Visit, Finished

\* In such a program every instruction that depends on symbols costs two more
\* passes at most, whatever the instructions do to one another.
THEOREM PassesBounded == Spec => []GrowingProgramsConverge
<1>1. Init => TypeOK /\ PassesCounted /\ Monotone /\ PassesAccounted
  BY InitGiven, InitFresh, TypeInit, CountInit, MonotoneStart, AccountedStart DEF Given
<1>2. TypeOK /\ PassesCounted /\ Monotone /\ PassesAccounted /\ [Next]_vars
        => (TypeOK /\ PassesCounted /\ Monotone /\ PassesAccounted)'
  BY TypeStep, CountStep, MonotoneStep, AccountedStep
<1>3. TypeOK /\ PassesAccounted => GrowingProgramsConverge
  <2>. SUFFICES ASSUME TypeOK, PassesAccounted, Growing, ~encoderFailed
                PROVE  passCount <= 2 + 2 * SymbolDependent
    BY DEF GrowingProgramsConverge
  <2>1. passCount <= 2 + Raises
    BY RaisesBounded DEF PassesAccounted, TypeOK
  <2>2. passCount \in Nat
    BY DEF TypeOK
  <2>. QED
    BY <2>1, <2>2, RaisesBounded, DependentFinite
<1>. QED
  BY <1>1, <1>2, <1>3, PTL DEF Spec

=============================================================================
