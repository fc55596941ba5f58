-------------------------- MODULE ElfWriterProofs --------------------------
(***************************************************************************)
(* Proofs about ElfWriter: in the image of a program that the stages       *)
(* before have laid out, everything is where the symbol table, the program *)
(* headers and the entry point say, as long as the resolver and the writer *)
(* measure the program's data alike.                                       *)
(***************************************************************************)
EXTENDS ElfWriter, PlacementProofs, FiniteSetTheorems

-----------------------------------------------------------------------------
(* What the stages before the writer establish *)

\* Label n is in the symbol table, which says where one of the items that
\* define it is (SymbolPointsAtDefinition of Grouper).
PointsAtDefinition(n) ==
  /\ n \in DOMAIN symbols
  /\ symbols[n].sectionIndex \in DOMAIN sections
  /\ symbols[n].statementIndex \in DOMAIN sections[symbols[n].sectionIndex].items
  /\ LabelOf(sections[symbols[n].sectionIndex].items[symbols[n].statementIndex]) = n

LabelsPoint ==
  \A s \in DOMAIN sections : \A i \in DOMAIN sections[s].items :
    LabelOf(sections[s].items[i]) # NoName
      => PointsAtDefinition(LabelOf(sections[s].items[i]))

\* The parser rejects an alignment by 0.
PositiveAlignment(it) == it.kind = "DATA" /\ it.dir = "ALIGN" => it.count > 0

AlignmentsPositive ==
  \A s \in DOMAIN sections : \A i \in DOMAIN sections[s].items :
    PositiveAlignment(sections[s].items[i])

\* EndsInAddressSpace of Layout, for a section that is laid out.
EndsInAddressSpace(s) == sections[s].virtualAddr + sections[s].size + 4096 <= WordSize

\* The headers come first in the file, then the sections in their order.
InOrder ==
  /\ \A s \in NonEmptySections :
       ELF_HEADER_SIZE + PHDR_SIZE * Len(sections) <= sections[s].fileOffset
  /\ \A s, t \in NonEmptySections :
       s < t => sections[s].fileOffset + sections[s].size <= sections[t].fileOffset

\* The program is what the parser, Grouper, SizeResolver and Layout leave behind:
\* alignments are positive, labels point at their definitions
\* (SymbolPointsAtDefinition), they stand at the sums of the sizes before them
\* (StablePlacement), and the sections with bytes are at page boundaries, in
\* order unless the arithmetic of Layout wrapped around (LayoutProofs).
LaidOut ==
  /\ sections \in Seq(Section)
  /\ IsSymbolTable(symbols)
  /\ LabelsPoint
  /\ AlignmentsPositive
  /\ \A s \in DOMAIN sections :
       \E place \in [1 .. Len(sections[s].items) + 1 -> Word] :
         IsPlaced(place, sections[s], symbols)
  /\ \A s \in NonEmptySections : sections[s].fileOffset % 4096 = 0
  /\ (\A s \in NonEmptySections : EndsInAddressSpace(s)) => InOrder

\* Where the resolver put the items of section s.
PlaceOf(s) ==
  CHOOSE place \in [1 .. Len(sections[s].items) + 1 -> Word] :
    IsPlaced(place, sections[s], symbols)

LEMMA PlaceFacts ==
  ASSUME LaidOut, NEW s \in DOMAIN sections
  PROVE  /\ sections[s] \in Section /\ sections[s].items \in Seq(Item)
         /\ sections[s].size \in Nat /\ sections[s].fileOffset \in Nat
         /\ sections[s].virtualAddr \in Word /\ sections[s].virtualAddr \in Nat
         /\ PlaceOf(s)[1] = 0
         /\ PlaceOf(s)[Len(sections[s].items) + 1] = sections[s].size
         /\ \A i \in 1 .. Len(sections[s].items) + 1 : PlaceOf(s)[i] \in Nat
         /\ \A i \in DOMAIN sections[s].items :
              /\ ItemPlaced(PlaceOf(s), i, sections[s], symbols)
              /\ PositiveAlignment(sections[s].items[i])
<1>1. sections[s] \in Section
  BY DEF LaidOut
<1>2. /\ sections[s].items \in Seq(Item) /\ sections[s].size \in Word
      /\ sections[s].fileOffset \in Word /\ sections[s].virtualAddr \in Word
  BY <1>1 DEF Section
<1>3. Word \subseteq Nat
  BY WordAssumption DEF Word
<1>4. /\ PlaceOf(s) \in [1 .. Len(sections[s].items) + 1 -> Word]
      /\ IsPlaced(PlaceOf(s), sections[s], symbols)
  BY DEF LaidOut, PlaceOf
<1>5. /\ PlaceOf(s)[1] = 0
      /\ PlaceOf(s)[Len(sections[s].items) + 1] = sections[s].size
      /\ \A i \in DOMAIN sections[s].items :
           ItemPlaced(PlaceOf(s), i, sections[s], symbols)
  BY <1>4 DEF IsPlaced
<1>6. \A i \in DOMAIN sections[s].items : PositiveAlignment(sections[s].items[i])
  BY DEF LaidOut, AlignmentsPositive
<1>. QED
  BY <1>1, <1>2, <1>3, <1>4, <1>5, <1>6

-----------------------------------------------------------------------------
(* Measuring an item *)

\* Data that is measured alike gets as many bytes as the resolver counted.
LEMMA DataMeasure ==
  ASSUME NEW d \in DataDirective, AlikeMeasured(d), NEW f \in Nat, AtPage(f),
         NEW x \in Nat, outSize = f + x
  PROVE  DataLength(d) = estimateDataSize(d, x)
<1>1. /\ d.kind = "DATA" /\ d.dir \in DefineKind \cup ReserveKind \cup {"ALIGN"}
      /\ d.nums \in Nat /\ d.chars \in Nat /\ d.count \in Nat
  BY DEF DataDirective
<1>2. CASE d.dir = "ALIGN"
  <2>1. d.count \in Nat \ {0} /\ DividesPage(d.count)
    BY <1>1, <1>2 DEF AlikeMeasured, DividesPage
  <2>2. DataLength(d) = (d.count - ((f + x) % d.count)) % d.count
    BY <1>2 DEF DataLength, ReserveKind, DefineKind
  <2>3. DataLength(d) = AlignPadding(d.count, f + x)
    <3>. DEFINE c == d.count  y == f + x
    <3>1. c \in Nat \ {0} /\ y \in Nat
      BY <2>1
    <3>2. DataLength(d) = (c - (y % c)) % c
      BY <2>2
    <3>. HIDE DEF c, y
    <3>3. c = 1 => (c - (y % c)) % c = 0
      BY <3>1
    <3>4. DataLength(d) = AlignPadding(c, y)
      BY <3>1, <3>2, <3>3 DEF AlignPadding
    <3>. QED
      BY <3>4 DEF c, y
  <2>4. AlignPadding(d.count, f + x) = AlignPadding(d.count, x)
    BY <2>1, PaddingFromPage
  <2>5. estimateDataSize(d, x) = AlignPadding(d.count, x)
    BY <1>2 DEF estimateDataSize, ReserveKind, DefineKind
  <2>. QED
    BY <2>3, <2>4, <2>5
<1>3. CASE d.dir \in ReserveKind
  BY <1>3 DEF DataLength, estimateDataSize, ReserveKind, DefineKind
<1>4. CASE d.dir \in DefineKind
  <2>. DEFINE times == IF d.count > 1 THEN d.count ELSE 1
  <2>1. DataLength(d) = (UnitSize[d.dir] * d.nums + d.chars) * times
    BY <1>4 DEF DataLength, DefineKind, ReserveKind
  <2>2. estimateDataSize(d, x) = UnitSize[d.dir] * (d.nums + d.chars) * times
    BY <1>4 DEF estimateDataSize, estimateDataValues, DefineKind, ReserveKind
  <2>3. UnitSize[d.dir] * d.nums + d.chars = UnitSize[d.dir] * (d.nums + d.chars)
    <3>1. CASE d.dir = "DB"
      <4>1. UnitSize[d.dir] = 1
        BY <3>1 DEF UnitSize
      <4>. QED
        BY <1>1, <4>1
    <3>2. CASE d.dir # "DB"
      <4>1. d.chars = 0
        BY <1>1, <1>4, <3>2 DEF AlikeMeasured, DefineKind
      <4>2. UnitSize[d.dir] \in Nat
        BY <1>4, UnitSizeType
      <4>. QED
        BY <1>1, <4>1, <4>2
    <3>. QED
      BY <3>1, <3>2
  <2>. QED
    BY <2>1, <2>2, <2>3
<1>. QED
  BY <1>1, <1>2, <1>3, <1>4

\* Data has a length wherever it is emitted.
LEMMA DataLengthType ==
  ASSUME NEW d \in DataDirective, PositiveAlignment(d), outSize \in Nat
  PROVE  DataLength(d) \in Nat
<1>1. /\ d.kind = "DATA" /\ d.dir \in DefineKind \cup ReserveKind \cup {"ALIGN"}
      /\ d.nums \in Nat /\ d.chars \in Nat /\ d.count \in Nat
  BY DEF DataDirective
<1>2. CASE d.dir = "ALIGN"
  <2>. DEFINE c == d.count
  <2>1. c \in Nat \ {0}
    BY <1>1, <1>2 DEF PositiveAlignment
  <2>2. DataLength(d) = (c - (outSize % c)) % c
    BY <1>2 DEF DataLength, ReserveKind, DefineKind
  <2>. HIDE DEF c
  <2>3. c - (outSize % c) \in Nat
    BY <2>1
  <2>. QED
    BY <2>1, <2>2, <2>3
<1>3. CASE d.dir \in ReserveKind
  <2>1. DataLength(d) = UnitSize[d.dir] * d.count
    BY <1>3 DEF DataLength, ReserveKind, DefineKind
  <2>. QED
    BY <1>1, <1>3, <2>1, UnitSizeType
<1>4. CASE d.dir \in DefineKind
  <2>. DEFINE times == IF d.count > 1 THEN d.count ELSE 1  u == UnitSize[d.dir]
  <2>1. DataLength(d) = (u * d.nums + d.chars) * times
    BY <1>4 DEF DataLength, DefineKind, ReserveKind
  <2>2. u \in Nat /\ times \in Nat
    BY <1>1, <1>4, UnitSizeType
  <2>. HIDE DEF times, u
  <2>3. u * d.nums + d.chars \in Nat
    BY <1>1, <2>2
  <2>. QED
    BY <2>1, <2>2, <2>3
<1>. QED
  BY <1>1, <1>2, <1>3, <1>4

-----------------------------------------------------------------------------
(* The inductive invariant *)

\* The writer keeps what it was given.
TypeOK ==
  /\ LaidOut
  /\ phase \in {"start", "image", "section", "open", "write", "done", "failed"}
  /\ section \in 1 .. Len(sections) + 1
  /\ outSize \in Nat
  /\ currentVaddr \in Word
  /\ DOMAIN emitted = DOMAIN sections
  /\ \A s \in DOMAIN sections : /\ emitted[s] \in Seq([at : Nat, base : Word])
                                /\ Len(emitted[s]) <= Len(sections[s].items)
  /\ errors \in BOOLEAN

\* Sections are emitted one after the other, those with bytes, and completely.
Progress ==
  /\ phase = "start" => section = 1 /\ outSize = 0
  /\ phase = "section" => section <= Len(sections) /\ Emits(sections[section])
  /\ Built => section = Len(sections) + 1
  /\ \A s \in DOMAIN sections :
       /\ Emits(sections[s]) /\ s < section => Len(emitted[s]) = Len(sections[s].items)
       /\ ~Emits(sections[s]) => emitted[s] = <<>>
       /\ s > section \/ (s = section /\ phase # "section") => emitted[s] = <<>>

\* The items are in the image where the resolver put them, and the next one will
\* be, too; the image does not reach into a section before it is entered.
Located ==
  AsMeasured =>
    /\ \A s \in DOMAIN sections : \A i \in DOMAIN emitted[s] :
         /\ emitted[s][i].at = sections[s].fileOffset + PlaceOf(s)[i]
         /\ emitted[s][i].at <= outSize
    /\ phase = "section" =>
         outSize = sections[section].fileOffset + PlaceOf(section)[Len(emitted[section]) + 1]
    /\ phase = "image" =>
         \A s \in NonEmptySections : s >= section => outSize <= sections[s].fileOffset
    /\ \A s \in NonEmptySections :
         Emits(sections[s]) /\ s < section
           => sections[s].fileOffset + sections[s].size <= outSize

\* No data has been visited in the current section.
OnlyCodeSoFar ==
  \A i \in DOMAIN sections[section].items :
    i <= Len(emitted[section]) => sections[section].items[i].kind # "DATA"

\* Where no data precedes code, the encoder is told the address of every
\* instruction: currentVaddr, which data does not advance, is right as long as
\* only code and labels have been visited.
Based ==
  AsMeasured =>
    /\ \A s \in DOMAIN sections : CodeBeforeData(s) =>
         \A i \in InstructionsIn(s) :
           emitted[s][i].base = sections[s].virtualAddr + PlaceOf(s)[i]
    /\ phase = "section" /\ OnlyCodeSoFar =>
         currentVaddr = sections[section].virtualAddr
                          + PlaceOf(section)[Len(emitted[section]) + 1]

\* What the headers say.
Headers ==
  /\ \A segment \in segments :
       \E s \in NonEmptySections : segment = ProgramHeader(sections[s])
  /\ phase \notin {"start", "failed"} => HasEntryPoint /\ entry = findEntryPoint

IInv == TypeOK /\ Progress /\ Located /\ Based /\ Headers

-----------------------------------------------------------------------------
(* What the steps do *)

\* Nothing changes the program, nor what is defined from it.
LEMMA ProgramKept == [Next]_vars => UNCHANGED <<sections, symbols>>
BY DEF Next, write, emitSection, Finished, vars, progress, NoEntryPoint, EmitHeaders,
       SkipSection, EnterSection, EmitInstruction, EmitInstructionFailing, EmitData,
       EmitLabel, Emit, LeaveSection, EndImage, CannotOpen, OpenFile, WriteFile

LEMMA DerivedKept ==
  ASSUME UNCHANGED <<sections, symbols>>
  PROVE  /\ LaidOut' = LaidOut
         /\ NonEmptySections' = NonEmptySections
         /\ \A s : PlaceOf(s)' = PlaceOf(s)
         /\ \A s : CodeBeforeData(s)' = CodeBeforeData(s)
         /\ HasEntryPoint' = HasEntryPoint /\ findEntryPoint' = findEntryPoint
<1>1. NonEmptySections' = NonEmptySections
  BY DEF NonEmptySections
<1>2. LaidOut' = LaidOut
  BY <1>1 DEF LaidOut, LabelsPoint, AlignmentsPositive, InOrder, EndsInAddressSpace,
              PointsAtDefinition, IsSymbolTable
<1>3. \A s : PlaceOf(s)' = PlaceOf(s)
  BY DEF PlaceOf
<1>4. \A s : CodeBeforeData(s)' = CodeBeforeData(s)
  BY DEF CodeBeforeData
<1>5. HasEntryPoint' = HasEntryPoint /\ findEntryPoint' = findEntryPoint
  BY DEF HasEntryPoint, findEntryPoint
<1>. QED
  BY <1>1, <1>2, <1>3, <1>4, <1>5

\* The item being visited.
LEMMA VisitFacts ==
  ASSUME TypeOK, Progress, NEW kind, Visiting(kind), NEW k, k = Len(emitted[section]) + 1
  PROVE  /\ section \in DOMAIN sections /\ phase = "section"
         /\ Emits(sections[section]) /\ section \in NonEmptySections
         /\ k \in DOMAIN sections[section].items
         /\ k - 1 = Len(emitted[section]) /\ DOMAIN emitted[section] = 1 .. k - 1
         /\ item = sections[section].items[k]
         /\ item \in Item /\ item.kind = kind
         /\ PositiveAlignment(item)
<1>1. phase = "section" /\ section \in DOMAIN sections /\ Emits(sections[section])
  BY DEF TypeOK, LaidOut, Progress, Visiting
<1>2. section \in NonEmptySections
  BY <1>1 DEF NonEmptySections, Emits
<1>3. sections[section].items \in Seq(Item)
  BY <1>1, PlaceFacts DEF TypeOK
<1>4. emitted[section] \in Seq([at : Nat, base : Word])
  BY <1>1 DEF TypeOK
<1>5. /\ k \in DOMAIN sections[section].items
      /\ k - 1 = Len(emitted[section]) /\ DOMAIN emitted[section] = 1 .. k - 1
  BY <1>3, <1>4 DEF Visiting, items
<1>6. item = sections[section].items[k] /\ item \in Item /\ item.kind = kind
  BY <1>3, <1>5 DEF Visiting, item, items
<1>7. PositiveAlignment(item)
  BY <1>1, <1>5, <1>6, PlaceFacts DEF TypeOK
<1>. QED
  BY <1>1, <1>2, <1>5, <1>6, <1>7

\* What visiting an item adds to the image.
LEMMA EmitFacts ==
  ASSUME TypeOK, Progress, NEW kind, Visiting(kind), NEW size \in Nat, Emit(size),
         NEW k, k = Len(emitted[section]) + 1
  PROVE  /\ UNCHANGED <<sections, symbols, phase, section, entry, segments, file>>
         /\ outSize' = outSize + size
         /\ DOMAIN emitted' = DOMAIN emitted
         /\ \A s \in DOMAIN emitted \ {section} : emitted'[s] = emitted[s]
         /\ emitted'[section] \in Seq([at : Nat, base : Word])
         /\ Len(emitted'[section]) = k
         /\ emitted'[section][k].at = outSize /\ emitted'[section][k].base = currentVaddr
         /\ \A i \in DOMAIN emitted[section] : emitted'[section][i] = emitted[section][i]
<1>. DEFINE e == emitted[section]  new == [at |-> outSize, base |-> currentVaddr]
            longer == Append(e, new)
<1>1. section \in DOMAIN emitted
  BY VisitFacts DEF TypeOK
<1>2. e \in Seq([at : Nat, base : Word]) /\ new \in [at : Nat, base : Word] /\ k = Len(e) + 1
  BY <1>1 DEF TypeOK
<1>3. emitted' = [emitted EXCEPT ![section] = longer]
  BY DEF Emit
<1>4. new.at = outSize /\ new.base = currentVaddr
  OBVIOUS
<1>. HIDE DEF e, new
<1>5. /\ longer \in Seq([at : Nat, base : Word]) /\ Len(longer) = k
      /\ longer[k] = new /\ \A i \in DOMAIN e : longer[i] = e[i]
  BY <1>2
<1>. HIDE DEF longer
<1>6. /\ DOMAIN emitted' = DOMAIN emitted /\ emitted'[section] = longer
      /\ \A s \in DOMAIN emitted \ {section} : emitted'[s] = emitted[s]
  BY <1>1, <1>3 DEF TypeOK
<1>7. /\ UNCHANGED <<sections, symbols, phase, section, entry, segments, file>>
      /\ outSize' = outSize + size
  BY DEF Emit
<1>. QED
  BY <1>4, <1>5, <1>6, <1>7 DEF e

\* An item is visited, and if that succeeds its bytes are those of its kind.
Visit(kind, size) ==
  /\ Visiting(kind)
  /\ Emit(size)
  /\ size \in Nat /\ currentVaddr' \in Word /\ errors' \in BOOLEAN
  /\ errors => errors'
  /\ ~errors' =>
       \/ /\ kind = "INSTR" /\ size = EncodedLength(item, symbols)
          /\ currentVaddr' = Wrap(currentVaddr + size)
       \/ /\ kind = "DATA" /\ size = DataLength(item)
          /\ UNCHANGED currentVaddr
       \/ /\ kind = "LABEL" /\ size = 0
          /\ UNCHANGED currentVaddr

LEMMA VisitKinds ==
  ASSUME TypeOK, Progress,
         EmitInstruction \/ EmitInstructionFailing \/ EmitData \/ EmitLabel
  PROVE  \E kind \in {"INSTR", "DATA", "LABEL"} : \E size \in Nat : Visit(kind, size)
<1>. USE DEF TypeOK
<1>1. CASE EmitInstruction
  <2>1. Visiting("INSTR")
    BY <1>1 DEF EmitInstruction
  <2>2. item \in Instruction
    BY <2>1, VisitFacts, ItemByKind
  <2>. DEFINE size == EncodedLength(item, symbols)
  <2>3. size \in Nat
    BY <2>2, EncodedLengthType
  <2>4. Emit(size) /\ currentVaddr' = Wrap(currentVaddr + size) /\ UNCHANGED errors
    BY <1>1 DEF EmitInstruction
  <2>5. currentVaddr + size \in Nat
    BY <2>3, WordAssumption DEF Word
  <2>6. currentVaddr' \in Word
    BY <2>4, <2>5, WrapType
  <2>7. Visit("INSTR", size)
    BY <2>1, <2>3, <2>4, <2>6 DEF Visit
  <2>. QED
    BY <2>3, <2>7
<1>2. CASE EmitInstructionFailing
  <2>1. Visit("INSTR", 0)
    BY <1>2 DEF EmitInstructionFailing, Visit
  <2>. QED
    BY <2>1
<1>3. CASE EmitData
  <2>1. Visiting("DATA")
    BY <1>3 DEF EmitData
  <2>2. item \in DataDirective /\ PositiveAlignment(item)
    BY <2>1, VisitFacts, ItemByKind
  <2>. DEFINE size == DataLength(item)
  <2>3. size \in Nat
    BY <2>2, DataLengthType
  <2>4. Emit(size) /\ UNCHANGED <<currentVaddr, errors>>
    BY <1>3 DEF EmitData
  <2>5. Visit("DATA", size)
    BY <2>1, <2>3, <2>4 DEF Visit
  <2>. QED
    BY <2>3, <2>5
<1>4. CASE EmitLabel
  <2>1. Visit("LABEL", 0)
    BY <1>4 DEF EmitLabel, Visit
  <2>. QED
    BY <2>1
<1>. QED
  BY <1>1, <1>2, <1>3, <1>4

\* The steps of write(): a visit of an item, or one of the others.
LEMMA StepKinds ==
  ASSUME TypeOK, Progress, [Next]_vars
  PROVE  \/ NoEntryPoint \/ EmitHeaders \/ SkipSection \/ EnterSection
         \/ \E kind \in {"INSTR", "DATA", "LABEL"} : \E size \in Nat : Visit(kind, size)
         \/ LeaveSection \/ EndImage \/ CannotOpen \/ OpenFile \/ WriteFile
         \/ UNCHANGED vars
BY VisitKinds DEF Next, write, emitSection, Finished

-----------------------------------------------------------------------------
(* Types and progress *)

LEMMA TypeInit == InitProgress /\ LaidOut => TypeOK
<1>. SUFFICES ASSUME InitProgress, LaidOut PROVE TypeOK
  OBVIOUS
<1>2. \A s \in DOMAIN sections : sections[s].items \in Seq(Item)
  BY PlaceFacts
<1>3. \A s \in DOMAIN sections : /\ emitted[s] \in Seq([at : Nat, base : Word])
                                 /\ Len(emitted[s]) <= Len(sections[s].items)
  BY <1>2 DEF InitProgress
<1>4. 0 \in Word
  BY WordAssumption DEF Word
<1>5. section \in 1 .. Len(sections) + 1
  BY DEF InitProgress, LaidOut
<1>. QED
  BY <1>3, <1>4, <1>5 DEF InitProgress, TypeOK

LEMMA VisitType ==
  ASSUME TypeOK, Progress, NEW kind, NEW size \in Nat, Visit(kind, size)
  PROVE  TypeOK'
<1>. DEFINE k == Len(emitted[section]) + 1
<1>1. Visiting(kind) /\ Emit(size)
  BY DEF Visit
<1>2. section \in DOMAIN sections /\ k \in DOMAIN sections[section].items
  BY <1>1, VisitFacts
<1>3. /\ UNCHANGED <<sections, symbols, phase, section, entry, segments, file>>
      /\ outSize' = outSize + size
      /\ DOMAIN emitted' = DOMAIN emitted
      /\ \A s \in DOMAIN emitted \ {section} : emitted'[s] = emitted[s]
      /\ emitted'[section] \in Seq([at : Nat, base : Word])
      /\ Len(emitted'[section]) = k
  BY <1>1, EmitFacts
<1>4. sections[section].items \in Seq(Item)
  BY <1>2, PlaceFacts DEF TypeOK
<1>5. k <= Len(sections[section].items)
  BY <1>2, <1>4
<1>. HIDE DEF k
<1>6. ASSUME NEW s \in DOMAIN sections
      PROVE  /\ emitted'[s] \in Seq([at : Nat, base : Word])
             /\ Len(emitted'[s]) <= Len(sections[s].items)
  <2>1. CASE s = section
    BY <1>3, <1>5, <2>1
  <2>2. CASE s # section
    BY <1>3, <2>2 DEF TypeOK
  <2>. QED
    BY <2>1, <2>2
<1>7. LaidOut'
  BY <1>3, DerivedKept DEF TypeOK
<1>8. currentVaddr' \in Word /\ errors' \in BOOLEAN
  BY DEF Visit
<1>9. outSize' \in Nat
  BY <1>3 DEF TypeOK
<1>. QED
  BY <1>3, <1>6, <1>7, <1>8, <1>9 DEF TypeOK

LEMMA TypeStep == TypeOK /\ Progress /\ [Next]_vars => TypeOK'
<1>. SUFFICES ASSUME TypeOK, Progress, [Next]_vars PROVE TypeOK'
  OBVIOUS
<1>1. UNCHANGED <<sections, symbols>> /\ LaidOut'
  BY ProgramKept, DerivedKept DEF TypeOK
<1>2. Len(sections) \in Nat
  BY DEF TypeOK, LaidOut
<1>3. CASE NoEntryPoint
  BY <1>1, <1>3 DEF TypeOK, NoEntryPoint
<1>4. CASE EmitHeaders
  <2>1. Cardinality(NonEmptySections) \in Nat
    <3>1. IsFiniteSet(1 .. Len(sections))
      BY <1>2, FS_Interval
    <3>2. NonEmptySections \subseteq 1 .. Len(sections)
      BY DEF NonEmptySections, TypeOK, LaidOut
    <3>. QED
      BY <3>1, <3>2, FS_Subset, FS_CardinalityType
  <2>2. outSize' \in Nat
    BY <1>4, <2>1 DEF EmitHeaders, ELF_HEADER_SIZE, PHDR_SIZE
  <2>. QED
    BY <1>1, <1>4, <2>2 DEF TypeOK, EmitHeaders
<1>5. CASE SkipSection
  <2>1. section' \in 1 .. Len(sections) + 1
    BY <1>2, <1>5 DEF TypeOK, SkipSection
  <2>. QED
    BY <1>1, <1>5, <2>1 DEF TypeOK, SkipSection
<1>6. CASE EnterSection
  <2>1. section \in DOMAIN sections
    BY <1>6 DEF EnterSection, TypeOK, LaidOut
  <2>2. sections[section].fileOffset \in Nat /\ sections[section].virtualAddr \in Word
    BY <2>1, PlaceFacts DEF TypeOK
  <2>3. outSize' \in Nat /\ currentVaddr' \in Word
    BY <1>6, <2>2 DEF TypeOK, EnterSection
  <2>. QED
    BY <1>1, <1>6, <2>3 DEF TypeOK, EnterSection
<1>7. CASE \E kind \in {"INSTR", "DATA", "LABEL"} : \E size \in Nat : Visit(kind, size)
  BY <1>7, VisitType
<1>8. CASE LeaveSection
  <2>1. section \in DOMAIN sections
    BY <1>8 DEF LeaveSection, TypeOK, LaidOut, Progress
  <2>2. section' \in 1 .. Len(sections) + 1
    BY <1>2, <1>8, <2>1 DEF TypeOK, LeaveSection, LaidOut
  <2>. QED
    BY <1>1, <1>8, <2>2 DEF TypeOK, LeaveSection
<1>9. CASE EndImage
  BY <1>1, <1>9 DEF TypeOK, EndImage
<1>10. CASE CannotOpen \/ OpenFile \/ WriteFile
  BY <1>1, <1>10 DEF TypeOK, CannotOpen, OpenFile, WriteFile
<1>11. CASE UNCHANGED vars
  BY <1>1, <1>11 DEF TypeOK, vars, progress
<1>. QED
  BY <1>3, <1>4, <1>5, <1>6, <1>7, <1>8, <1>9, <1>10, <1>11, StepKinds

LEMMA ProgressInit == InitProgress /\ LaidOut => Progress
<1>. SUFFICES ASSUME InitProgress, LaidOut PROVE Progress
  OBVIOUS
<1>1. \A s \in DOMAIN sections : s \in Nat /\ s >= 1
  BY DEF LaidOut
<1>. QED
  BY <1>1 DEF InitProgress, Progress, Built

LEMMA ProgressStep == TypeOK /\ Progress /\ [Next]_vars => Progress'
<1>. SUFFICES ASSUME TypeOK, Progress, [Next]_vars PROVE Progress'
  OBVIOUS
<1>1. UNCHANGED <<sections, symbols>>
  BY ProgramKept
<1>2. /\ Len(sections) \in Nat /\ DOMAIN sections = 1 .. Len(sections)
      /\ section \in Nat /\ section <= Len(sections) + 1
  BY DEF TypeOK, LaidOut
<1>3. CASE NoEntryPoint
  BY <1>1, <1>3 DEF Progress, NoEntryPoint, Built, Emits
<1>4. CASE EmitHeaders
  BY <1>1, <1>4 DEF Progress, EmitHeaders, Built, Emits
<1>5. CASE SkipSection
  <2>1. ASSUME NEW s \in DOMAIN sections, Emits(sections[s]), s < section'
        PROVE  Len(emitted[s]) = Len(sections[s].items)
    <3>1. s < section
      BY <1>2, <1>5, <2>1 DEF SkipSection
    <3>. QED
      BY <2>1, <3>1 DEF Progress
  <2>2. ASSUME NEW s \in DOMAIN sections, s >= section'
        PROVE  emitted[s] = <<>>
    <3>1. s > section
      BY <1>2, <1>5, <2>2 DEF SkipSection
    <3>. QED
      BY <3>1 DEF Progress
  <2>. QED
    BY <1>1, <1>2, <1>5, <2>1, <2>2 DEF Progress, SkipSection, Built, Emits
<1>6. CASE EnterSection
  BY <1>1, <1>6 DEF Progress, EnterSection, Built, Emits
<1>7. CASE \E kind \in {"INSTR", "DATA", "LABEL"} : \E size \in Nat : Visit(kind, size)
  <2>1. PICK kind \in {"INSTR", "DATA", "LABEL"}, size \in Nat : Visit(kind, size)
    BY <1>7
  <2>2. Visiting(kind) /\ Emit(size)
    BY <2>1 DEF Visit
  <2>3. Emits(sections[section]) /\ phase = "section" /\ section \in DOMAIN sections
    BY <2>2, VisitFacts
  <2>4. /\ UNCHANGED <<phase, section>>
        /\ \A s \in DOMAIN sections \ {section} : emitted'[s] = emitted[s]
    BY <2>2, EmitFacts DEF TypeOK
  <2>5. ASSUME NEW s \in DOMAIN sections
        PROVE  /\ Emits(sections[s]) /\ s < section
                    => Len(emitted'[s]) = Len(sections[s].items)
               /\ ~Emits(sections[s]) => emitted'[s] = <<>>
               /\ s > section => emitted'[s] = <<>>
    <3>1. CASE s = section
      BY <1>2, <2>3, <3>1
    <3>2. CASE s # section
      BY <2>4, <3>2 DEF Progress
    <3>. QED
      BY <3>1, <3>2
  <2>. QED
    BY <1>1, <1>2, <2>3, <2>4, <2>5 DEF Progress, Built, Emits
<1>8. CASE LeaveSection
  <2>1. ASSUME NEW s \in DOMAIN sections, Emits(sections[s]), s < section'
        PROVE  Len(emitted[s]) = Len(sections[s].items)
    <3>1. CASE s < section
      BY <2>1, <3>1 DEF Progress
    <3>2. CASE s = section
      BY <1>8, <3>2 DEF LeaveSection, items
    <3>. QED
      BY <1>2, <1>8, <2>1, <3>1, <3>2 DEF LeaveSection
  <2>2. ASSUME NEW s \in DOMAIN sections, s >= section'
        PROVE  emitted[s] = <<>>
    <3>1. s > section
      BY <1>2, <1>8, <2>2 DEF LeaveSection
    <3>. QED
      BY <3>1 DEF Progress
  <2>. QED
    BY <1>1, <1>2, <1>8, <2>1, <2>2 DEF Progress, LeaveSection, Built, Emits
<1>9. CASE EndImage
  BY <1>1, <1>9 DEF Progress, EndImage, Built, Emits
<1>10. CASE CannotOpen \/ OpenFile \/ WriteFile
  BY <1>1, <1>10 DEF Progress, CannotOpen, OpenFile, WriteFile, Built, Emits
<1>11. CASE UNCHANGED vars
  BY <1>1, <1>11 DEF Progress, vars, progress, Built, Emits
<1>. QED
  BY <1>3, <1>4, <1>5, <1>6, <1>7, <1>8, <1>9, <1>10, <1>11, StepKinds

-----------------------------------------------------------------------------
(* The place of every item *)

\* Errors stay, and the image only grows.
LEMMA ImageGrows ==
  ASSUME TypeOK, Progress, [Next]_vars
  PROVE  (errors => errors') /\ (~errors' => outSize <= outSize')
<1>1. CASE NoEntryPoint
  BY <1>1 DEF NoEntryPoint
<1>2. CASE EmitHeaders
  <2>1. outSize = 0 /\ TypeOK'
    BY <1>2, TypeStep DEF Progress, EmitHeaders
  <2>. QED
    BY <1>2, <2>1 DEF EmitHeaders, TypeOK
<1>3. CASE EnterSection
  <2>1. sections[section].fileOffset \in Nat
    BY <1>3, PlaceFacts DEF EnterSection, TypeOK, LaidOut
  <2>. QED
    BY <1>3, <2>1 DEF EnterSection, TypeOK
<1>4. CASE \E kind \in {"INSTR", "DATA", "LABEL"} : \E size \in Nat : Visit(kind, size)
  <2>1. PICK kind \in {"INSTR", "DATA", "LABEL"}, size \in Nat : Visit(kind, size)
    BY <1>4
  <2>2. outSize' = outSize + size /\ (errors => errors')
    BY <2>1 DEF Visit, Emit
  <2>. QED
    BY <2>2 DEF TypeOK
<1>5. CASE SkipSection \/ LeaveSection \/ EndImage \/ CannotOpen \/ OpenFile \/ WriteFile
           \/ UNCHANGED vars
  BY <1>5 DEF SkipSection, LeaveSection, EndImage, CannotOpen, OpenFile, WriteFile, vars,
              progress, TypeOK
<1>. QED
  BY <1>1, <1>2, <1>3, <1>4, <1>5, StepKinds

\* What is measured alike after a step was before it.
LEMMA MeasuredBefore ==
  ASSUME TypeOK, Progress, [Next]_vars, AsMeasured'
  PROVE  AsMeasured
<1>1. UNCHANGED <<sections, symbols>> /\ NonEmptySections' = NonEmptySections
  BY ProgramKept, DerivedKept
<1>2. ~errors /\ outSize <= outSize'
  BY ImageGrows DEF AsMeasured
<1>3. outSize \in Nat /\ outSize' \in Nat
  BY TypeStep DEF TypeOK
<1>4. NothingWraps
  <2>. SUFFICES ASSUME NEW s \in NonEmptySections
                PROVE  /\ sections[s].virtualAddr + sections[s].size + 4096 <= WordSize
                       /\ sections[s].virtualAddr + outSize <= WordSize
    BY DEF NothingWraps
  <2>1. sections[s].virtualAddr \in Nat
    BY PlaceFacts DEF NonEmptySections, TypeOK
  <2>2. /\ sections[s].virtualAddr + sections[s].size + 4096 <= WordSize
        /\ sections[s].virtualAddr + outSize' <= WordSize
    BY <1>1 DEF AsMeasured, NothingWraps
  <2>. QED
    BY <1>2, <1>3, <2>1, <2>2, WordAssumption
<1>. QED
  BY <1>1, <1>2, <1>4 DEF AsMeasured, AlikeMeasured

\* Then no section overlaps the headers or another one, and none starts at 0.
LEMMA OrderFacts ==
  ASSUME TypeOK, AsMeasured
  PROVE  /\ InOrder
         /\ \A s \in NonEmptySections :
              /\ s \in DOMAIN sections
              /\ sections[s].fileOffset \in Nat /\ sections[s].fileOffset >= 64
              /\ sections[s].size \in Nat
              /\ AtPage(sections[s].fileOffset)
<1>1. InOrder
  BY DEF TypeOK, LaidOut, AsMeasured, NothingWraps, EndsInAddressSpace
<1>. SUFFICES ASSUME NEW s \in NonEmptySections
              PROVE  /\ s \in DOMAIN sections
                     /\ sections[s].fileOffset \in Nat /\ sections[s].fileOffset >= 64
                     /\ sections[s].size \in Nat
                     /\ AtPage(sections[s].fileOffset)
  BY <1>1
<1>2. s \in DOMAIN sections
  BY DEF NonEmptySections
<1>3. sections[s].fileOffset \in Nat /\ sections[s].size \in Nat
  BY <1>2, PlaceFacts DEF TypeOK
<1>4. Len(sections) \in Nat
  BY DEF TypeOK, LaidOut
<1>5. sections[s].fileOffset >= 64
  BY <1>1, <1>3, <1>4 DEF InOrder, ELF_HEADER_SIZE, PHDR_SIZE
<1>6. AtPage(sections[s].fileOffset)
  BY DEF TypeOK, LaidOut, AtPage
<1>. QED
  BY <1>2, <1>3, <1>5, <1>6

\* The writer finds an item as long as the resolver did, so the next item is due
\* where the resolver put it.
LEMMA VisitMeasured ==
  ASSUME TypeOK, Progress, Located, AsMeasured, AsMeasured',
         NEW kind \in {"INSTR", "DATA", "LABEL"}, NEW size \in Nat, Visit(kind, size),
         NEW k, k = Len(emitted[section]) + 1
  PROVE  /\ outSize = sections[section].fileOffset + PlaceOf(section)[k]
         /\ PlaceOf(section)[k + 1] = PlaceOf(section)[k] + size
         /\ sections[section].virtualAddr + PlaceOf(section)[k + 1] < WordSize
<1>. DEFINE f == sections[section].fileOffset  x == PlaceOf(section)[k]
            v == sections[section].virtualAddr
<1>1. /\ Visiting(kind) /\ Emit(size) /\ ~errors'
  BY DEF Visit, AsMeasured
<1>2. /\ section \in DOMAIN sections /\ phase = "section"
      /\ section \in NonEmptySections
      /\ k \in DOMAIN sections[section].items
      /\ item = sections[section].items[k] /\ item \in Item /\ item.kind = kind
  BY <1>1, VisitFacts
<1>3. /\ f \in Nat /\ f >= 64 /\ AtPage(f)
  BY <1>2, OrderFacts
<1>4. /\ \A i \in 1 .. Len(sections[section].items) + 1 : PlaceOf(section)[i] \in Nat
      /\ ItemPlaced(PlaceOf(section), k, sections[section], symbols)
      /\ v \in Nat /\ sections[section].items \in Seq(Item)
  BY <1>2, PlaceFacts DEF TypeOK
<1>5. x \in Nat
  BY <1>2, <1>4
<1>6. outSize = f + x
  BY <1>2 DEF Located
<1>7. size = ItemSize(item, x, symbols)
  <2>1. CASE kind = "INSTR"
    BY <1>1, <1>2, <2>1 DEF Visit, ItemSize
  <2>2. CASE kind = "DATA"
    <3>1. item \in DataDirective
      BY <1>2, <2>2, ItemByKind
    <3>2. AlikeMeasured(item)
      BY <1>2 DEF AsMeasured
    <3>3. size = DataLength(item)
      BY <1>1, <2>2 DEF Visit
    <3>4. DataLength(item) = estimateDataSize(item, x)
      BY <1>3, <1>5, <1>6, <3>1, <3>2, DataMeasure
    <3>. QED
      BY <1>2, <2>2, <3>3, <3>4 DEF ItemSize
  <2>3. CASE kind = "LABEL"
    BY <1>1, <1>2, <2>3 DEF Visit, ItemSize
  <2>. QED
    BY <2>1, <2>2, <2>3
<1>8. v + (f + x + size) <= WordSize
  <2>1. outSize' = f + x + size
    BY <1>1, <1>6 DEF Emit
  <2>2. UNCHANGED <<sections, symbols>> /\ NonEmptySections' = NonEmptySections
    BY <1>1, DerivedKept DEF Emit
  <2>. QED
    BY <1>2, <2>1, <2>2 DEF AsMeasured, NothingWraps
<1>9. PlaceOf(section)[k + 1] = Wrap(x + size)
  BY <1>2, <1>4, <1>7 DEF ItemPlaced
<1>. HIDE DEF f, x, v
<1>10. x + size \in Nat /\ x + size < WordSize
  BY <1>3, <1>4, <1>5, <1>8, WordAssumption
<1>11. PlaceOf(section)[k + 1] = x + size
  BY <1>9, <1>10, WrapExact
<1>12. v + PlaceOf(section)[k + 1] < WordSize
  BY <1>3, <1>4, <1>5, <1>8, <1>11, WordAssumption
<1>. QED
  BY <1>6, <1>11, <1>12 DEF f, x, v

LEMMA LocatedInit == InitProgress /\ LaidOut => Located
<1>. SUFFICES ASSUME InitProgress, LaidOut PROVE Located
  OBVIOUS
<1>1. /\ phase = "start" /\ section = 1
      /\ \A s \in DOMAIN sections : emitted[s] = <<>>
  BY DEF InitProgress
<1>2. \A s \in NonEmptySections : ~(s < section)
  BY <1>1 DEF NonEmptySections, LaidOut
<1>. QED
  BY <1>1, <1>2 DEF Located

\* The headers end before the first section.
LEMMA HeadersFit ==
  ASSUME TypeOK, AsMeasured, NEW s \in NonEmptySections
  PROVE  ELF_HEADER_SIZE + PHDR_SIZE * Cardinality(NonEmptySections)
           <= sections[s].fileOffset
<1>. DEFINE n == Len(sections)  c == Cardinality(NonEmptySections)
<1>1. n \in Nat
  BY DEF TypeOK, LaidOut
<1>2. IsFiniteSet(1 .. n) /\ Cardinality(1 .. n) = n
  <2>. HIDE DEF n
  <2>1. n \in Int /\ 1 \in Int
    BY <1>1
  <2>2. IsFiniteSet(1 .. n) /\ Cardinality(1 .. n) = IF 1 > n THEN 0 ELSE n - 1 + 1
    BY <2>1, FS_Interval, Zenon
  <2>. QED
    BY <1>1, <2>2
<1>3. NonEmptySections \subseteq 1 .. n
  BY DEF NonEmptySections, TypeOK, LaidOut
<1>4. c \in Nat /\ c <= n
  BY <1>2, <1>3, FS_Subset, FS_CardinalityType
<1>5. 64 + 56 * n <= sections[s].fileOffset /\ sections[s].fileOffset \in Nat
  BY OrderFacts DEF InOrder, ELF_HEADER_SIZE, PHDR_SIZE
<1>. HIDE DEF n, c
<1>6. 64 + 56 * c <= sections[s].fileOffset
  BY <1>1, <1>4, <1>5
<1>. QED
  BY <1>6 DEF c, ELF_HEADER_SIZE, PHDR_SIZE

\* A successful visit puts the item where the resolver put it.
LEMMA VisitLocated ==
  ASSUME TypeOK, Progress, Located, AsMeasured, AsMeasured',
         NEW kind \in {"INSTR", "DATA", "LABEL"}, NEW size \in Nat, Visit(kind, size)
  PROVE  Located'
<1>. DEFINE k == Len(emitted[section]) + 1
<1>1. Visiting(kind) /\ Emit(size)
  BY DEF Visit
<1>2. /\ section \in DOMAIN sections /\ phase = "section"
      /\ DOMAIN emitted[section] = 1 .. k - 1 /\ k \in Nat \ {0}
  <2>1. /\ section \in DOMAIN sections /\ phase = "section"
        /\ DOMAIN emitted[section] = 1 .. k - 1
    BY <1>1, VisitFacts
  <2>2. emitted[section] \in Seq([at : Nat, base : Word])
    BY <2>1 DEF TypeOK
  <2>. QED
    BY <2>1, <2>2
<1>3. /\ UNCHANGED <<sections, symbols, phase, section>>
      /\ outSize' = outSize + size
      /\ DOMAIN emitted' = DOMAIN emitted
      /\ \A s \in DOMAIN emitted \ {section} : emitted'[s] = emitted[s]
      /\ emitted'[section] \in Seq([at : Nat, base : Word])
      /\ Len(emitted'[section]) = k
      /\ emitted'[section][k].at = outSize
      /\ \A i \in DOMAIN emitted[section] : emitted'[section][i] = emitted[section][i]
  BY <1>1, EmitFacts
<1>4. /\ outSize = sections[section].fileOffset + PlaceOf(section)[k]
      /\ PlaceOf(section)[k + 1] = PlaceOf(section)[k] + size
  BY VisitMeasured
<1>5. outSize \in Nat /\ outSize <= outSize'
  BY <1>3 DEF TypeOK
<1>. HIDE DEF k
<1>6. ASSUME NEW s \in DOMAIN sections, NEW i \in DOMAIN emitted'[s]
      PROVE  /\ emitted'[s][i].at = sections[s].fileOffset + PlaceOf(s)[i]
             /\ emitted'[s][i].at <= outSize'
  <2>1. CASE s = section /\ i = k
    BY <1>3, <1>4, <1>5, <2>1
  <2>2. CASE ~(s = section /\ i = k)
    <3>1. i \in DOMAIN emitted[s] /\ emitted'[s][i] = emitted[s][i]
      <4>1. CASE s = section
        <5>1. DOMAIN emitted'[section] = 1 .. k
          BY <1>3
        <5>2. i \in 1 .. k - 1
          BY <1>2, <1>6, <2>2, <4>1, <5>1
        <5>. QED
          BY <1>2, <1>3, <4>1, <5>2
      <4>2. CASE s # section
        BY <1>3, <1>6, <4>2 DEF TypeOK
      <4>. QED
        BY <4>1, <4>2
    <3>2. /\ emitted[s][i].at = sections[s].fileOffset + PlaceOf(s)[i]
          /\ emitted[s][i].at <= outSize
      BY <3>1 DEF Located
    <3>3. emitted[s][i].at \in Nat
      <4>. DEFINE T == [at : Nat, base : Word]  e == emitted[s]
      <4>1. e \in Seq(T) /\ i \in DOMAIN e
        BY <3>1 DEF TypeOK
      <4>. HIDE DEF T, e
      <4>2. e[i] \in T
        BY <4>1
      <4>. QED
        BY <4>2 DEF T, e
    <3>. QED
      BY <1>3, <1>5, <3>1, <3>2, <3>3 DEF TypeOK
  <2>. QED
    BY <2>1, <2>2
<1>7. outSize' = sections[section].fileOffset + PlaceOf(section)[Len(emitted'[section]) + 1]
  <2>1. PlaceOf(section)[k] \in Nat /\ sections[section].fileOffset \in Nat
    BY <1>1, <1>2, VisitFacts, PlaceFacts DEF TypeOK, k
  <2>. QED
    BY <1>3, <1>4, <2>1
<1>8. ASSUME NEW s \in NonEmptySections, Emits(sections[s]), s < section
      PROVE  sections[s].fileOffset + sections[s].size <= outSize'
  <2>1. sections[s].fileOffset + sections[s].size <= outSize
    BY <1>8 DEF Located
  <2>2. sections[s].fileOffset \in Nat /\ sections[s].size \in Nat
    BY OrderFacts
  <2>. QED
    BY <1>3, <1>5, <2>1, <2>2
<1>9. /\ NonEmptySections' = NonEmptySections /\ \A s : PlaceOf(s)' = PlaceOf(s)
  BY <1>3, DerivedKept
<1>. QED
  BY <1>2, <1>3, <1>6, <1>7, <1>8, <1>9 DEF Located, Emits

LEMMA LocatedStep == TypeOK /\ Progress /\ Located /\ [Next]_vars => Located'
<1>. SUFFICES ASSUME TypeOK, Progress, Located, [Next]_vars, AsMeasured' PROVE Located'
  BY DEF Located
<1>1. AsMeasured /\ ~errors'
  BY MeasuredBefore DEF AsMeasured
<1>2. /\ UNCHANGED <<sections, symbols>> /\ NonEmptySections' = NonEmptySections
      /\ \A s : PlaceOf(s)' = PlaceOf(s)
  BY ProgramKept, DerivedKept
<1>3. /\ Len(sections) \in Nat /\ DOMAIN sections = 1 .. Len(sections) /\ section \in Nat
      /\ section >= 1 /\ DOMAIN emitted = DOMAIN sections
      /\ outSize \in Nat /\ outSize' \in Nat
      /\ \A s \in NonEmptySections : s \in DOMAIN sections
  <2>1. TypeOK'
    BY TypeStep
  <2>2. outSize' \in Nat
    BY <2>1 DEF TypeOK
  <2>3. sections \in Seq(Section)
    BY DEF TypeOK, LaidOut
  <2>. QED
    BY <2>2, <2>3 DEF TypeOK, NonEmptySections
<1>4. /\ \A s \in DOMAIN sections : \A i \in DOMAIN emitted[s] :
           /\ emitted[s][i].at = sections[s].fileOffset + PlaceOf(s)[i]
           /\ emitted[s][i].at <= outSize
      /\ phase = "section" =>
           outSize = sections[section].fileOffset + PlaceOf(section)[Len(emitted[section]) + 1]
      /\ phase = "image" =>
           \A s \in NonEmptySections : s >= section => outSize <= sections[s].fileOffset
      /\ \A s \in NonEmptySections :
           Emits(sections[s]) /\ s < section
             => sections[s].fileOffset + sections[s].size <= outSize
  BY <1>1 DEF Located
<1>5. CASE NoEntryPoint
  BY <1>1, <1>5 DEF NoEntryPoint
<1>6. CASE EmitHeaders
  <2>1. section = 1 /\ \A s \in DOMAIN sections : emitted[s] = <<>>
    BY <1>3, <1>6 DEF Progress, EmitHeaders
  <2>2. \A s \in NonEmptySections : outSize' <= sections[s].fileOffset
    BY <1>1, <1>6, HeadersFit DEF EmitHeaders
  <2>3. \A s \in NonEmptySections : ~(s < section)
    BY <1>3, <2>1
  <2>. QED
    BY <1>2, <1>6, <2>1, <2>2, <2>3 DEF Located, EmitHeaders
<1>7. CASE SkipSection
  <2>1. \A s \in NonEmptySections : s >= section' => outSize <= sections[s].fileOffset
    BY <1>3, <1>4, <1>7 DEF SkipSection
  <2>2. ASSUME NEW s \in NonEmptySections, Emits(sections[s]), s < section'
        PROVE  sections[s].fileOffset + sections[s].size <= outSize
    <3>1. s < section
      BY <1>3, <1>7, <2>2 DEF SkipSection
    <3>. QED
      BY <1>4, <2>2, <3>1
  <2>. QED
    BY <1>2, <1>4, <1>7, <2>1, <2>2 DEF Located, SkipSection, Emits
<1>8. CASE EnterSection
  <2>1. section \in NonEmptySections /\ emitted[section] = <<>>
    BY <1>3, <1>8 DEF EnterSection, NonEmptySections, Emits, Progress
  <2>2. sections[section].fileOffset \in Nat /\ PlaceOf(section)[1] = 0
    BY <1>3, <2>1, PlaceFacts DEF TypeOK
  <2>3. outSize <= sections[section].fileOffset
    BY <1>3, <1>4, <1>8, <2>1 DEF EnterSection
  <2>4. outSize' = sections[section].fileOffset
    BY <1>3, <1>8, <2>2, <2>3 DEF EnterSection
  <2>5. outSize' = sections[section].fileOffset + PlaceOf(section)[Len(emitted[section]) + 1]
    BY <2>1, <2>2, <2>4
  <2>6. ASSUME NEW s \in DOMAIN sections, NEW i \in DOMAIN emitted[s]
        PROVE  /\ emitted[s][i].at = sections[s].fileOffset + PlaceOf(s)[i]
               /\ emitted[s][i].at <= outSize'
    <3>1. emitted[s][i].at \in Nat
      <4>. DEFINE T == [at : Nat, base : Word]  e == emitted[s]
      <4>1. e \in Seq(T) /\ i \in DOMAIN e
        BY <2>6 DEF TypeOK
      <4>. HIDE DEF T, e
      <4>2. e[i] \in T
        BY <4>1
      <4>. QED
        BY <4>2 DEF T, e
    <3>. QED
      BY <1>3, <1>4, <2>3, <2>4, <3>1
  <2>7. ASSUME NEW s \in NonEmptySections, Emits(sections[s]), s < section
        PROVE  sections[s].fileOffset + sections[s].size <= outSize'
    <3>1. sections[s].fileOffset \in Nat /\ sections[s].size \in Nat
      BY <1>1, OrderFacts
    <3>. QED
      BY <1>3, <1>4, <2>3, <2>4, <2>7, <3>1
  <2>. QED
    BY <1>2, <1>8, <2>5, <2>6, <2>7 DEF Located, EnterSection, Emits
<1>9. CASE \E kind \in {"INSTR", "DATA", "LABEL"} : \E size \in Nat : Visit(kind, size)
  BY <1>1, <1>9, VisitLocated
<1>10. CASE LeaveSection
  <2>1. section \in NonEmptySections
    BY <1>3, <1>10 DEF LeaveSection, NonEmptySections, Emits, Progress
  <2>2. PlaceOf(section)[Len(emitted[section]) + 1] = sections[section].size
    BY <1>3, <1>10, <2>1, PlaceFacts DEF LeaveSection, items, TypeOK
  <2>3. outSize = sections[section].fileOffset + sections[section].size
    BY <1>4, <1>10, <2>2 DEF LeaveSection
  <2>4. ASSUME NEW s \in NonEmptySections, s >= section'
        PROVE  outSize <= sections[s].fileOffset
    <3>1. section < s
      BY <1>3, <1>10, <2>4 DEF LeaveSection
    <3>. QED
      BY <1>1, <2>1, <2>3, <3>1, OrderFacts DEF InOrder
  <2>5. ASSUME NEW s \in NonEmptySections, Emits(sections[s]), s < section'
        PROVE  sections[s].fileOffset + sections[s].size <= outSize
    <3>1. CASE s = section
      BY <1>3, <2>3, <3>1
    <3>2. CASE s < section
      BY <1>4, <2>5, <3>2
    <3>. QED
      BY <1>3, <1>10, <2>5, <3>1, <3>2 DEF LeaveSection
  <2>. QED
    BY <1>2, <1>4, <1>10, <2>4, <2>5 DEF Located, LeaveSection, Emits
<1>11. CASE EndImage \/ CannotOpen \/ OpenFile \/ WriteFile
  <2>1. /\ UNCHANGED <<section, outSize, emitted>>
        /\ phase' \notin {"section", "image"}
    BY <1>11 DEF EndImage, CannotOpen, OpenFile, WriteFile
  <2>. QED
    BY <1>2, <1>4, <2>1 DEF Located, Emits
<1>12. CASE UNCHANGED vars
  BY <1>2, <1>4, <1>12 DEF Located, Emits, vars, progress
<1>. QED
  BY <1>5, <1>6, <1>7, <1>8, <1>9, <1>10, <1>11, <1>12, StepKinds

-----------------------------------------------------------------------------
(* The address every instruction is encoded for *)

LEMMA BasedInit == InitProgress /\ LaidOut => Based
<1>. SUFFICES ASSUME InitProgress, LaidOut PROVE Based
  OBVIOUS
<1>1. phase = "start" /\ \A s \in DOMAIN sections : emitted[s] = <<>>
  BY DEF InitProgress
<1>. QED
  BY <1>1 DEF Based, InstructionsIn

LEMMA VisitBased ==
  ASSUME TypeOK, Progress, Located, Based, AsMeasured, AsMeasured',
         NEW kind \in {"INSTR", "DATA", "LABEL"}, NEW size \in Nat, Visit(kind, size)
  PROVE  Based'
<1>. DEFINE k == Len(emitted[section]) + 1
            v == sections[section].virtualAddr
            place == PlaceOf(section)
<1>1. Visiting(kind) /\ Emit(size) /\ ~errors'
  BY DEF Visit, AsMeasured
<1>2. /\ section \in DOMAIN sections /\ phase = "section"
      /\ DOMAIN emitted[section] = 1 .. k - 1 /\ k - 1 = Len(emitted[section])
      /\ k \in DOMAIN sections[section].items
      /\ item = sections[section].items[k] /\ item.kind = kind
  BY <1>1, VisitFacts
<1>3. /\ UNCHANGED <<sections, symbols, phase, section>>
      /\ DOMAIN emitted' = DOMAIN emitted
      /\ \A s \in DOMAIN emitted \ {section} : emitted'[s] = emitted[s]
      /\ emitted'[section] \in Seq([at : Nat, base : Word])
      /\ Len(emitted'[section]) = k
      /\ emitted'[section][k].base = currentVaddr
      /\ \A i \in DOMAIN emitted[section] : emitted'[section][i] = emitted[section][i]
  BY <1>1, EmitFacts
<1>4. place[k + 1] = place[k] + size /\ v + place[k + 1] < WordSize
  BY VisitMeasured
<1>5. k \in Nat \ {0} /\ v \in Nat /\ place[k] \in Nat
  <2>1. sections[section].items \in Seq(Item) /\ v \in Nat
        /\ \A i \in 1 .. Len(sections[section].items) + 1 : place[i] \in Nat
    BY <1>2, PlaceFacts DEF TypeOK
  <2>2. k \in 1 .. Len(sections[section].items)
    BY <1>2, <2>1
  <2>. QED
    BY <2>1, <2>2
<1>6. OnlyCodeSoFar => currentVaddr = v + place[k]
  BY <1>2 DEF Based
<1>. HIDE DEF k, v, place
<1>7. ASSUME OnlyCodeSoFar'
      PROVE  OnlyCodeSoFar /\ kind # "DATA"
  <2>1. \A i \in DOMAIN sections[section].items :
          i <= k => sections[section].items[i].kind # "DATA"
    BY <1>3, <1>7 DEF OnlyCodeSoFar
  <2>2. \A i \in DOMAIN sections[section].items : i \in Nat
    BY <1>2, PlaceFacts DEF TypeOK
  <2>. QED
    BY <1>2, <1>5, <2>1, <2>2 DEF OnlyCodeSoFar
<1>8. OnlyCodeSoFar' => currentVaddr' = v + place[k + 1]
  <2>. SUFFICES ASSUME OnlyCodeSoFar' PROVE currentVaddr' = v + place[k + 1]
    OBVIOUS
  <2>1. currentVaddr = v + place[k] /\ kind # "DATA"
    BY <1>6, <1>7
  <2>2. CASE kind = "INSTR"
    <3>1. currentVaddr' = Wrap(currentVaddr + size)
      BY <1>1, <2>2 DEF Visit
    <3>2. currentVaddr + size = v + place[k + 1] /\ currentVaddr + size \in Nat
      BY <1>4, <1>5, <2>1
    <3>. QED
      BY <1>4, <3>1, <3>2, WrapExact
  <2>3. CASE kind = "LABEL"
    <3>1. currentVaddr' = currentVaddr /\ size = 0
      BY <1>1, <2>3 DEF Visit
    <3>. QED
      BY <1>4, <1>5, <2>1, <3>1
  <2>. QED
    BY <2>1, <2>2, <2>3
<1>9. ASSUME CodeBeforeData(section), kind = "INSTR"
      PROVE  currentVaddr = v + place[k]
  <2>1. \A i \in DOMAIN sections[section].items :
          sections[section].items[i].kind = "DATA" => k < i
    BY <1>2, <1>9 DEF CodeBeforeData
  <2>2. \A i \in DOMAIN sections[section].items : i \in Nat
    BY <1>2, PlaceFacts DEF TypeOK
  <2>3. OnlyCodeSoFar
    BY <1>2, <1>5, <2>1, <2>2 DEF OnlyCodeSoFar
  <2>. QED
    BY <1>6, <2>3
<1>10. ASSUME NEW s \in DOMAIN sections, CodeBeforeData(s), NEW i \in DOMAIN emitted'[s],
              sections[s].items[i].kind = "INSTR"
       PROVE  emitted'[s][i].base = sections[s].virtualAddr + PlaceOf(s)[i]
  <2>1. CASE s = section /\ i = k
    BY <1>2, <1>3, <1>9, <1>10, <2>1 DEF v, place
  <2>2. CASE ~(s = section /\ i = k)
    <3>1. i \in DOMAIN emitted[s] /\ emitted'[s][i] = emitted[s][i]
      <4>1. CASE s = section
        <5>1. DOMAIN emitted'[section] = 1 .. k
          BY <1>3
        <5>2. i \in 1 .. k - 1
          BY <1>5, <1>10, <2>2, <4>1, <5>1
        <5>. QED
          BY <1>2, <1>3, <4>1, <5>2
      <4>2. CASE s # section
        BY <1>3, <1>10, <4>2 DEF TypeOK
      <4>. QED
        BY <4>1, <4>2
    <3>2. i \in InstructionsIn(s)
      BY <1>10, <3>1 DEF InstructionsIn
    <3>. QED
      BY <1>10, <3>1, <3>2 DEF Based
  <2>. QED
    BY <2>1, <2>2
<1>11. /\ \A s : PlaceOf(s)' = PlaceOf(s)
       /\ \A s : CodeBeforeData(s)' = CodeBeforeData(s)
  BY <1>3, DerivedKept
<1>12. k = Len(emitted'[section])
  BY <1>3
<1>. QED
  BY <1>3, <1>8, <1>10, <1>11, <1>12 DEF Based, InstructionsIn, v, place

LEMMA BasedStep == TypeOK /\ Progress /\ Located /\ Based /\ [Next]_vars => Based'
<1>. SUFFICES ASSUME TypeOK, Progress, Located, Based, [Next]_vars, AsMeasured' PROVE Based'
  BY DEF Based
<1>1. AsMeasured /\ ~errors'
  BY MeasuredBefore DEF AsMeasured
<1>2. /\ UNCHANGED <<sections, symbols>>
      /\ \A s : PlaceOf(s)' = PlaceOf(s)
      /\ \A s : CodeBeforeData(s)' = CodeBeforeData(s)
  BY ProgramKept, DerivedKept
<1>3. ASSUME UNCHANGED emitted
      PROVE  \A s \in DOMAIN sections : CodeBeforeData(s) =>
               \A i \in InstructionsIn(s)' :
                 emitted'[s][i].base = sections[s].virtualAddr + PlaceOf(s)[i]
  BY <1>1, <1>2, <1>3 DEF Based, InstructionsIn
<1>4. CASE NoEntryPoint
  BY <1>1, <1>4 DEF NoEntryPoint
<1>5. CASE EmitHeaders \/ SkipSection \/ LeaveSection \/ EndImage \/ CannotOpen
           \/ OpenFile \/ WriteFile
  <2>1. UNCHANGED emitted /\ phase' # "section"
    BY <1>5 DEF EmitHeaders, SkipSection, LeaveSection, EndImage, CannotOpen, OpenFile,
                WriteFile
  <2>. QED
    BY <1>2, <1>3, <2>1 DEF Based
<1>6. CASE EnterSection
  <2>1. /\ UNCHANGED <<emitted, section>> /\ currentVaddr' = sections[section].virtualAddr
        /\ section \in DOMAIN sections /\ emitted[section] = <<>>
    BY <1>6 DEF EnterSection, Progress, TypeOK, LaidOut
  <2>2. PlaceOf(section)[1] = 0 /\ sections[section].virtualAddr \in Nat
    BY <2>1, PlaceFacts DEF TypeOK
  <2>3. currentVaddr' = sections[section].virtualAddr + PlaceOf(section)[Len(emitted[section]) + 1]
    BY <2>1, <2>2
  <2>. QED
    BY <1>2, <1>3, <2>1, <2>3 DEF Based
<1>7. CASE \E kind \in {"INSTR", "DATA", "LABEL"} : \E size \in Nat : Visit(kind, size)
  BY <1>1, <1>7, VisitBased
<1>8. CASE UNCHANGED vars
  <2>1. UNCHANGED <<emitted, section, phase, currentVaddr>> /\ OnlyCodeSoFar' = OnlyCodeSoFar
    BY <1>8 DEF vars, progress, OnlyCodeSoFar
  <2>. QED
    BY <1>1, <1>2, <1>3, <2>1 DEF Based
<1>. QED
  BY <1>4, <1>5, <1>6, <1>7, <1>8, StepKinds

-----------------------------------------------------------------------------
(* The invariant holds *)

LEMMA HeadersInit == InitProgress => Headers
BY DEF InitProgress, Headers

LEMMA HeadersStep == TypeOK /\ Progress /\ Headers /\ [Next]_vars => Headers'
<1>. SUFFICES ASSUME TypeOK, Progress, Headers, [Next]_vars PROVE Headers'
  OBVIOUS
<1>1. /\ UNCHANGED <<sections, symbols>> /\ NonEmptySections' = NonEmptySections
      /\ HasEntryPoint' = HasEntryPoint /\ findEntryPoint' = findEntryPoint
  BY ProgramKept, DerivedKept
<1>2. CASE NoEntryPoint
  BY <1>1, <1>2 DEF Headers, NoEntryPoint
<1>3. CASE EmitHeaders
  BY <1>1, <1>3 DEF Headers, EmitHeaders
<1>4. CASE SkipSection \/ EnterSection \/ LeaveSection \/ EndImage \/ CannotOpen \/ OpenFile
           \/ WriteFile
  <2>1. /\ UNCHANGED <<segments, entry>>
        /\ phase \notin {"start", "failed"}
    BY <1>4 DEF SkipSection, EnterSection, LeaveSection, EndImage, CannotOpen, OpenFile,
                WriteFile
  <2>. QED
    BY <1>1, <2>1 DEF Headers
<1>5. CASE \E kind \in {"INSTR", "DATA", "LABEL"} : \E size \in Nat : Visit(kind, size)
  <2>1. UNCHANGED <<segments, entry, phase>>
    BY <1>5 DEF Visit, Emit
  <2>. QED
    BY <1>1, <2>1 DEF Headers
<1>6. CASE UNCHANGED vars
  BY <1>1, <1>6 DEF Headers, vars, progress
<1>. QED
  BY <1>2, <1>3, <1>4, <1>5, <1>6, StepKinds

LEMMA InvStart == InitProgress /\ LaidOut => IInv
BY TypeInit, ProgressInit, LocatedInit, BasedInit, HeadersInit DEF IInv

LEMMA InvStep == IInv /\ [Next]_vars => IInv'
BY TypeStep, ProgressStep, LocatedStep, BasedStep, HeadersStep DEF IInv

LEMMA Invariance == Spec /\ LaidOut => []IInv
<1>1. Init => InitProgress
  BY DEF Init
<1>. QED
  BY <1>1, InvStart, InvStep, PTL DEF Spec

\* What the invariant says of an item in the image.
LEMMA EmittedFacts ==
  ASSUME IInv, AsMeasured, NEW s \in EmittedSections, NEW i \in DOMAIN emitted[s]
  PROVE  /\ s \in NonEmptySections /\ s \in DOMAIN sections
         /\ i \in DOMAIN sections[s].items /\ sections[s].items[i] \in Item
         /\ ImageOffset(s, i) = PlaceOf(s)[i] /\ PlaceOf(s)[i] \in Nat
         /\ sections[s].virtualAddr \in Nat
         /\ sections[s].virtualAddr + PlaceOf(s)[i] < WordSize
         /\ LET n == LabelOf(sections[s].items[i])
            IN  n # NoName => PointsAtDefinition(n) /\ symbols[n].offset = PlaceOf(s)[i]
<1>. USE DEF IInv
<1>1. s \in DOMAIN sections /\ emitted[s] # <<>>
  BY DEF EmittedSections, TypeOK
<1>2. s \in NonEmptySections
  BY <1>1 DEF Progress, Emits, NonEmptySections
<1>3. /\ sections[s].items \in Seq(Item) /\ sections[s].virtualAddr \in Nat
      /\ \A j \in 1 .. Len(sections[s].items) + 1 : PlaceOf(s)[j] \in Nat
      /\ \A j \in DOMAIN sections[s].items :
           ItemPlaced(PlaceOf(s), j, sections[s], symbols)
  BY <1>1, PlaceFacts DEF TypeOK
<1>4. i \in DOMAIN sections[s].items
  <2>. DEFINE T == [at : Nat, base : Word]
  <2>1. emitted[s] \in Seq(T) /\ Len(emitted[s]) <= Len(sections[s].items)
    BY <1>1 DEF TypeOK
  <2>. HIDE DEF T
  <2>2. i \in 1 .. Len(emitted[s]) /\ Len(emitted[s]) \in Nat
    BY <2>1
  <2>. QED
    BY <1>3, <2>1, <2>2
<1>5. sections[s].items[i] \in Item /\ PlaceOf(s)[i] \in Nat
  BY <1>3, <1>4
<1>6. /\ emitted[s][i].at = sections[s].fileOffset + PlaceOf(s)[i]
      /\ emitted[s][i].at <= outSize
  BY <1>1 DEF Located
<1>7. sections[s].fileOffset \in Nat /\ sections[s].fileOffset >= 64
  BY <1>2, OrderFacts
<1>8. ImageOffset(s, i) = PlaceOf(s)[i]
  BY <1>5, <1>6, <1>7 DEF ImageOffset
<1>9. sections[s].virtualAddr + PlaceOf(s)[i] < WordSize
  <2>1. sections[s].virtualAddr + outSize <= WordSize
    BY <1>2 DEF AsMeasured, NothingWraps
  <2>2. outSize \in Nat
    BY DEF TypeOK
  <2>. DEFINE v == sections[s].virtualAddr  x == PlaceOf(s)[i]  f == sections[s].fileOffset
  <2>3. /\ v \in Nat /\ x \in Nat /\ f \in Nat /\ f >= 64
        /\ f + x <= outSize /\ v + outSize <= WordSize
    BY <1>3, <1>5, <1>6, <1>7, <2>1
  <2>. HIDE DEF v, x, f
  <2>4. v + x < WordSize
    BY <2>2, <2>3, WordAssumption
  <2>. QED
    BY <2>4 DEF v, x
<1>10. ASSUME NEW n, n = LabelOf(sections[s].items[i]), n # NoName
       PROVE  PointsAtDefinition(n) /\ symbols[n].offset = PlaceOf(s)[i]
  <2>1. LabelsPoint
    BY DEF TypeOK, LaidOut
  <2>2. PointsAtDefinition(n)
    BY <1>1, <1>4, <1>10, <2>1 DEF LabelsPoint
  <2>. QED
    BY <1>3, <1>4, <1>10, <2>2 DEF ItemPlaced, PointsAtDefinition
<1>. QED
  BY <1>1, <1>2, <1>3, <1>4, <1>5, <1>8, <1>9, <1>10

-----------------------------------------------------------------------------
(* Theorems *)

LEMMA LabelsLandInv == IInv => AlikeMeasuredLabelsLand
BY EmittedFacts DEF AlikeMeasuredLabelsLand, LabelsLandWhereResolved

\* The four theorems are about images that are AsMeasured: no error, no wrapped
\* arithmetic, no data that the resolver and the writer measure differently.

\* The bytes of everything that has a label are where the symbol table says:
\* emitSection() arrives at every label with as many bytes as the resolver had
\* counted up to it.
THEOREM LabelsLand == Spec /\ LaidOut => []AlikeMeasuredLabelsLand
BY LabelsLandInv, Invariance, PTL

LEMMA SegmentsHoldInv == IInv => SegmentsHoldTheirSections
<1>. SUFFICES ASSUME IInv, AsMeasured
              PROVE  /\ phase = "section" /\ Len(emitted[section]) = Len(items)
                          => outSize = sections[section].fileOffset + sections[section].size
                     /\ Built => \A segment \in segments :
                          segment.filesz > 0 => segment.offset + segment.filesz <= outSize
  BY DEF SegmentsHoldTheirSections
<1>1. ASSUME phase = "section", Len(emitted[section]) = Len(items)
      PROVE  outSize = sections[section].fileOffset + sections[section].size
  <2>1. section \in DOMAIN sections
    BY <1>1 DEF IInv, TypeOK, LaidOut, Progress
  <2>2. PlaceOf(section)[Len(emitted[section]) + 1] = sections[section].size
    BY <1>1, <2>1, PlaceFacts DEF IInv, TypeOK, items
  <2>. QED
    BY <1>1, <2>2 DEF IInv, Located
<1>2. ASSUME Built, NEW segment \in segments, segment.filesz > 0
      PROVE  segment.offset + segment.filesz <= outSize
  <2>1. PICK s \in NonEmptySections : segment = ProgramHeader(sections[s])
    BY DEF IInv, Headers
  <2>2. sections[s].type # "BSS" /\ segment.filesz = sections[s].size
    BY <1>2, <2>1 DEF ProgramHeader
  <2>3. segment.offset = sections[s].fileOffset /\ Emits(sections[s])
    BY <2>1, <2>2 DEF ProgramHeader, Emits, NonEmptySections
  <2>4. s < section
    BY <1>2 DEF IInv, Progress, TypeOK, LaidOut, NonEmptySections
  <2>. QED
    BY <2>2, <2>3, <2>4 DEF IInv, Located
<1>. QED
  BY <1>1, <1>2

\* If AsMeasured, a section is as long as the segment whose header was written before
\* it, and the image is not shorter than the headers say. (That no two segments overlap
\* is not part of it: that is Disjointness of LayoutProofs.)
THEOREM SegmentsHold == Spec /\ LaidOut => []SegmentsHoldTheirSections
BY SegmentsHoldInv, Invariance, PTL

LEMMA CallsReachInv == IInv => CallsReachTheirLabels
<1>. SUFFICES ASSUME IInv, AsMeasured,
                     NEW s \in EmittedSections, CodeBeforeData(s), NEW i \in InstructionsIn(s),
                     NEW it, it = sections[s].items[i],
                     it.extra = "REL32", it.target # NoName,
                     NEW t \in EmittedSections, NEW j \in DOMAIN emitted[t],
                     LabelOf(sections[t].items[j]) = it.target,
                     symbols[it.target].kind = "LABEL",
                     symbols[it.target].sectionIndex = t
              PROVE  sections[s].virtualAddr + ImageOffset(s, i) + EncodedLength(it, symbols)
                       + Relative(it, symbols, sections, emitted[s][i].base)
                       = sections[t].virtualAddr + ImageOffset(t, j)
  BY DEF CallsReachTheirLabels
<1>1. i \in DOMAIN emitted[s] /\ it.kind = "INSTR"
  BY DEF InstructionsIn
<1>2. /\ s \in DOMAIN sections /\ it \in Item /\ sections[s].virtualAddr \in Nat
      /\ ImageOffset(s, i) = PlaceOf(s)[i] /\ PlaceOf(s)[i] \in Nat
  BY <1>1, EmittedFacts
<1>3. /\ sections[t].virtualAddr \in Nat
      /\ ImageOffset(t, j) = PlaceOf(t)[j] /\ PlaceOf(t)[j] \in Nat
      /\ it.target \in DOMAIN symbols /\ symbols[it.target].offset = PlaceOf(t)[j]
  <2>. PICK n : n = LabelOf(sections[t].items[j])
    OBVIOUS
  <2>1. /\ sections[t].virtualAddr \in Nat
        /\ ImageOffset(t, j) = PlaceOf(t)[j] /\ PlaceOf(t)[j] \in Nat
    BY EmittedFacts
  <2>2. n # NoName => PointsAtDefinition(n) /\ symbols[n].offset = PlaceOf(t)[j]
    BY EmittedFacts
  <2>3. n = it.target
    OBVIOUS
  <2>4. PointsAtDefinition(n) /\ symbols[n].offset = PlaceOf(t)[j]
    BY <2>2, <2>3
  <2>5. n \in DOMAIN symbols
    BY <2>4 DEF PointsAtDefinition
  <2>. QED
    BY <2>1, <2>3, <2>4, <2>5
<1>4. emitted[s][i].base = sections[s].virtualAddr + PlaceOf(s)[i]
  BY <1>2 DEF IInv, Based
<1>5. resolveImm(it, symbols, sections) = sections[t].virtualAddr + PlaceOf(t)[j]
  BY <1>3 DEF resolveImm
<1>6. EncodedLength(it, symbols) \in Nat
  BY <1>1, <1>2, ItemByKind, EncodedLengthType
<1>. QED
  BY <1>2, <1>3, <1>4, <1>5, <1>6 DEF Relative

\* What the encoder is told about an instruction, what the symbol table says
\* about its target and where both end up in memory fit together, if AsMeasured and in
\* sections without data before an instruction (CodeBeforeData).
THEOREM CallsReach == Spec /\ LaidOut => []CallsReachTheirLabels
BY CallsReachInv, Invariance, PTL

LEMMA EntryAtStartInv == IInv => EntryIsAtStart
<1>. SUFFICES ASSUME IInv, Built, AsMeasured, NEW p \in StartSites,
                     StartSites = {p}, p[1] \in EmittedSections
              PROVE  entry = sections[p[1]].virtualAddr + ImageOffset(p[1], p[2])
  BY DEF EntryIsAtStart
<1>1. PICK s, i : /\ s \in DOMAIN sections /\ i \in DOMAIN sections[s].items
                  /\ p = <<s, i>> /\ LabelOf(sections[s].items[i]) = StartName
  BY DEF StartSites
<1>2. StartName # NoName
  BY NameAssumption
<1>3. PointsAtDefinition(StartName)
  BY <1>1, <1>2 DEF IInv, TypeOK, LaidOut, LabelsPoint
<1>4. symbols[StartName].sectionIndex = s
  <2>. DEFINE q == <<symbols[StartName].sectionIndex, symbols[StartName].statementIndex>>
  <2>1. q \in StartSites
    BY <1>3 DEF PointsAtDefinition, StartSites
  <2>. QED
    BY <1>1, <2>1
<1>5. s \in EmittedSections /\ i \in DOMAIN emitted[s]
  <2>1. s \in EmittedSections
    BY <1>1
  <2>2. Emits(sections[s]) /\ emitted[s] # <<>> /\ s < section
    BY <2>1 DEF IInv, EmittedSections, Progress, TypeOK, LaidOut
  <2>3. Len(emitted[s]) = Len(sections[s].items)
    BY <1>1, <2>2 DEF IInv, Progress
  <2>. DEFINE T == [at : Nat, base : Word]
  <2>4. emitted[s] \in Seq(T) /\ sections[s].items \in Seq(Item)
    BY <1>1, PlaceFacts DEF IInv, TypeOK
  <2>. HIDE DEF T
  <2>5. DOMAIN emitted[s] = DOMAIN sections[s].items
    BY <2>3, <2>4
  <2>. QED
    BY <1>1, <2>1, <2>5
<1>6. /\ ImageOffset(s, i) = PlaceOf(s)[i] /\ PlaceOf(s)[i] \in Nat
      /\ sections[s].virtualAddr \in Nat
      /\ sections[s].virtualAddr + PlaceOf(s)[i] < WordSize
      /\ symbols[StartName].offset = PlaceOf(s)[i]
  BY <1>1, <1>2, <1>5, EmittedFacts
<1>7. entry = findEntryPoint
  BY DEF IInv, Headers, Built
<1>8. entry = Wrap(sections[s].virtualAddr + PlaceOf(s)[i])
  BY <1>3, <1>4, <1>6, <1>7 DEF findEntryPoint, PointsAtDefinition
<1>9. entry = sections[s].virtualAddr + PlaceOf(s)[i]
  BY <1>6, <1>8, WrapExact
<1>. QED
  BY <1>1, <1>6, <1>9

\* findEntryPoint() computed the address of _start before a byte was written, and
\* that is where its bytes are mapped, if AsMeasured and if exactly one item defines
\* _start, in a section that is emitted.
THEOREM EntryAtStart == Spec /\ LaidOut => []EntryIsAtStart
BY EntryAtStartInv, Invariance, PTL

=============================================================================
