---------------------------- MODULE LayoutProofs ----------------------------
(***************************************************************************)
(* Proofs about Layout, for sections of any sizes and any word size: the   *)
(* 64-bit arithmetic keeps file offsets and addresses congruent modulo the *)
(* page size even if it wraps around, and keeps sections apart if it does  *)
(* not.                                                                    *)
(***************************************************************************)
EXTENDS Layout, TLAPS

\* All that matters about the base address is that it is at a page boundary.
Constants ==
  /\ TEXT_BASE \in Nat /\ TEXT_BASE % 4096 = 0
  /\ ELF_HEADER_SIZE = 64 /\ PHDR_SIZE = 56 /\ PAGE_SIZE = 4096

LEMMA ConstantValues == Constants
BY DEF Constants, TEXT_BASE, ELF_HEADER_SIZE, PHDR_SIZE, PAGE_SIZE

\* Wrapping around gives a word, and a word is not changed by it.
LEMMA WrapFacts ==
  ASSUME NEW x \in Nat
  PROVE  Wrap(x) \in Word /\ (x \in Word => Wrap(x) = x)
BY WordAssumption DEF Wrap, Word

\* Whatever wraps around, the result of alignUp is a word at a page boundary.
LEMMA AlignUpType ==
  ASSUME NEW x \in Nat
  PROVE  alignUp(x) \in Word /\ alignUp(x) % PAGE_SIZE = 0
<1>. DEFINE y == Wrap(x + 4095)
<1>1. y \in Word /\ y \in Nat
  BY WrapFacts, WordAssumption DEF Word
<1>2. alignUp(x) = (y \div 4096) * 4096
  BY ConstantValues DEF alignUp, Constants
<1>. HIDE DEF y
<1>3. (y \div 4096) * 4096 \in 0 .. y /\ ((y \div 4096) * 4096) % 4096 = 0
  BY <1>1
<1>. QED
  BY <1>1, <1>2, <1>3, ConstantValues, WordAssumption DEF Word, Constants

\* Without a wrap-around alignUp is the next page boundary.
LEMMA AlignUpExact ==
  ASSUME NEW x \in Nat, x + PAGE_SIZE <= WordSize
  PROVE  /\ alignUp(x) = ((x + 4095) \div 4096) * 4096
         /\ alignUp(x) \in x .. x + 4095
<1>1. Wrap(x + 4095) = x + 4095
  BY WrapFacts, WordAssumption, ConstantValues DEF Word, Constants
<1>2. alignUp(x) = ((x + 4095) \div 4096) * 4096
  BY <1>1, ConstantValues DEF alignUp, Constants
<1>. QED
  BY <1>2

\* The headers fit into the first page.
LEMMA HeadersInFirstPage ==
  ASSUME sections \in Seq(Section), Len(sections) <= 3
  PROVE  headersSize \in 64 .. 232 /\ alignUp(headersSize) = 4096
<1>1. headersSize \in 64 .. 232
  <2>. DEFINE n == Len(sections)
  <2>1. n \in Nat
    OBVIOUS
  <2>2. headersSize = 64 + 56 * n
    BY ConstantValues DEF headersSize, Constants
  <2>. HIDE DEF n
  <2>3. n <= 3
    BY DEF n
  <2>. QED
    BY <2>1, <2>2, <2>3
<1>2. headersSize + PAGE_SIZE <= WordSize
  BY <1>1, ConstantValues, AddressSpaceAssumption, WordAssumption DEF Constants
<1>3. alignUp(headersSize) = ((headersSize + 4095) \div 4096) * 4096
  BY <1>1, <1>2, AlignUpExact
<1>. QED
  BY <1>1, <1>3

-----------------------------------------------------------------------------
(* The inductive invariant *)

\* The next free place and every section given one start at a page boundary.
Aligned ==
  /\ Len(sections) <= 3
  /\ fileOffset % PAGE_SIZE = 0 /\ vaddr % PAGE_SIZE = 0
  /\ \A s \in Placed : /\ sections[s].fileOffset % PAGE_SIZE = 0
                       /\ sections[s].virtualAddr % PAGE_SIZE = 0

\* As long as nothing wraps around, memory is the file moved by TEXT_BASE, and
\* sections follow one another.
Ordered ==
  (\A s \in Placed : EndsInAddressSpace(s)) =>
    /\ vaddr = TEXT_BASE + fileOffset
    /\ headersSize <= fileOffset
    /\ \A s \in Placed :
         /\ sections[s].virtualAddr = TEXT_BASE + sections[s].fileOffset
         /\ headersSize <= sections[s].fileOffset
         /\ sections[s].fileOffset + sections[s].size <= fileOffset
    /\ \A s, t \in Placed : s < t =>
         sections[s].fileOffset + sections[s].size <= sections[t].fileOffset

IInv == TypeOK /\ Aligned /\ Ordered

\* The sections that assign() is given.
Given == sections \in Seq(Section) /\ Len(sections) <= 3

\* The loop of assign() starts in a state that satisfies the invariant.
LEMMA InvStart == Given /\ InitProgress => IInv
<1>. SUFFICES ASSUME Given, InitProgress PROVE IInv
  OBVIOUS
<1>1. sections \in Seq(Section) /\ Len(sections) <= 3
  BY DEF Given
<1>2. visited = 0 /\ fileOffset = 4096 /\ vaddr = TEXT_BASE + 4096
      /\ headersSize \in 64 .. 232
  BY <1>1, HeadersInFirstPage DEF InitProgress
<1>3. Placed = {}
  BY <1>2 DEF Placed
<1>4. TypeOK
  BY <1>1, <1>2, ConstantValues, AddressSpaceAssumption, WordAssumption
     DEF TypeOK, Word, Constants
<1>5. Aligned
  BY <1>1, <1>2, <1>3, ConstantValues DEF Aligned, Constants
<1>6. Ordered
  BY <1>2, <1>3 DEF Ordered
<1>. QED
  BY <1>4, <1>5, <1>6 DEF IInv

\* A section stays well formed when it is placed, and keeps its size.
LEMMA PlacedNextFacts ==
  ASSUME TypeOK, NEW s \in Section
  PROVE  /\ PlacedNext(s) \in Section
         /\ PlacedNext(s).size = s.size /\ s.size \in Nat
         /\ PlacedNext(s).fileOffset = fileOffset
         /\ PlacedNext(s).virtualAddr = vaddr
BY WordAssumption DEF TypeOK, PlacedNext, Section, Word

\* What placing the next section does to the sections.
LEMMA PlaceSectionFacts ==
  ASSUME TypeOK, PlaceSection, NEW n, n = visited + 1
  PROVE  /\ n \in DOMAIN sections /\ visited' = n
         /\ sections' \in Seq(Section) /\ Len(sections') = Len(sections)
         /\ sections[n].size \in Nat \ {0}
         /\ sections'[n] = PlacedNext(sections[n])
         /\ \A s \in DOMAIN sections \ {n} : sections'[s] = sections[s]
         /\ Placed' = Placed \cup {n}
         /\ \A s \in Placed : s \in 1 .. visited /\ s \in DOMAIN sections
<1>1. n \in DOMAIN sections /\ visited' = n /\ visited \in Nat
  BY DEF TypeOK, PlaceSection, Visit
<1>2. sections[n] \in Section /\ sections[n].size # 0
  BY <1>1 DEF TypeOK, PlaceSection, section
<1>3. PlacedNext(sections[n]) \in Section
  BY <1>2, PlacedNextFacts
<1>4. PlacedNext(sections[n]).size = sections[n].size /\ sections[n].size \in Nat \ {0}
  BY <1>2, PlacedNextFacts
<1>5. sections' = [sections EXCEPT ![n] = PlacedNext(sections[n])]
  BY DEF PlaceSection
<1>6. /\ sections' \in Seq(Section) /\ Len(sections') = Len(sections)
      /\ sections'[n] = PlacedNext(sections[n])
      /\ \A s \in DOMAIN sections \ {n} : sections'[s] = sections[s]
  BY <1>1, <1>3, <1>5 DEF TypeOK
<1>7. /\ Placed' = Placed \cup {n}
      /\ \A s \in Placed : s \in 1 .. visited /\ s \in DOMAIN sections
  BY <1>1, <1>4, <1>6 DEF Placed, TypeOK
<1>. QED
  BY <1>1, <1>4, <1>6, <1>7

\* The end of a section, wrapped around.
LEMMA WrappedEnd ==
  ASSUME TypeOK, NEW size \in Nat
  PROVE  /\ fileOffset + size \in Nat /\ Wrap(fileOffset + size) \in Nat
         /\ vaddr + size \in Nat /\ Wrap(vaddr + size) \in Nat
<1>1. fileOffset + size \in Nat /\ vaddr + size \in Nat
  BY WordAssumption DEF TypeOK, Word
<1>2. Wrap(fileOffset + size) \in Word /\ Wrap(vaddr + size) \in Word
  BY <1>1, WrapFacts
<1>. QED
  BY <1>1, <1>2, WordAssumption DEF Word

LEMMA TypeStep == TypeOK /\ [Next]_vars => TypeOK'
<1>. SUFFICES ASSUME TypeOK, [Next]_vars PROVE TypeOK'
  OBVIOUS
<1>1. CASE SkipEmptySection
  BY <1>1 DEF TypeOK, SkipEmptySection, Visit
<1>2. CASE PlaceSection
  <2>. DEFINE n == visited + 1
  <2>1. /\ sections' \in Seq(Section) /\ Len(sections') = Len(sections)
        /\ visited' = n /\ n \in DOMAIN sections /\ sections[n].size \in Nat
    BY <1>2, PlaceSectionFacts
  <2>2. /\ Wrap(fileOffset + sections[n].size) \in Nat
        /\ Wrap(vaddr + sections[n].size) \in Nat
    BY <2>1, WrappedEnd
  <2>3. fileOffset' \in Word /\ vaddr' \in Word
    BY <1>2, <2>2, AlignUpType DEF PlaceSection, section
  <2>. QED
    BY <2>1, <2>3 DEF TypeOK
<1>3. CASE UNCHANGED vars
  BY <1>3 DEF TypeOK, vars, progress
<1>. QED
  BY <1>1, <1>2, <1>3 DEF Next, assign, Finished

\* Rounding up keeps page boundaries, wrap-around or not.
LEMMA AlignedStep == TypeOK /\ Aligned /\ [Next]_vars => Aligned'
<1>. SUFFICES ASSUME TypeOK, Aligned, [Next]_vars PROVE Aligned'
  OBVIOUS
<1>1. CASE SkipEmptySection
  <2>1. Placed' = Placed
    BY <1>1 DEF TypeOK, SkipEmptySection, Visit, Placed, section
  <2>. QED
    BY <1>1, <2>1 DEF Aligned, SkipEmptySection
<1>2. CASE PlaceSection
  <2>. DEFINE n == visited + 1
  <2>1. /\ Len(sections') = Len(sections)
        /\ n \in DOMAIN sections /\ sections[n].size \in Nat
        /\ sections'[n] = PlacedNext(sections[n])
        /\ \A s \in DOMAIN sections \ {n} : sections'[s] = sections[s]
        /\ Placed' = Placed \cup {n}
        /\ \A s \in Placed : s \in 1 .. visited /\ s \in DOMAIN sections
    BY <1>2, PlaceSectionFacts
  <2>2. /\ Wrap(fileOffset + sections[n].size) \in Nat
        /\ Wrap(vaddr + sections[n].size) \in Nat
    BY <2>1, WrappedEnd
  <2>3. fileOffset' % PAGE_SIZE = 0 /\ vaddr' % PAGE_SIZE = 0
    BY <1>2, <2>2, AlignUpType DEF PlaceSection, section
  <2>4. ASSUME NEW s \in Placed'
        PROVE  /\ sections'[s].fileOffset % PAGE_SIZE = 0
               /\ sections'[s].virtualAddr % PAGE_SIZE = 0
    <3>1. CASE s = n
      BY <2>1, <3>1 DEF Aligned, PlacedNext
    <3>2. CASE s # n
      BY <2>1, <2>4, <3>2 DEF Aligned
    <3>. QED
      BY <3>1, <3>2
  <2>. QED
    BY <2>1, <2>3, <2>4, ConstantValues DEF Aligned, Constants, PAGE_SIZE
<1>3. CASE UNCHANGED vars
  BY <1>3 DEF Aligned, Placed, vars, progress
<1>. QED
  BY <1>1, <1>2, <1>3 DEF Next, assign, Finished

\* Without a wrap-around the next free place is past the section just placed,
\* and as far in memory as in the file.
LEMMA NextFreePlace ==
  ASSUME TypeOK, Aligned, PlaceSection, vaddr = TEXT_BASE + fileOffset,
         NEW size, size = sections[visited + 1].size,
         vaddr + size + PAGE_SIZE <= WordSize
  PROVE  fileOffset + size <= fileOffset' /\ vaddr' = TEXT_BASE + fileOffset'
<1>1. size \in Nat /\ fileOffset \in Nat /\ vaddr \in Nat
  BY PlaceSectionFacts, WordAssumption DEF TypeOK, Word
<1>2. /\ TEXT_BASE \in Nat /\ TEXT_BASE % 4096 = 0 /\ PAGE_SIZE = 4096
  BY ConstantValues DEF Constants
<1>3. /\ vaddr + size \in Word /\ fileOffset + size \in Word
      /\ vaddr + size + PAGE_SIZE <= WordSize
      /\ fileOffset + size + PAGE_SIZE <= WordSize
  BY <1>1, <1>2, WordAssumption DEF Word
<1>4. /\ vaddr' = alignUp(vaddr + size)
      /\ fileOffset' = alignUp(fileOffset + size)
  BY <1>1, <1>3, WrapFacts, WordAssumption DEF PlaceSection, section, Word
<1>. DEFINE x == fileOffset + size
<1>5. /\ vaddr' = ((vaddr + size + 4095) \div 4096) * 4096
      /\ fileOffset' = ((x + 4095) \div 4096) * 4096
      /\ fileOffset' >= x
  BY <1>1, <1>3, <1>4, AlignUpExact, WordAssumption DEF Word
<1>6. vaddr + size + 4095 = TEXT_BASE + (x + 4095)
  BY <1>1, <1>2
<1>7. x \in Nat
  BY <1>1
<1>. HIDE DEF x
<1>8. ((TEXT_BASE + (x + 4095)) \div 4096) * 4096
        = TEXT_BASE + ((x + 4095) \div 4096) * 4096
  BY <1>2, <1>7
<1>. QED
  BY <1>5, <1>6, <1>8 DEF x

LEMMA OrderedStep == IInv /\ [Next]_vars => Ordered'
<1>. SUFFICES ASSUME TypeOK, Aligned, Ordered, [Next]_vars PROVE Ordered'
  BY DEF IInv
<1>1. CASE SkipEmptySection
  <2>1. Placed' = Placed /\ UNCHANGED <<sections, fileOffset, vaddr>>
    BY <1>1 DEF TypeOK, SkipEmptySection, Visit, Placed, section
  <2>. QED
    BY <2>1 DEF Ordered, EndsInAddressSpace, headersSize
<1>2. CASE PlaceSection
  <2>. DEFINE n == visited + 1
  <2>1. /\ n \in DOMAIN sections /\ sections[n].size \in Nat \ {0}
        /\ sections[n] \in Section
        /\ sections'[n] = PlacedNext(sections[n])
        /\ \A s \in DOMAIN sections \ {n} : sections'[s] = sections[s]
        /\ Placed' = Placed \cup {n}
        /\ \A s \in Placed : s \in 1 .. visited /\ s \in DOMAIN sections
        /\ Len(sections') = Len(sections) /\ visited \in Nat
    BY <1>2, PlaceSectionFacts DEF TypeOK
  <2>2. /\ sections'[n].size = sections[n].size
        /\ sections'[n].fileOffset = fileOffset
        /\ sections'[n].virtualAddr = vaddr
    BY <2>1, PlacedNextFacts
  <2>3. \A s \in Placed : s # n /\ sections'[s] = sections[s] /\ sections[s] \in Section
    BY <2>1 DEF TypeOK
  <2>4. headersSize' = headersSize
    BY <2>1 DEF headersSize
  <2>5. SUFFICES ASSUME \A s \in Placed' : EndsInAddressSpace(s)'
                 PROVE  /\ vaddr' = TEXT_BASE + fileOffset'
                        /\ headersSize <= fileOffset'
                        /\ \A s \in Placed' :
                             /\ sections'[s].virtualAddr = TEXT_BASE + sections'[s].fileOffset
                             /\ headersSize <= sections'[s].fileOffset
                             /\ sections'[s].fileOffset + sections'[s].size <= fileOffset'
                        /\ \A s, t \in Placed' : s < t =>
                             sections'[s].fileOffset + sections'[s].size
                               <= sections'[t].fileOffset
    BY <2>4 DEF Ordered
  <2>6. /\ \A s \in Placed : EndsInAddressSpace(s)
        /\ vaddr + sections[n].size + PAGE_SIZE <= WordSize
    BY <2>1, <2>2, <2>3, <2>5 DEF EndsInAddressSpace
  <2>7. /\ vaddr = TEXT_BASE + fileOffset
        /\ headersSize <= fileOffset
        /\ \A s \in Placed :
             /\ sections[s].virtualAddr = TEXT_BASE + sections[s].fileOffset
             /\ headersSize <= sections[s].fileOffset
             /\ sections[s].fileOffset + sections[s].size <= fileOffset
        /\ \A s, t \in Placed : s < t =>
             sections[s].fileOffset + sections[s].size <= sections[t].fileOffset
    BY <2>6 DEF Ordered
  <2>8. /\ fileOffset + sections[n].size <= fileOffset'
        /\ vaddr' = TEXT_BASE + fileOffset'
    BY <1>2, <2>6, <2>7, NextFreePlace
  <2>9. fileOffset \in Nat /\ fileOffset' \in Nat /\ headersSize \in Nat
    <3>1. TypeOK'
      BY <1>2, TypeStep DEF Next, assign
    <3>2. headersSize \in 64 .. 232
      BY HeadersInFirstPage DEF TypeOK, Aligned
    <3>. QED
      BY <3>1, <3>2, WordAssumption DEF TypeOK, Word
  <2>10. \A s \in Placed : /\ sections[s].fileOffset \in Nat
                           /\ sections[s].size \in Nat
    BY <2>3, WordAssumption DEF Section, Word
  <2>11. fileOffset <= fileOffset'
    BY <2>1, <2>8, <2>9
  <2>12. ASSUME NEW s \in Placed'
         PROVE  /\ sections'[s].virtualAddr = TEXT_BASE + sections'[s].fileOffset
                /\ headersSize <= sections'[s].fileOffset
                /\ sections'[s].fileOffset + sections'[s].size <= fileOffset'
    <3>1. CASE s = n
      BY <2>2, <2>7, <2>8, <3>1
    <3>2. CASE s \in Placed
      <4>. DEFINE end == sections[s].fileOffset + sections[s].size
      <4>1. end \in Nat /\ end <= fileOffset
        BY <2>7, <2>10, <3>2
      <4>. HIDE DEF end
      <4>2. end <= fileOffset'
        BY <2>9, <2>11, <4>1
      <4>. QED
        BY <2>3, <2>7, <3>2, <4>2 DEF end
    <3>. QED
      BY <2>1, <2>12, <3>1, <3>2
  <2>13. ASSUME NEW s \in Placed', NEW t \in Placed', s < t
         PROVE  sections'[s].fileOffset + sections'[s].size <= sections'[t].fileOffset
    <3>1. s \in Placed
      BY <2>1, <2>13
    <3>2. CASE t = n
      BY <2>2, <2>3, <2>7, <3>1, <3>2
    <3>3. CASE t \in Placed
      BY <2>3, <2>7, <2>13, <3>1, <3>3
    <3>. QED
      BY <2>1, <2>13, <3>2, <3>3
  <2>14. headersSize <= fileOffset'
    BY <2>7, <2>9, <2>11
  <2>. QED
    BY <2>8, <2>12, <2>13, <2>14
<1>3. CASE UNCHANGED vars
  BY <1>3 DEF Ordered, Placed, EndsInAddressSpace, headersSize, vars, progress
<1>. QED
  BY <1>1, <1>2, <1>3 DEF Next, assign, Finished

LEMMA InvStep == IInv /\ [Next]_vars => IInv'
BY TypeStep, AlignedStep, OrderedStep DEF IInv

LEMMA InvCorrect == Spec => []IInv
<1>1. Init => Given /\ InitProgress
  BY SizedProgramsAssumption DEF Init, Given
<1>. QED
  BY <1>1, InvStart, InvStep, PTL DEF Spec

\* Placing a section changes nothing but its places.
LEMMA ContentsKept ==
  ASSUME TypeOK, [Next]_vars
  PROVE  /\ Len(sections') = Len(sections) /\ DOMAIN sections' = DOMAIN sections
         /\ \A s \in DOMAIN sections :
              /\ sections'[s].items = sections[s].items
              /\ sections'[s].type = sections[s].type
              /\ sections'[s].size = sections[s].size
<1>1. CASE PlaceSection
  <2>. DEFINE n == visited + 1
  <2>1. /\ n \in DOMAIN sections /\ sections' \in Seq(Section)
        /\ Len(sections') = Len(sections)
        /\ sections'[n] = PlacedNext(sections[n])
        /\ \A s \in DOMAIN sections \ {n} : sections'[s] = sections[s]
    BY <1>1, PlaceSectionFacts
  <2>2. DOMAIN sections' = DOMAIN sections
    BY <2>1 DEF TypeOK
  <2>. QED
    BY <2>1, <2>2 DEF PlacedNext
<1>2. CASE SkipEmptySection \/ UNCHANGED vars
  BY <1>2 DEF SkipEmptySection, vars
<1>. QED
  BY <1>1, <1>2 DEF Next, assign, Finished

-----------------------------------------------------------------------------
(* What follows from it *)

\* File offsets and addresses stay 64-bit words, and Layout never makes a
\* section out of something else.
THEOREM TypeCorrect == Spec => []TypeOK
<1>1. IInv => TypeOK
  BY DEF IInv
<1>. QED
  BY <1>1, InvCorrect, PTL

\* File offset and address of every placed section agree modulo the page size,
\* even when the sums of sizes wrap around.
THEOREM PageCongruent == Spec => []SegmentsArePageCongruent
<1>1. IInv => SegmentsArePageCongruent
  <2>. SUFFICES ASSUME TypeOK, Aligned, NEW s \in Placed
                PROVE  (sections[s].virtualAddr - sections[s].fileOffset) % PAGE_SIZE = 0
    BY DEF IInv, SegmentsArePageCongruent
  <2>. DEFINE va == sections[s].virtualAddr  fo == sections[s].fileOffset
  <2>1. sections[s] \in Section
    BY DEF TypeOK, Placed
  <2>2. va \in Nat /\ fo \in Nat
    BY <2>1, WordAssumption DEF Section, Word
  <2>3. va % 4096 = 0 /\ fo % 4096 = 0 /\ PAGE_SIZE = 4096
    BY ConstantValues DEF Aligned, Constants
  <2>. HIDE DEF va, fo
  <2>4. (va - fo) % 4096 = 0
    BY <2>2, <2>3
  <2>. QED
    BY <2>3, <2>4 DEF va, fo
<1>. QED
  BY <1>1, InvCorrect, PTL

\* If no section reaches the end of the address space, no byte of the file and
\* no page of memory belongs to two sections or to a section and the headers.
THEOREM Disjointness == Spec => []SectionsAreDisjoint
<1>1. IInv => SectionsAreDisjoint
  <2>. SUFFICES ASSUME TypeOK, Aligned, Ordered,
                       \A s \in Placed : EndsInAddressSpace(s),
                       NEW s \in Placed
                PROVE  /\ sections[s].fileOffset >= headersSize
                       /\ sections[s].virtualAddr % PAGE_SIZE = 0
                       /\ \A t \in Placed \ {s} :
                            /\ Disjoint(sections[s].fileOffset, sections[s].size,
                                        sections[t].fileOffset, sections[t].size)
                            /\ Disjoint(sections[s].virtualAddr, sections[s].size,
                                        sections[t].virtualAddr, sections[t].size)
    BY DEF IInv, SectionsAreDisjoint
  <2>1. headersSize \in 64 .. 232
    BY HeadersInFirstPage DEF TypeOK, Aligned
  <2>2. \A t \in Placed : /\ sections[t].fileOffset \in Nat
                          /\ sections[t].size \in Nat
                          /\ sections[t].virtualAddr = TEXT_BASE + sections[t].fileOffset
    <3>1. \A t \in Placed : sections[t] \in Section
      BY DEF TypeOK, Placed
    <3>. QED
      BY <3>1, WordAssumption DEF Section, Word, Ordered
  <2>3. sections[s].fileOffset >= headersSize
    BY <2>1, <2>2 DEF Ordered
  <2>4. ASSUME NEW t \in Placed, t # s
        PROVE  /\ Disjoint(sections[s].fileOffset, sections[s].size,
                           sections[t].fileOffset, sections[t].size)
               /\ Disjoint(sections[s].virtualAddr, sections[s].size,
                           sections[t].virtualAddr, sections[t].size)
    <3>1. s \in Nat /\ t \in Nat
      BY DEF Placed
    <3>2. \/ sections[s].fileOffset + sections[s].size <= sections[t].fileOffset
          \/ sections[t].fileOffset + sections[t].size <= sections[s].fileOffset
      BY <2>4, <3>1 DEF Ordered
    <3>3. TEXT_BASE \in Nat
      BY ConstantValues DEF Constants
    <3>. QED
      BY <2>2, <3>2, <3>3 DEF Disjoint
  <2>. QED
    BY <2>3, <2>4 DEF Aligned
<1>. QED
  BY <1>1, InvCorrect, PTL

=============================================================================
