------------------------------- MODULE Layout -------------------------------
(***************************************************************************)
(* Layout: assigns every non-empty section a place in the output file and  *)
(* in memory, both rounded up to pages. assign() visits the sections in    *)
(* order; one iteration of its loop is an action.                          *)
(***************************************************************************)
EXTENDS AsmProgram

CONSTANT SizedPrograms  \* the section lists SizeResolver may hand over

\* There are three types of section and Grouper makes one section per type.
ASSUME SizedProgramsAssumption ==
  \A p \in SizedPrograms : p \in Seq(Section) /\ Len(p) <= 3

TEXT_BASE       == 4194304  \* 0x400000
ELF_HEADER_SIZE == 64
PHDR_SIZE       == 56
PAGE_SIZE       == 4096

ASSUME AddressSpaceAssumption == TEXT_BASE + 2 * PAGE_SIZE <= WordSize

\* Mutant: rounding up does not wrap around.
alignUpUnbounded(value) == ((value + PAGE_SIZE - 1) \div PAGE_SIZE) * PAGE_SIZE

\* Mutant: rounded down.
alignDown(value) == (value \div PAGE_SIZE) * PAGE_SIZE

\* (value + PAGE_SIZE - 1) & ~(PAGE_SIZE - 1) in 64 bits
alignUp(value) == (Wrap(value + PAGE_SIZE - 1) \div PAGE_SIZE) * PAGE_SIZE

VARIABLES
  sections,    \* program.sections
  visited,     \* how many sections the loop of assign() has visited
  fileOffset,  \* fileOffset
  vaddr        \* vaddr

progress == <<visited, fileOffset, vaddr>>
vars == <<sections, progress>>

headersSize == ELF_HEADER_SIZE + PHDR_SIZE * Len(sections)

-----------------------------------------------------------------------------

InitProgress ==
  /\ visited = 0
  /\ fileOffset = alignUp(headersSize)
  /\ vaddr = TEXT_BASE + alignUp(headersSize)

Init ==
  /\ sections \in SizedPrograms
  /\ InitProgress

section == sections[visited + 1]

\* A section that is given the next free place.
PlacedNext(s) ==
  [type |-> s.type, items |-> s.items, size |-> s.size,
   fileOffset |-> fileOffset, virtualAddr |-> vaddr]

Visit == visited < Len(sections) /\ visited' = visited + 1

SkipEmptySection ==
  /\ Visit
  /\ section.size = 0
  /\ UNCHANGED <<sections, fileOffset, vaddr>>

\* Mutant: only the file offset is rounded up.
PlaceSectionUnaligned ==
  /\ Visit
  /\ section.size # 0
  /\ sections' = [sections EXCEPT ![visited + 1] = PlacedNext(@)]
  /\ fileOffset' = alignUp(Wrap(fileOffset + section.size))
  /\ vaddr' = Wrap(vaddr + section.size)

PlaceSection ==
  /\ Visit
  /\ section.size # 0
  /\ sections' = [sections EXCEPT ![visited + 1] = PlacedNext(@)]
  /\ fileOffset' = alignUp(Wrap(fileOffset + section.size))
  /\ vaddr' = alignUp(Wrap(vaddr + section.size))

assign == SkipEmptySection \/ PlaceSection

Assigned == visited = Len(sections)

\* assign() has returned.
Finished == Assigned /\ UNCHANGED vars

Next == assign \/ Finished

Spec == Init /\ [][Next]_vars

-----------------------------------------------------------------------------
(* Properties *)

TypeOK ==
  /\ sections \in Seq(Section)
  /\ visited \in 0 .. Len(sections)
  /\ fileOffset \in Word
  /\ vaddr \in Word

\* The sections that have been given a place.
Placed == {s \in 1 .. visited : sections[s].size # 0}

\* The kernel maps a PT_LOAD segment by whole pages, so it accepts one only if
\* file offset and address are equal modulo the page size. The two are rounded
\* up independently and must nevertheless stay congruent.
SegmentsArePageCongruent ==
  \A s \in Placed :
    (sections[s].virtualAddr - sections[s].fileOffset) % PAGE_SIZE = 0

\* The section ends at least a page before the end of the address space, so
\* rounding up its end does not wrap around.
EndsInAddressSpace(s) ==
  sections[s].virtualAddr + sections[s].size + PAGE_SIZE <= WordSize

Disjoint(start1, size1, start2, size2) ==
  start1 + size1 <= start2 \/ start2 + size2 <= start1

\* No byte of the file belongs to two sections or to a section and the headers,
\* and no page of memory to two sections (each starts on a page of its own),
\* whichever of the sections are empty and however little their sizes exceed a
\* page - as long as no section reaches the end of the address space.
SectionsAreDisjoint ==
  (\A s \in Placed : EndsInAddressSpace(s)) =>
    \A s \in Placed :
      /\ sections[s].fileOffset >= headersSize
      /\ sections[s].virtualAddr % PAGE_SIZE = 0
      /\ \A t \in Placed \ {s} :
           /\ Disjoint(sections[s].fileOffset, sections[s].size,
                       sections[t].fileOffset, sections[t].size)
           /\ Disjoint(sections[s].virtualAddr, sections[s].size,
                       sections[t].virtualAddr, sections[t].size)

=============================================================================
