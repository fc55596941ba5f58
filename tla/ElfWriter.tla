----------------------------- MODULE ElfWriter -----------------------------
(***************************************************************************)
(* ElfWriter: builds the image of the executable in memory and writes it   *)
(* to the output file. The image is abstracted to its size, the program    *)
(* headers, the entry point, and for every item that is emitted the place  *)
(* in the image and the address the encoder was told.                      *)
(***************************************************************************)
EXTENDS Placement, FiniteSets

CONSTANT LaidOutPrograms  \* programs Layout may hand over: [sections, symbols]

ELF_HEADER_SIZE == 64
PHDR_SIZE       == 56

VARIABLES
  sections,       \* program.sections
  symbols,        \* program.symbols
  phase,          \* start, image, section, open, write, done or failed
  section,        \* the section buildElf() visits
  outSize,        \* out.size()
  currentVaddr,   \* currentVaddr of emitSection()
  entry,          \* header.e_entry
  segments,       \* the set of the program headers
  emitted,        \* for every section, [at, base] of the items visited so far
  encoderFailed,  \* encoder.hasErrors()
  errors,         \* hasErrors()
  file            \* the output file: old, truncated, partial or complete

progress == <<phase, section, outSize, currentVaddr, entry, segments, emitted,
              errors, file>>
vars == <<sections, symbols, encoderFailed, progress>>

items == sections[section].items
item  == items[Len(emitted[section]) + 1]

-----------------------------------------------------------------------------

InitProgress ==
  /\ phase = "start"
  /\ section = 1
  /\ outSize = 0
  /\ currentVaddr = 0
  /\ entry = 0
  /\ segments = {}
  /\ emitted = [s \in DOMAIN sections |-> <<>>]
  /\ errors = FALSE
  /\ file = "old"

Init ==
  /\ \E p \in LaidOutPrograms : sections = p.sections /\ symbols = p.symbols
  /\ encoderFailed = FALSE
  /\ InitProgress

\* findEntryPoint() has an answer.
HasEntryPoint ==
  IF StartName \in DOMAIN symbols
    THEN symbols[StartName].sectionIndex \in DOMAIN sections
    ELSE sections # <<>>

\* Mutant: the start of the section of _start.
findEntrySection ==
  IF StartName \in DOMAIN symbols
    THEN sections[symbols[StartName].sectionIndex].virtualAddr
    ELSE sections[1].virtualAddr

findEntryPoint ==
  IF StartName \in DOMAIN symbols
    THEN Wrap(sections[symbols[StartName].sectionIndex].virtualAddr
                + symbols[StartName].offset)
    ELSE sections[1].virtualAddr

sectionFlags(type) == IF type = "TEXT" THEN {"R", "X"} ELSE {"R", "W"}

ProgramHeader(s) ==
  [offset |-> s.fileOffset, vaddr |-> s.virtualAddr, memsz |-> s.size,
   filesz |-> IF s.type = "BSS" THEN 0 ELSE s.size,
   flags |-> sectionFlags(s.type)]

NonEmptySections == {s \in DOMAIN sections : sections[s].size > 0}

NoEntryPoint ==
  /\ phase = "start"
  /\ ~HasEntryPoint
  /\ phase' = "failed"
  /\ errors' = TRUE
  /\ UNCHANGED <<sections, symbols, section, outSize, currentVaddr, entry,
                 segments, emitted, encoderFailed, file>>

\* emitElfHeader() and emitProgramHeader() for every non-empty section
EmitHeaders ==
  /\ phase = "start"
  /\ HasEntryPoint
  /\ entry' = findEntryPoint
  /\ segments' = {ProgramHeader(sections[s]) : s \in NonEmptySections}
  /\ outSize' = ELF_HEADER_SIZE + PHDR_SIZE * Cardinality(NonEmptySections)
  /\ phase' = "image"
  /\ UNCHANGED <<sections, symbols, section, currentVaddr, emitted,
                 encoderFailed, errors, file>>

Emits(s) == s.size > 0 /\ s.type # "BSS"

SkipSection ==
  /\ phase = "image"
  /\ section <= Len(sections)
  /\ ~Emits(sections[section])
  /\ section' = section + 1
  /\ UNCHANGED <<sections, symbols, phase, outSize, currentVaddr, entry,
                 segments, emitted, encoderFailed, errors, file>>

\* Mutant: sections are written without padding.
EnterSectionUnpadded ==
  /\ phase = "image"
  /\ section <= Len(sections)
  /\ Emits(sections[section])
  /\ currentVaddr' = sections[section].virtualAddr
  /\ phase' = "section"
  /\ UNCHANGED <<sections, symbols, section, outSize, entry, segments, emitted,
                 encoderFailed, errors, file>>

\* Padding up to fileOffset; none if the image is already longer.
EnterSection ==
  /\ phase = "image"
  /\ section <= Len(sections)
  /\ Emits(sections[section])
  /\ LET fileOffset == sections[section].fileOffset
     IN  outSize' = IF outSize < fileOffset THEN fileOffset ELSE outSize
  /\ currentVaddr' = sections[section].virtualAddr
  /\ phase' = "section"
  /\ UNCHANGED <<sections, symbols, section, entry, segments, emitted,
                 encoderFailed, errors, file>>

\* emitSection() is at an item of the given kind.
Visiting(kind) ==
  /\ phase = "section"
  /\ Len(emitted[section]) < Len(items)
  /\ item.kind = kind

\* The item is visited and adds size bytes to the image.
Emit(size) ==
  /\ emitted' = [emitted EXCEPT ![section] =
                   Append(@, [at |-> outSize, base |-> currentVaddr])]
  /\ outSize' = outSize + size
  /\ UNCHANGED <<sections, symbols, phase, section, entry, segments, file>>

EmissionFails == EncodeFails(item, symbols, sections, currentVaddr)

\* Mutant: every instruction is encoded for the start of the section.
EmitInstructionAtStart ==
  /\ Visiting("INSTR")
  /\ ~EmissionFails
  /\ Emit(EncodedLength(item, symbols))
  /\ UNCHANGED <<currentVaddr, encoderFailed, errors>>

EmitInstruction ==
  /\ Visiting("INSTR")
  /\ ~EmissionFails
  /\ Emit(EncodedLength(item, symbols))
  /\ currentVaddr' = Wrap(currentVaddr + EncodedLength(item, symbols))
  /\ UNCHANGED <<encoderFailed, errors>>

EmitInstructionFailing ==
  /\ Visiting("INSTR")
  /\ EmissionFails
  /\ Emit(0)
  /\ encoderFailed' = TRUE
  /\ errors' = TRUE
  /\ UNCHANGED currentVaddr

\* Mutant: a place that is aligned already is padded too.
DataLengthAlwaysPadded(d) ==
  CASE d.dir \in ReserveKind -> UnitSize[d.dir] * d.count
    [] d.dir = "ALIGN"       -> d.count - (outSize % d.count)
    [] d.dir \in DefineKind  -> (UnitSize[d.dir] * d.nums + d.chars)
                                  * (IF d.count > 1 THEN d.count ELSE 1)

\* A string adds one byte per character whatever the unit of the directive.
DataLength(d) ==
  CASE d.dir \in ReserveKind -> UnitSize[d.dir] * d.count
    [] d.dir = "ALIGN"       -> (d.count - (outSize % d.count)) % d.count
    [] d.dir \in DefineKind  -> (UnitSize[d.dir] * d.nums + d.chars)
                                  * (IF d.count > 1 THEN d.count ELSE 1)

EmitData ==
  /\ Visiting("DATA")
  /\ Emit(DataLength(item))
  /\ UNCHANGED <<currentVaddr, encoderFailed, errors>>

EmitLabel ==
  /\ Visiting("LABEL")
  /\ Emit(0)
  /\ UNCHANGED <<currentVaddr, encoderFailed, errors>>

LeaveSection ==
  /\ phase = "section"
  /\ Len(emitted[section]) = Len(items)
  /\ section' = section + 1
  /\ phase' = "image"
  /\ UNCHANGED <<sections, symbols, outSize, currentVaddr, entry, segments,
                 emitted, encoderFailed, errors, file>>

\* Mutant: the file is opened although there were errors.
EndImageRegardless ==
  /\ phase = "image"
  /\ section = Len(sections) + 1
  /\ phase' = "open"
  /\ UNCHANGED <<sections, symbols, section, outSize, currentVaddr, entry,
                 segments, emitted, encoderFailed, errors, file>>

\* write() after buildElf(): nothing is opened if there was an error.
EndImage ==
  /\ phase = "image"
  /\ section = Len(sections) + 1
  /\ phase' = IF errors THEN "failed" ELSE "open"
  /\ UNCHANGED <<sections, symbols, section, outSize, currentVaddr, entry,
                 segments, emitted, encoderFailed, errors, file>>

CannotOpen ==
  /\ phase = "open"
  /\ phase' = "failed"
  /\ errors' = TRUE
  /\ UNCHANGED <<sections, symbols, section, outSize, currentVaddr, entry,
                 segments, emitted, encoderFailed, file>>

\* std::ofstream truncates the file it opens.
OpenFile ==
  /\ phase = "open"
  /\ phase' = "write"
  /\ file' = "truncated"
  /\ UNCHANGED <<sections, symbols, section, outSize, currentVaddr, entry,
                 segments, emitted, encoderFailed, errors>>

\* The state of the stream is not looked at after file.write(), nor when the
\* destructor flushes and closes it.
WriteFile ==
  /\ phase = "write"
  /\ file' \in {"complete", "partial"}
  /\ phase' = "done"
  /\ UNCHANGED <<sections, symbols, section, outSize, currentVaddr, entry,
                 segments, emitted, encoderFailed, errors>>

emitSection ==
  EmitInstruction \/ EmitInstructionFailing \/ EmitData \/ EmitLabel \/ LeaveSection

write ==
  \/ NoEntryPoint
  \/ EmitHeaders
  \/ SkipSection
  \/ EnterSection
  \/ emitSection
  \/ EndImage
  \/ CannotOpen
  \/ OpenFile
  \/ WriteFile

Returned == phase \in {"done", "failed"}

\* write() has returned.
Finished == Returned /\ UNCHANGED vars

Next == write \/ Finished

Spec == Init /\ [][Next]_vars

-----------------------------------------------------------------------------
(* Properties of the image *)

\* The image is complete.
Built == phase \in {"open", "write", "done"}

EmittedSections == {s \in DOMAIN emitted : emitted[s] # <<>>}

\* Bytes of the image between the start of section s and its item i.
ImageOffset(s, i) == emitted[s][i].at - sections[s].fileOffset

\* Data that the resolver and the writer measure alike: no string in units wider
\* than a byte, and no alignment that the page size is not a multiple of.
AlikeMeasured(it) ==
  it.kind = "DATA" =>
    /\ it.dir \in {"DW", "DD", "DQ"} => it.chars = 0
    /\ it.dir = "ALIGN" => it.count > 0 /\ 4096 % it.count = 0

\* Neither a section nor the image reaches the last page of the address space, so
\* that no size, offset or address has wrapped around. (Reserving 2^64 bytes in
\* bss, which are not in the image, is what it takes.)
NothingWraps ==
  \A s \in NonEmptySections :
    /\ sections[s].virtualAddr + sections[s].size + 4096 <= WordSize
    /\ sections[s].virtualAddr + outSize <= WordSize

\* The bytes of every item are as long as the resolver took them to be: none has
\* failed to encode, and all data is measured alike.
AsMeasured ==
  /\ ~errors
  /\ NothingWraps
  /\ \A s \in DOMAIN sections : \A i \in DOMAIN sections[s].items :
       AlikeMeasured(sections[s].items[i])

\* Everything is emitted where it was resolved to be.
LabelsLandWhereResolved ==
  \A s \in EmittedSections : \A i \in DOMAIN emitted[s] :
    LET n == LabelOf(sections[s].items[i])
    IN  n # NoName => ImageOffset(s, i) = symbols[n].offset

\* index.dox describes Symbol::offset as the "byte offset of each label within
\* its section". The writer measures every item again, and differently; for data
\* that both measure alike the offset is where the bytes really are.
AlikeMeasuredLabelsLand == AsMeasured => LabelsLandWhereResolved

\* The file is not shorter than its program headers say, and each section is
\* exactly as long as its segment, although segment sizes were computed two
\* stages before the bytes.
SegmentsHoldTheirSections ==
  AsMeasured =>
    /\ phase = "section" /\ Len(emitted[section]) = Len(items)
         => outSize = sections[section].fileOffset + sections[section].size
    /\ Built => \A segment \in segments :
         segment.filesz > 0 => segment.offset + segment.filesz <= outSize

\* No data precedes an instruction of section s.
CodeBeforeData(s) ==
  \A i, j \in DOMAIN sections[s].items :
    /\ sections[s].items[i].kind = "DATA"
    /\ sections[s].items[j].kind = "INSTR"
    => j < i

InstructionsIn(s) ==
  {i \in DOMAIN emitted[s] : sections[s].items[i].kind = "INSTR"}

\* InstructionEncoder.h: baseVaddr is the "virtual address of instruction". The
\* address is where the instruction's bytes are mapped.
InstructionsEncodedAtTheirAddress ==
  \A s \in EmittedSections : \A i \in InstructionsIn(s) :
    emitted[s][i].base = sections[s].virtualAddr + ImageOffset(s, i)

\* Holds for every section whose data, if any, follows its code. Relative
\* operands are then measured from the right place, so a call reaches the bytes
\* its label stands for, in whichever section these are.
CallsReachTheirLabels ==
  AsMeasured =>
    \A s \in EmittedSections : CodeBeforeData(s) =>
      \A i \in InstructionsIn(s) :
        LET it  == sections[s].items[i]
            end == sections[s].virtualAddr + ImageOffset(s, i)
                     + EncodedLength(it, symbols)
        IN  it.extra = "REL32" /\ it.target # NoName
              => \A t \in EmittedSections : \A j \in DOMAIN emitted[t] :
                   /\ LabelOf(sections[t].items[j]) = it.target
                   /\ symbols[it.target].kind = "LABEL"
                   /\ symbols[it.target].sectionIndex = t
                   => end + Relative(it, symbols, sections, emitted[s][i].base)
                        = sections[t].virtualAddr + ImageOffset(t, j)

\* index.dox: JMP is an "unconditional jump". A jump that was encoded without an
\* error should be able to reach its target with the one byte it got.
ShortJumpsReach ==
  Built =>
    \A s \in EmittedSections : \A i \in InstructionsIn(s) :
      LET it == sections[s].items[i]
      IN  it.extra = "REL8"
            => Relative(it, symbols, sections, emitted[s][i].base) \in -128 .. 127

\* The items that define _start: pairs of a section and an index.
StartSites ==
  UNION { { <<s, i>> : i \in {j \in DOMAIN sections[s].items :
                                LabelOf(sections[s].items[j]) = StartName} } :
          s \in DOMAIN sections }

\* The entry point is the address at which the bytes of _start are mapped, for a
\* program that defines it once, whatever global or equ directives name it too.
EntryIsAtStart ==
  Built /\ AsMeasured =>
    \A p \in StartSites : StartSites = {p} /\ p[1] \in EmittedSections =>
      entry = sections[p[1]].virtualAddr + ImageOffset(p[1], p[2])

=============================================================================
