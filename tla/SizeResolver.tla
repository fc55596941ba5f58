---------------------------- MODULE SizeResolver ----------------------------
(***************************************************************************)
(* SizeResolver: repeats layout passes over all sections until no symbol   *)
(* offset and no section size changes, or gives up after MaxPasses passes. *)
(* A step is one iteration of a loop of resolve(), pass() or passSection().*)
(*                                                                         *)
(* The local variable offset of passSection() is kept for every statement: *)
(* place[s][i] is its value when statement i of section s was reached, and *)
(* place[s][Len(items) + 1] its value at the end of the section.           *)
(***************************************************************************)
EXTENDS Placement, FiniteSets

CONSTANTS
  Programs,   \* the programs Grouper may hand over: [sections, symbols]
  MaxPasses   \* MAX_PASSES (10)

\* A program whose sections and symbols are well formed. Grouper leaves the
\* offsets of all symbols at 0.
IsProgram(p) ==
  /\ p.sections \in Seq(Section)
  /\ IsSymbolTable(p.symbols)
  /\ \A n \in DOMAIN p.symbols : p.symbols[n].offset = 0

ASSUME ProgramsAssumption == \A p \in Programs : IsProgram(p)
ASSUME MaxPassesAssumption == MaxPasses \in Nat

VARIABLES
  sections,       \* program.sections
  symbols,        \* program.symbols
  phase,          \* where resolve() is: top, pass, stable or failed
  passCount,      \* passCount
  section,        \* the section pass() visits (sectionIndex)
  statement,      \* the statement passSection() visits (stmtIndex)
  place,          \* offset at each statement, see above
  changed,        \* whether the current pass has changed anything
  encoderFailed,  \* encoder.hasErrors()
  errors          \* hasErrors()

progress ==
  <<phase, passCount, section, statement, place, changed, errors>>
vars == <<sections, symbols, encoderFailed, progress>>

items  == sections[section].items
item   == items[statement]
offset == place[section][statement]

-----------------------------------------------------------------------------

InitProgress ==
  /\ phase = "top"
  /\ passCount = 0
  /\ section = 1
  /\ statement = 1
  /\ place = [s \in DOMAIN sections |->
                [i \in 1 .. Len(sections[s].items) + 1 |-> 0]]
  /\ changed = FALSE
  /\ errors = FALSE

Init ==
  /\ \E p \in Programs : sections = p.sections /\ symbols = p.symbols
  /\ encoderFailed = FALSE
  /\ InitProgress

\* Mutant: what the pass before changed counts for this one too.
BeginPassStillChanged ==
  /\ phase = "top"
  /\ passCount < MaxPasses
  /\ passCount' = passCount + 1
  /\ phase' = "pass"
  /\ section' = 1
  /\ statement' = 1
  /\ UNCHANGED <<sections, symbols, place, changed, encoderFailed, errors>>

\* Mutant: passes are not counted.
BeginPassUncounted ==
  /\ phase = "top"
  /\ passCount < MaxPasses
  /\ phase' = "pass"
  /\ section' = 1
  /\ statement' = 1
  /\ changed' = FALSE
  /\ UNCHANGED <<sections, symbols, passCount, place, encoderFailed, errors>>

\* The loop of resolve() starts another pass.
BeginPass ==
  /\ phase = "top"
  /\ passCount < MaxPasses
  /\ passCount' = passCount + 1
  /\ phase' = "pass"
  /\ section' = 1
  /\ statement' = 1
  /\ changed' = FALSE
  /\ UNCHANGED <<sections, symbols, place, encoderFailed, errors>>

GiveUp ==
  /\ phase = "top"
  /\ passCount >= MaxPasses
  /\ passCount' = passCount + 1
  /\ phase' = "failed"
  /\ errors' = TRUE
  /\ UNCHANGED <<sections, symbols, section, statement, place, changed,
                 encoderFailed>>

Visiting(kind) ==
  /\ phase = "pass"
  /\ section <= Len(sections)
  /\ statement <= Len(items)
  /\ item.kind = kind

\* offset += size, and on to the next statement.
Advance(size) ==
  /\ place' = [place EXCEPT ![section][statement + 1] = Wrap(offset + size)]
  /\ statement' = statement + 1
  /\ UNCHANGED <<sections, phase, passCount, section>>

\* Mutant: a symbol that moves does not ask for another pass.
RelocateQuietly(n) ==
  /\ symbols' = [symbols EXCEPT ![n].offset = offset]
  /\ UNCHANGED changed

\* sym.offset = offset, and changed if that is news.
Relocate(n) ==
  /\ symbols' = [symbols EXCEPT ![n].offset = offset]
  /\ changed' = (changed \/ symbols[n].offset # offset)

VisitLabel ==
  /\ Visiting("LABEL")
  /\ Advance(0)
  /\ IF item.label \in DOMAIN symbols
       THEN Relocate(item.label) /\ UNCHANGED errors
       ELSE errors' = TRUE /\ UNCHANGED <<symbols, changed>>
  /\ UNCHANGED encoderFailed

\* The base address is that of the section before Layout: virtualAddr + offset.
SizingFails ==
  EncodeFails(item, symbols, sections,
              Wrap(sections[section].virtualAddr + offset))

VisitInstruction ==
  /\ Visiting("INSTR")
  /\ ~encoderFailed
  /\ ~SizingFails
  /\ Advance(EncodedLength(item, symbols))
  /\ UNCHANGED <<symbols, changed, encoderFailed, errors>>

\* encoder.hasErrors() is about every call since the encoder was created, so
\* after one failure no instruction advances the offset any more.
VisitInstructionFailing ==
  /\ Visiting("INSTR")
  /\ encoderFailed \/ SizingFails
  /\ encoderFailed' = TRUE
  /\ errors' = TRUE
  /\ Advance(0)
  /\ UNCHANGED <<symbols, changed>>

VisitData ==
  /\ Visiting("DATA")
  /\ Advance(estimateDataSize(item, offset))
  /\ IF item.label # NoName /\ item.label \in DOMAIN symbols
       THEN Relocate(item.label)
       ELSE UNCHANGED <<symbols, changed>>
  /\ UNCHANGED <<encoderFailed, errors>>

\* Mutant: the next section is entered where this one ends.
EndSectionKeepingStatement ==
  /\ phase = "pass"
  /\ section <= Len(sections)
  /\ statement = Len(items) + 1
  /\ sections' = [sections EXCEPT ![section].size = offset]
  /\ changed' = (changed \/ sections[section].size # offset)
  /\ section' = section + 1
  /\ UNCHANGED <<symbols, phase, passCount, statement, place, encoderFailed,
                 errors>>

EndSection ==
  /\ phase = "pass"
  /\ section <= Len(sections)
  /\ statement = Len(items) + 1
  /\ sections' = [sections EXCEPT ![section].size = offset]
  /\ changed' = (changed \/ sections[section].size # offset)
  /\ section' = section + 1
  /\ statement' = 1
  /\ UNCHANGED <<symbols, phase, passCount, place, encoderFailed, errors>>

EndPass ==
  /\ phase = "pass"
  /\ section = Len(sections) + 1
  /\ phase' = IF changed THEN "top" ELSE "stable"
  /\ UNCHANGED <<sections, symbols, passCount, section, statement, place,
                 changed, encoderFailed, errors>>

passSection ==
  \/ VisitLabel
  \/ VisitInstruction
  \/ VisitInstructionFailing
  \/ VisitData
  \/ EndSection

resolve == BeginPass \/ passSection \/ EndPass \/ GiveUp

Resolved == phase \in {"stable", "failed"}

\* resolve() has returned.
Finished == Resolved /\ UNCHANGED vars

Next == resolve \/ Finished

Spec == Init /\ [][Next]_vars

\* The assembler is one thread that keeps running until resolve() returns.
FairSpec == Spec /\ WF_vars(resolve)

-----------------------------------------------------------------------------
(* Properties *)

TypeOK ==
  /\ sections \in Seq(Section)
  /\ IsSymbolTable(symbols)
  /\ phase \in {"top", "pass", "stable", "failed"}
  /\ passCount \in 0 .. MaxPasses + 1
  /\ section \in 1 .. Len(sections) + 1
  /\ statement \in Nat \ {0}
  /\ section <= Len(sections) => statement <= Len(items) + 1
  /\ DOMAIN place = DOMAIN sections
  /\ \A s \in DOMAIN sections :
       place[s] \in [1 .. Len(sections[s].items) + 1 -> Word]
  /\ changed \in BOOLEAN
  /\ encoderFailed \in BOOLEAN
  /\ errors \in BOOLEAN

\* Section s stands where its labels say.
SectionPlaced(s) == IsPlaced(place[s], sections[s], symbols)

\* When resolve() ends without giving up, the offsets are a fixed point of the
\* pass: every label stands exactly at the sum of the sizes before it, where
\* the sizes are those of the final symbol table although most of them were
\* computed while the table was still changing, and every section is as long
\* as its items.
StablePlacement ==
  phase = "stable" /\ ~encoderFailed =>
    \A s \in DOMAIN sections : SectionPlaced(s)

\* The loop of resolve() always ends.
Terminates == <>Resolved

Labels(s) == {i \in DOMAIN sections[s].items : LabelOf(sections[s].items[i]) # NoName}

\* No name is defined twice, neither in one section nor in two.
UniqueLabels ==
  \A s, t \in DOMAIN sections : \A i \in Labels(s), j \in Labels(t) :
    LabelOf(sections[s].items[i]) = LabelOf(sections[t].items[j])
      => s = t /\ i = j

\* The displacement of instruction i is not negative, and does not decrease when
\* symbols move forward. (A negative one may become shorter by growing.)
GrowsWithSymbols(i) ==
  \/ i.terms = <<>>
  \/ /\ i.disp >= 0
     /\ \A k \in DOMAIN i.terms :
          /\ i.terms[k].sign = 1
          /\ i.terms[k].name \in DOMAIN symbols =>
               TermValue(i.terms[k].name, symbols) >= 0

\* The most that an item can take.
LongestSize(it) ==
  CASE it.kind = "INSTR" -> it.head + 4 + ExtraLength[it.extra]
    [] it.kind = "DATA"  -> IF it.dir = "ALIGN" THEN it.count ELSE estimateDataSize(it, 0)
    [] it.kind = "LABEL" -> 0

\* For each place in section s, where it is if every item takes the most it can.
LongestPlaces(s) ==
  Sums(0, [i \in DOMAIN sections[s].items |-> LongestSize(sections[s].items[i])],
       Len(sections[s].items))

\* A program whose instruction sizes can only grow with the symbol offsets,
\* which defines no name twice, and which is in no danger of wrapping around.
Growing ==
  /\ UniqueLabels
  /\ \A s \in DOMAIN sections :
       /\ \A i \in 0 .. Len(sections[s].items) : LongestPlaces(s)[i] < WordSize
       /\ \A i \in DOMAIN sections[s].items :
            sections[s].items[i].kind = "INSTR" => GrowsWithSymbols(sections[s].items[i])

\* The instructions whose size depends on symbols.
DependentInstructions ==
  UNION { {s} \X {i \in DOMAIN sections[s].items :
                    /\ sections[s].items[i].kind = "INSTR"
                    /\ sections[s].items[i].terms # <<>>} : s \in DOMAIN sections }

SymbolDependent == Cardinality(DependentInstructions)

\* "Most programs converge in 1-2 passes": those whose instructions have a
\* constant size always do. Each instruction with a symbol in its displacement
\* costs two more passes at most, one for every time its displacement gets
\* longer, however the instructions push one another: a program with four of
\* them is never given up.
GrowingProgramsConverge ==
  Growing /\ ~encoderFailed => passCount <= 2 + 2 * SymbolDependent

\* In such a program relaxation is monotone: no step of any pass moves a label
\* towards the start of its section, so passes cannot undo each other.
LabelsOnlyMoveForward ==
  [][Growing /\ ~encoderFailed' =>
       \A n \in DOMAIN symbols : symbols'[n].offset >= symbols[n].offset]_vars

=============================================================================
