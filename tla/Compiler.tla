------------------------------ MODULE Compiler ------------------------------
(***************************************************************************)
(* main() and Compiler::run(): the stages of the assembler one after the   *)
(* other, from the characters of the source to the output file. The stages *)
(* are instances of their own modules, and what one hands to the next is   *)
(* translated from the form of the one to that of the other: tokens to     *)
(* those of the parser, instructions to the abstract ones of the back end. *)
(***************************************************************************)
EXTENDS PatternMatcher

CONSTANTS
  Sources,  \* input files: sequences of characters
  Char, Space, Letter, DigitValue, MaxLong,  \* see Lexer
  IntSize,                                   \* see MemoryOperands
  MaxPasses                                  \* see SizeResolver

ASSUME PassesAssumption == MaxPasses \in Nat

VARIABLES
  source,         \* the input file
  stage,          \* what run() is doing
  status,         \* running, EXIT_SUCCESS or EXIT_FAILURE
  xPosition, xLine, xLineStart, xTokens, xErrors, xExtents, xStatus,  \* lexer
  tokens, pCurrent, pProgram, pExtents, pErrors,                     \* parser
  flat,           \* flatProgram
  sections,       \* ir.sections
  symbols,        \* ir.symbols
  encoderFailed,  \* encoder.hasErrors(): one encoder serves two stages
  gNext, gCurrent, gErrors,                                   \* grouper
  rPhase, rPassCount, rSection, rStatement, rPlace, rChanged,
  rErrors,                                                    \* resolver
  lVisited, lFileOffset, lVaddr,                              \* layout
  wPhase, wSection, wOutSize, wCurrentVaddr, wEntry, wSegments,
  wEmitted, wErrors,                                          \* writer
  file            \* the output file

Lexer == INSTANCE Lexer WITH
  SourceTexts <- {}, code <- source, position <- xPosition, line <- xLine,
  lineStart <- xLineStart, tokens <- xTokens, errors <- xErrors,
  extents <- xExtents, status <- xStatus

Parser == INSTANCE Parser WITH
  Inputs <- {}, currentToken <- pCurrent,
  program <- pProgram, extents <- pExtents, errors <- pErrors

Grouper == INSTANCE Grouper WITH
  FlatPrograms <- {}, next <- gNext, current <- gCurrent, errors <- gErrors

Resolver == INSTANCE SizeResolver WITH
  Programs <- {}, phase <- rPhase, passCount <- rPassCount,
  section <- rSection, statement <- rStatement, place <- rPlace,
  changed <- rChanged, errors <- rErrors

Layout == INSTANCE Layout WITH
  SizedPrograms <- {}, visited <- lVisited, fileOffset <- lFileOffset,
  vaddr <- lVaddr

Writer == INSTANCE ElfWriter WITH
  LaidOutPrograms <- {}, phase <- wPhase, section <- wSection,
  outSize <- wOutSize, currentVaddr <- wCurrentVaddr, entry <- wEntry,
  segments <- wSegments, emitted <- wEmitted, errors <- wErrors

\* The words of a text are made of the characters of an identifier.
Joined(text) == FoldLeft(LAMBDA word, char : word \o char, "", text)

\* The sources are texts, and what they can spell is an identifier.
ASSUME SourceAssumption ==
  \A text \in Sources :
    /\ text \in Seq(Char)
    /\ \A p, q \in DOMAIN text :
         /\ p <= q /\ text[p] \in Letter \cup {"_"}
         /\ \A x \in p .. q : text[x] \in Lexer!Alnum \cup {"_"}
         => Joined(SubSeq(text, p, q)) \in Name

\* What Lexer assumes of its characters.
ASSUME CharAssumption ==
  /\ Space \cup Letter \cup Lexer!HexDigit \subseteq Char
  /\ Space \cap (Lexer!Alnum \cup {Lexer!NL, Lexer!NUL, Lexer!Quote, Lexer!Backslash, ";", "_"})
       = {}
  /\ Lexer!NUL \notin Lexer!Alnum
  /\ {Lexer!NL, "\t", Lexer!Quote, Lexer!Backslash, ","} \subseteq Char
  /\ DigitValue \in [Lexer!HexDigit -> 0 .. 15]
  /\ \A d \in Lexer!HexDigit : DigitValue[d] <= 9 <=> d \in Lexer!Digit

ASSUME NumberAssumption == MaxLong \in Nat /\ IntSize \in Nat \ {0}

\* Layout puts the first section at TEXT_BASE and a page.
ASSUME AddressSpaceAssumption == Layout!TEXT_BASE + 2 * Layout!PAGE_SIZE <= WordSize

lx == <<xPosition, xLine, xLineStart, xTokens, xErrors, xExtents, xStatus>>
ps == <<tokens, pCurrent, pProgram, pExtents, pErrors>>
g == <<gNext, gCurrent, gErrors>>
r == <<rPhase, rPassCount, rSection, rStatement, rPlace, rChanged, rErrors>>
l == <<lVisited, lFileOffset, lVaddr>>
w == <<wPhase, wSection, wOutSize, wCurrentVaddr, wEntry, wSegments, wEmitted,
       wErrors, file>>
ir == <<sections, symbols>>
front == <<source, lx, ps>>
vars == <<front, stage, status, flat, ir, encoderFailed, g, r, l, w>>

-----------------------------------------------------------------------------

\* The local objects of run() that do not exist yet hold the values their
\* constructors give them; a stage that starts from the program representation
\* is initialised when it is reached.
Init ==
  /\ source \in Sources
  /\ stage = "args"
  /\ status = "running"
  /\ xPosition = 1 /\ xLine = 1 /\ xLineStart = 1
  /\ xTokens = <<>> /\ xErrors = <<>> /\ xExtents = <<>> /\ xStatus = "running"
  /\ tokens = <<>> /\ pCurrent = 1
  /\ pProgram = <<>> /\ pExtents = <<>> /\ pErrors = <<>>
  /\ flat = <<>>
  /\ encoderFailed = FALSE
  /\ Grouper!InitProgress
  /\ Resolver!InitProgress
  /\ Layout!InitProgress
  /\ Writer!InitProgress

\* An exception reaches main().
Throw ==
  /\ stage' = "exit"
  /\ status' = "EXIT_FAILURE"

Continue(to) == stage' = to /\ UNCHANGED status

\* The check after a stage: an error list is not empty, or the next stage runs.
Check(failed, to) ==
  IF failed THEN Throw ELSE Continue(to)

\* parseArgs() and readFile(): a missing argument, file or directory throws.
ReadSource ==
  /\ stage = "args"
  /\ Throw \/ Continue("lexer")
  /\ UNCHANGED <<front, flat, ir, encoderFailed, g, r, l, w>>

\* lexer.hasErrors() is asked before lexer.tokenize() is called.
CheckLexer ==
  /\ stage = "lexer"
  /\ Check(xErrors # <<>>, "tokenize")
  /\ UNCHANGED <<front, flat, ir, encoderFailed, g, r, l, w>>

Tokenize ==
  /\ stage = "tokenize"
  /\ Lexer!tokenize
  /\ UNCHANGED <<stage, status, ps, flat, ir, encoderFailed, g, r, l, w>>

\* std::stoll throws std::out_of_range inside tokenize().
TokenizeThrows ==
  /\ stage = "tokenize"
  /\ xStatus = "threw"
  /\ Throw
  /\ UNCHANGED <<front, flat, ir, encoderFailed, g, r, l, w>>

\* A token of the lexer as the parser reads it.
ParserToken(token) ==
  [type  |-> token.type,
   word  |-> IF token.type = "IDENTIFIER" THEN Joined(token.text) ELSE NoName,
   value |-> IF token.type = "NUMBER" THEN token.value ELSE Len(token.text)]

\* Parser parser(lexer.tokenize())
HandTokensOver ==
  /\ stage = "tokenize"
  /\ xStatus = "done"
  /\ Continue("parser")
  /\ tokens' = [i \in DOMAIN xTokens |-> ParserToken(xTokens[i])]
  /\ UNCHANGED <<source, lx, pCurrent, pProgram, pExtents, pErrors, flat, ir,
                 encoderFailed, g, r, l, w>>

Parse ==
  /\ stage = "parser"
  /\ Parser!parse
  /\ UNCHANGED <<source, stage, status, lx, flat, ir, encoderFailed, g, r, l, w>>

\* Instructions are given to the back end as the encoder will see them.
CheckParser ==
  /\ stage = "parser"
  /\ Parser!Parsed
  /\ Check(pErrors # <<>>, "grouper")
  /\ flat' = [i \in DOMAIN pProgram |->
                IF pProgram[i].kind = "INSTR" THEN view(pProgram[i]) ELSE pProgram[i]]
  /\ UNCHANGED <<front, ir, encoderFailed, g, r, l, w>>

Group ==
  /\ stage = "grouper"
  /\ Grouper!processStatement
  /\ UNCHANGED <<front, stage, status, encoderFailed, r, l, w>>

\* The resolver starts from the grouper's result.
CheckGrouper ==
  /\ stage = "grouper"
  /\ Grouper!Grouped
  /\ Check(gErrors # <<>>, "resolver")
  /\ rPlace' = [s \in DOMAIN sections |->
                  [i \in 1 .. Len(sections[s].items) + 1 |-> 0]]
  /\ UNCHANGED <<front, flat, ir, encoderFailed, g, rPhase, rPassCount,
                 rSection, rStatement, rChanged, rErrors, l, w>>

Resolve ==
  /\ stage = "resolver"
  /\ Resolver!resolve
  /\ UNCHANGED <<front, stage, status, flat, g, l, w>>

\* Layout's locals are computed from the number of sections.
CheckResolver ==
  /\ stage = "resolver"
  /\ Resolver!Resolved
  /\ Check(encoderFailed \/ rErrors, "layout")
  /\ lFileOffset' = Layout!alignUp(Layout!headersSize)
  /\ lVaddr' = Layout!TEXT_BASE + lFileOffset'
  /\ UNCHANGED <<front, flat, ir, encoderFailed, g, r, lVisited, w>>

AssignAddresses ==
  /\ stage = "layout"
  /\ Layout!assign
  /\ UNCHANGED <<front, stage, status, flat, symbols, encoderFailed,
                 g, r, w>>

\* Layout never reports an error.
CheckLayout ==
  /\ stage = "layout"
  /\ Layout!Assigned
  /\ Continue("writer")
  /\ wEmitted' = [s \in DOMAIN sections |-> <<>>]
  /\ UNCHANGED <<front, flat, ir, encoderFailed, g, r, l, wPhase,
                 wSection, wOutSize, wCurrentVaddr, wEntry, wSegments,
                 wErrors, file>>

Write ==
  /\ stage = "writer"
  /\ Writer!write
  /\ UNCHANGED <<front, stage, status, flat, g, r, l>>

CheckWriter ==
  /\ stage = "writer"
  /\ Writer!Returned
  /\ stage' = "exit"
  /\ status' = IF encoderFailed \/ wErrors THEN "EXIT_FAILURE" ELSE "EXIT_SUCCESS"
  /\ UNCHANGED <<front, flat, ir, encoderFailed, g, r, l, w>>

run ==
  \/ ReadSource
  \/ CheckLexer
  \/ Tokenize
  \/ TokenizeThrows
  \/ HandTokensOver
  \/ Parse
  \/ CheckParser
  \/ Group
  \/ CheckGrouper
  \/ Resolve
  \/ CheckResolver
  \/ AssignAddresses
  \/ CheckLayout
  \/ Write
  \/ CheckWriter

\* The process has ended.
Exited == stage = "exit" /\ UNCHANGED vars

Next == run \/ Exited

\* One thread, which runs until main() returns.
Spec == Init /\ [][Next]_vars /\ WF_vars(run)

-----------------------------------------------------------------------------
(* Properties *)

\* What the parser hands over: statements, whose alignments are positive.
WellFormed ==
  /\ flat \in Seq(Statement)
  /\ \A i \in DOMAIN flat :
       flat[i].kind = "DATA" /\ flat[i].dir = "ALIGN" => flat[i].count > 0

TypeOK ==
  /\ stage \in {"args", "lexer", "tokenize", "parser", "grouper", "resolver", "layout",
                "writer", "exit"}
  /\ status \in {"running", "EXIT_SUCCESS", "EXIT_FAILURE"}
  /\ (status = "running") = (stage # "exit")
  /\ WellFormed
  /\ sections \in Seq(Section)
  /\ IsSymbolTable(symbols)
  /\ encoderFailed \in BOOLEAN
  /\ \A s \in DOMAIN wEmitted :
       wEmitted[s] \in Seq([at : Nat, base : Nat])
  /\ file \in {"old", "truncated", "partial", "complete"}

Contract == INSTANCE AssemblerContract

\* The pipeline keeps the contract of AssemblerContract: whichever stage fails,
\* and however late, a run that fails has not touched the output file - above
\* all the errors that only show up while bytes are emitted, after addresses
\* are assigned. A run that succeeds has opened it and tried to write the whole
\* image; that the file is complete is not promised (ElfWriter.cpp:47).
KeepsContract == Contract!Spec

\* Every run ends, with one of the two exit statuses.
RunEnds == Contract!Ends

\* Labels are where the symbol table says if the resolver and the writer measure
\* all items alike.
AlikeMeasuredLabelsLand == Writer!AlikeMeasuredLabelsLand

\* The same for any items: index.dox describes Symbol::offset as the "byte offset
\* of each label within its section".
LabelsLandWhereResolved == Writer!LabelsLandWhereResolved

\* Sections have the sizes of their segments, and the file holds them, if all items
\* are measured alike.
SegmentsHoldTheirSections == Writer!SegmentsHoldTheirSections

\* Under the same condition calls reach their labels, in sections whose data follows
\* their code.
CallsReachTheirLabels == Writer!CallsReachTheirLabels

\* InstructionEncoder.h: baseVaddr is the "virtual address of instruction".
InstructionsEncodedAtTheirAddress == Writer!InstructionsEncodedAtTheirAddress

\* index.dox: JMP is an "unconditional jump", and should reach its target.
ShortJumpsReach == Writer!ShortJumpsReach

\* And the program is entered at _start, if one item defines it.
EntryIsAtStart == Writer!EntryIsAtStart

SourceIsLexed ==
  \A e \in ToSet(xErrors) :
    e.column \in DOMAIN source /\ source[e.column] = Lexer!Backslash

InstructionsAreSound ==
  \A i \in DOMAIN flat : flat[i].kind = "INSTR" =>
    /\ flat[i].match
    /\ ~UndefinedTerm(flat[i], symbols) /\ ~UndefinedTarget(flat[i], symbols)

\* Although nobody looks at the lexer's errors again, a source that is assembled has
\* none but unknown escapes; its instructions have an encoding, and the names they
\* refer to are defined, whichever stage is the one to find out.
AcceptedSourcesAreSound ==
  status = "EXIT_SUCCESS" => SourceIsLexed /\ InstructionsAreSound

\* index.dox: "The pipeline stops at the first stage that reports errors."
StopsAtFirstErrors ==
  xErrors # <<>> => stage \in {"lexer", "tokenize", "exit"}

=============================================================================
