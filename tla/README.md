# A TLA+ model of the assembler

This directory specifies the x86-64 assembler of this repository in TLA+, checks the specifications with TLC on small
instances, and proves the invariants that matter most with TLAPS for every instance. The code under `src/` and `include/`
is the reference; `PROJECT.json` maps every definition that models code to its lines.

## The system

The assembler is one process with one thread. `main` runs `Compiler::run`, which takes a source file through a pipeline of
stages. Each stage is an object that takes over the result of the one before, has an error list, and is asked for errors
when it is done. From the grouper on, all stages work on one `Program` (sections and symbol table), and two of them share
one `InstructionEncoder`.

| component | state it keeps | operations | reads / calls |
|---|---|---|---|
| driver (`main.cpp`, `Compiler.cpp`) | the objects of the stages, the exit status | `parseArgs`, `readFile`, `run` | every stage, in order; exceptions end in `main` |
| `Lexer` | position, line, errors | `tokenize`, `readIdentifier`, `readNumber`, `readString` | the source text; `std::stoll` may throw |
| `Parser`, `MemoryExpression` | the token position, errors | `parse` and one function per statement form, Pratt parsing of memory operands, recovery by skipping a line | tokens, register and directive tables |
| `Grouper` | current section, errors, the `Program` being built | one handler per statement kind | the flat statement list |
| `SizeResolver` | pass count, current offset, errors | `resolve`, `pass`, `passSection`, `estimateDataSize` | `Program` (writes offsets and sizes), encoder |
| `InstructionEncoder` | the buffer of a call; errors, never cleared | `encode`, `size`, `matchPattern`, `emitPattern` and its parts | opcode table, symbol table, section addresses |
| opcode table and factories, registers | constants | none | - |
| `Layout` | running file offset and address | `assign` | `Program` (writes addresses) |
| `ElfWriter` | image, current address, errors | `write`, `buildElf`, `emitSection`, `emitDataDirective`, `findEntryPoint` | `Program`, encoder; the output file |

What is hard in it is not concurrency but agreement between steps that are far apart:

- **relaxation**: instruction sizes depend on symbol offsets, which depend on instruction sizes. The resolver reads offsets
  that the rest of the same pass still changes, and has to stop, at a fixed point, in at most ten passes;
- **measuring twice**: the resolver computes the size of all data and instructions, the writer emits them, two stages later
  and with code of its own. Symbols, program headers and relative operands are right only if the two agree;
- **late errors**: an error list is looked at between stages, but some errors arise before it is looked at the first time,
  some only when bytes are emitted, and some (file output) are not looked at at all;
- **first match**: the encoder takes the first pattern that fits, and the parts of the encoding (prefixes, ModRM, displacement,
  immediate) are chosen independently of one another from the pattern and the operands. Whether they add up to the
  instruction that was written depends on the whole table;
- **merging**: sections are reopened, names are defined, redefined, declared global and given equ values in any order, and
  all of it updates the same records field by field;
- **numeric edges**: displacements of 0, 1 and 4 bytes, `rel8`, `rel32`, page rounding, 64-bit sums.

What makes each component correct:

- Grouper: nothing is lost silently, sections keep the order of the source, symbols point at what defines them.
- SizeResolver: it ends; what it ends with is a fixed point; it does not need more passes than necessary.
- Layout: sections overlap neither in the file nor in memory; file offset and address agree modulo the page size.
- ElfWriter: bytes are where symbols, headers and relative operands say.
- Encoder: bytes decode to the address, the values and the operation that were written, and `size()` knows their number.
- Driver: failure leaves the output file alone, success has opened it and tried to write the whole image, and every run ends.
- Lexer and Parser: every faulty line is reported, every correct line yields its statements, parsing ends.

## Modules

| module | what it models |
|---|---|
| `AsmProgram` | the data the stages exchange: statements (AST) and `Program` (IR), `size_t`/`uint64_t` arithmetic |
| `InstructionEncoder` | operators: encoded length of an abstract instruction under a symbol table, error conditions, relative displacements |
| `OpcodeTable` | every pattern of every opcode, a definition per factory struct, in the order of the table |
| `PatternMatcher` | `matchPattern()`, `matchOperand()`, which operand goes where; `view`, the abstract instruction the back end works with |
| `PatternEncoder` | `encode()`; an action per part that `emitPattern()` appends to its buffer |
| `EncodingReference` | the properties of `PatternEncoder`: a decoder of ModRM, SIB and values, and the encoding reference of `OpcodeFactories.h` |
| `Grouper` | `group()`; an action per handler of `processStatement` |
| `Placement` | the sizes `passSection()` and its helpers count, and what a section looks like when its labels agree with them |
| `SizeResolver` | `resolve()`, `pass()`, `passSection()`; an action per loop iteration |
| `Layout` | `assign()`; an action per section |
| `ElfWriter` | `write()`, `buildElf()`, `emitSection()`; an action per section, item and file operation |
| `Tokens` | tokens as the parser reads them, operands and instructions as it delivers them; the tables of directives, registers, size prefixes and mnemonics |
| `MemoryOperands` | `parseExpression()` (Pratt parser), `flattenAST()`, the term loop of `parseMemoryOperand()` |
| `Parser` | `parse()`; an action per statement form, operators for the statement parsers |
| `Lexer` | `tokenize()`; an action per kind of lexeme |
| `Compiler` | `main()` and `run()`: instances of the stages, the hand-over between them, the checks after each |
| `AssemblerContract` | the abstract specification: exit status and output file as a user sees them |
| `Listing`, `MC*` | notation for statements; small instances for TLC |
| `LexerProofs`, `ParserProofs`, `GrouperProofs`, `PlacementProofs`, `SizeResolverProofs`, `LayoutProofs`, `ElfWriterProofs` | theorems about one component each, with their proofs |
| `PipelineProofs` | the whole pipeline composed, from characters to file: what each stage is proved to leave behind is what the next one is proved to need; `Compiler` implements `AssemblerContract` |

How state corresponds to code:

- A `Statement` is a record with a `kind`. Source spans and messages are left out. Names are elements of `Name`.
- There are two forms of an `Instruction`. The parser and the encoder (`ParsedInstruction`) have the opcode and the operands. The
  stages from the grouper on have a record of what they tell apart: `match` (a pattern of the opcode table fits), `head` (bytes
  before the displacement: prefixes, opcode, ModRM, SIB - they do not depend on symbols), `disp` and `terms` (the memory
  operand), `extra` with `target` or `imm` (immediate, `rel8` or `rel32` and its operand). `view` computes the
  one from the other with the opcode table, and the run `encoder` shows that `EncodedLength` and `EncodeFails` of the abstract form
  are the length of the buffer and the errors of `encode()`.
- The buffer of `PatternEncoder` is a sequence of bytes. Values are cut to bytes with a word of 32 bits scaled to
  `2 * Rel32Limit` values and one of 64 bits to `WordSize`, so that TLC can count them; 8 and 16 bits have their true width.
- A `DataDirective` counts its numbers (`nums`) and the characters of its strings (`chars`) instead of listing them; an
  identifier among the values is a string in the code too.
- Section and statement indices are 1-based; `current = 0` is the code's `size_t(-1)`.
- Error lists are a sequence of positions in `Grouper`, a Boolean elsewhere (`hasErrors()`), because nothing else about
  them is ever read. The encoder's error flag is a variable of its own that two stages share, and is never cleared.
- `place[s][i]` in `SizeResolver` remembers the local variable `offset` of `passSection()` for every statement; the code
  forgets it. It is written and never decides a step.
- `SectionsKeepSourceOrder` and `StrayItemsReported` of `Grouper` are stated with ranks: the `k`-th item of a section (the `k`-th error) is the
  `k`-th of the statements that belong to it, by their numbers in the source (`Lists`).
- `AssemblerContract`'s `Spec` is its safety part, `Ends` its liveness; `Compiler` checks them as `KeepsContract` and `RunEnds`. The contract is
  as weak as the code: success promises a complete file only if the file system lost nothing while it was written. That nobody
  notices a loss has an action of its own (`SucceedUnaware`), so `KeepsContract` does not show that exit status 0 means a complete file.
- The image in `ElfWriter` is its size, its program headers and, for every item visited, where it begins (`at`) and the
  address passed to the encoder (`base`). Its properties are about images in which everything was measured alike and nothing
  has wrapped around (`AsMeasured`, `NothingWraps`): a `.bss` of nearly 2^64 bytes is measured, and moves what comes after it, but is not written.
- The output file is `old`, `truncated`, `partial` or `complete`.
- A character of `Lexer` is a string of length one; what `std::isalpha` and `std::isxdigit` accept are the constants `Letter`
  and `DigitValue`. `NUL` is a character of the source and also what `peek()` returns at its end, as in the code. Positions and
  columns are 1-based. `extents` remembers the first and last character of each token and decides nothing.
- A token of `Parser` is its type, its word if it is an identifier, and one number: the value of a NUMBER, the length of a
  STRING or identifier. Case is a function `Lowered` from spellings to lower-case ones. Parentheses are left out: the lexer makes
  neither of their tokens, so the branch of `parseExpression()` for them is dead. So are the errors that
  `parseMemoryOperand()` has for size prefixes, which `isMemoryOperand()` has already checked.
- What a statement parser returns is a record: the statement, the position it stopped at, the tokens it reported errors at.
  `Take` appends the statement or skips to the next line, as every branch of the loop of `parse()` does. `Parser`'s `extents`
  remembers the tokens of each statement.
- A tree of `MemoryExpression` nodes is represented by the signed terms `flattenAST()` makes of it, and by whether it is a leaf,
  which is all that the term loop asks. A product of anything but a number and a register is the term `BAD`.
- The stages are parameterised by `WordSize` (2^64 in the code), `MaxPasses` (10) and `Rel32Limit` (2^31).

`Compiler` composes all stages with `INSTANCE ... WITH`, from the characters of a source to the file, on shared variables `tokens`,
`sections`, `symbols` and `encoderFailed`. Each hand-over (a constructor of the next stage) is part of the action that ends the
stage before: `HandTokensOver` turns a token of `Lexer` into one of `Parser`, `CheckParser` an instruction of `Parser` into the
abstract one of the back end (`view`).

## Runs

| run | what it checks | outcome |
|---|---|---|
| `lexer` | all texts of at most 4 characters over 11 classes, of at most 6 over those of strings and comments, of at most 5 over those of numbers | `SpansLocateTokens`, `NoCharacterIsLost`, `ErrorsMarkInvalidTokens`, `WordsAreNotSplit` hold, and it `Terminates` |
| `parser` | all sequences of at most 4 tokens over 10, all memory expressions of at most 5 tokens over 7, all programs of at most 2 lines out of 26, every line before and after every other one, each of them without its newline | `EveryTokenIsAnswered`, `InvalidTokensAreReported`, `StatementsStayOnTheirLine`, `LinesParseAlike`, `MemoryOperandsDenoteTheirText` hold, and it `Terminates` |
| `encoder` | every opcode with every list of at most one operand out of registers of all sizes, literals around every limit, memory operands around the limits of displacements, and labels; two operands where a form has two; three for `imul`; short jumps around their limit | `AbstractionAgrees`, `AddressesDecode`, `OperandsKeepTheirValue`, `OthersFollowReference` hold |
| `grouper` | all statement lists of at most `MaxLength` statements over ten statements | `SectionsKeepSourceOrder`, `StrayItemsReported`, `OneSectionPerType`, `SymbolPointsAtDefinition`, `DirectivesRecorded` hold |
| `resolver` | all programs of at most three text items out of eleven, with and without a data section, cascades of four to nine accesses that push one another over the one-byte displacement, and a program that wraps around the address space | `StablePlacement`, `LabelsOnlyMoveForward`, `GrowingProgramsConverge` hold, and it `Terminates` |
| `layout` | up to three sections with sizes around page boundaries and around the end of the address space | `SegmentsArePageCongruent`, `SectionsAreDisjoint` hold |
| `compiler` | texts through all stages: all bodies of at most two lines out of ten, and of three out of six, in two frames; fifteen special programs; eleven faulty lines | `AlikeMeasuredLabelsLand`, `SegmentsHoldTheirSections`, `CallsReachTheirLabels`, `EntryIsAtStart`, `AcceptedSourcesAreSound` hold; it implements `AssemblerContract` (`KeepsContract`) and ends (`RunEnds`) |

Five runs show a disagreement between the code and what its documentation says (`findings` in `PROJECT.json`):

| run | violated property | what the code does |
|---|---|---|
| `encoder_reference` | `FollowsReference` | `add al, imm8` has no immediate, the next byte of the program takes its place |
| `compiler_wide_string` | `LabelsLandWhereResolved` | a string in `dw`/`dd`/`dq` is measured in units and emitted in bytes |
| `compiler_data_in_text` | `InstructionsEncodedAtTheirAddress` | instructions after data are encoded for an address that is too low |
| `compiler_long_jump` | `ShortJumpsReach` | a `rel8` distance is truncated without an error |
| `compiler_lex_errors` | `StopsAtFirstErrors` | the lexer is asked for errors before it runs |

More divergences are known from the code and have no run of their own; the models follow the code in all of them:

- encoder, where `OthersFollowReference` excepts the form by name or `AddressesDecode` does (`Addressable`): a shift by `cl` has the
  code of `cl` in place of its digit, so that `shl`, `shr` and `sar` are all `ror` (`InstructionEncoder.cpp:199`); `lea r, label` has no
  ModRM byte (`OpcodeFactories.cpp:77`); `enter` has only the first of its immediates (`OpcodeFactories.cpp:902`); a memory operand
  of 16 or 64 bits without a register operand has no prefix for its size (`InstructionEncoder.cpp:152`); a memory operand without
  a base is encoded with `rax` as its base, one with `rsp` as its base without a SIB byte, `rbp` without a displacement as an
  absolute address, and `rsp` as an index is dropped by the processor (`InstructionEncoder.cpp:318`); a displacement beyond 32 bits is
  truncated (`:335`); a memory operand with a register of 32 bits (or less) in its address is encoded as if it had 64, without the prefix
  `67` that `docs/index.dox:88` describes (`HasShortRegister`); a label in a memory operand counts by its offset in its section, without the address of
  the section, although the same label as an immediate is its address (`:312`; `NamesLabel`): `AddressesDecode` says nothing about the
  displacement of such an operand; an undefined label in a form without an immediate (`add al, label`) is never reported (`:220`);
- encoder, where `OperandsKeepTheirValue` says what is left: a label or a constant as an immediate fits any size, so the first form is
  taken and the value is cut to it (`InstructionEncoder.cpp:77`); `push` and `imul` with 128 to 255 are sign-extended bytes;
  the near forms of jumps are never reached, because a label fits the short form, too;
- back end: initialised data in `.bss` is dropped (`ElfWriter.cpp:77`); a program without `_start` is entered at its first
  section whatever its type (`ElfWriter.cpp:244`); a failed write is reported as success (`ElfWriter.cpp:47`, the reason for
  `SucceedUnaware` in `AssemblerContract`); a program whose nine accesses push one another over the one-byte
  displacement limit is given up although an eleventh pass would settle it (`Cascade(9)`, `SizeResolver.cpp:20`); `[rbx + 132 - a]`
  before `a` makes the passes alternate until they are given up (`Oscillating` in `MCCompiler`); a name that is only declared
  global counts as a label at the start of the first section (`Grouper.cpp:94`);
- parser: `global` at the end of a line consumes the newline, and recovery then skips the next line (`Parser.cpp:494`);
  `times N resb M` reserves M (`Parser.cpp:584`); an `equ` name keeps its case while its uses are lower-cased
  (`Parser.cpp:694`); a last line with an instruction and without a newline is an error (`Parser.cpp:754`); an unknown
  section name is reported at the token behind it (`Parser.cpp:671`); the scale of an
  index is truncated to `int` before it is checked (`Parser.cpp:427`); `db 3.14`, which `Directive.h:38` names, is an error;
- lexer: the span of a NEWLINE is one line too far, that of a string of several lines is taken at its end, the column of an
  unknown escape is its index in the file (`Lexer.cpp:170`, `:150`, `:138`); `std::stoll` throws for a number that is too long, although
  `docs/index.dox:38` and `:226` say that errors are collected without exceptions (`Lexer.cpp:101`; the run ends with exit status 1); a NUL ends a comment; the value of a DOT is a comma.

### Bounds

- `WordSize` is 2^16 in `resolver`, so that offsets wrap around within TLC's integers, and 2^30 in `layout`, `encoder` and `compiler`
  (well above `TEXT_BASE`). Nothing in the models but `Wrap` and the cutting of values depends on it; the proofs are for every value.
- `lexer`: `MaxLong` is 100, so that the numbers of three digits are on both sides of it. A lexeme depends on its own characters
  and at most one more; four characters are enough for every pair of lexemes, six for a string with two escapes, a
  comment or a newline in it.
- `parser`: `IntSize` is 128 instead of 2^32; the literals of the expressions are below it. Statements need at most four tokens
  until they are recognised, fail or recover; five tokens of an expression hold two binary operators and a sign.
  `LinesParseAlike` compares a line that opens the source with the same line behind any other one, faulty or not, the tokens of errors
  included. It leaves out the lines around a NEWLINE that a failing parser may have consumed (`IsConsumed`: after `global`, and after a bracket
  or an operator between brackets); an error at a NEWLINE alone is no reason to leave a line out.
- `encoder`: `Rel32Limit` is 2^23, more than any 16-bit literal; `MCEncoder` has literals on both sides of every limit, one register
  per size and role (the codes 0, 3, 4, 5 and 7 among them), displacements on both sides of the limits of one and of four bytes, made of literals, of
  constants and of labels, every scale, and addresses with registers of 32 bits.
- `compiler`: `Rel32Limit` is 6000: more than a page, so that a call within a section is in range and a call over a page of reserved
  space is out of range, which is the error that appears only when bytes are emitted. `MaxLong` is 9999, so that `db 99999` throws.
- `compiler`: three lines of body are enough for a label, a use before or after it and something between that moves it; the
  special programs cover what needs more. `resb 140` is longer than a one-byte displacement reaches; `align 16` depends on
  its offset. Lexing and parsing are checked exhaustively in runs of their own; here they have every kind of line that a
  later stage tells apart, and a lexical error in every place where the parser handles one differently.
- `resolver`: the cascades go up to the first one that is given up.
- `MaxPasses` is 10, as in the code.

### Fairness

The assembler is one thread that no other actor blocks, so the specifications with liveness properties assume weak
fairness of the program's next step as a whole (`WF_vars(tokenize)`, `WF_vars(parse)`, `WF_vars(resolve)`, `WF_vars(run)`) and nothing about which
alternative is taken: a file that cannot be opened, a partial write and a missing argument stay possible for ever.

## Proofs

All theorems are about every value of the constants. They assume the named assumptions of the modules, which TLC evaluates in
every run that extends the module, and nothing else; only `ElfWriterProofs` has a hypothesis of its own (`LaidOut`), which
`PipelineProofs` proves of every run of `Compiler`. A table of the theorems:

| module | theorem | shows |
|---|---|---|
| `LexerProofs` | `TypeCorrect`, `SpansLocate`, `CharactersKept`, `ErrorsMark`, `WordsWhole` | `TypeOK`, `SpansLocateTokens`, `NoCharacterIsLost`, `ErrorsMarkInvalidTokens`, `WordsAreNotSplit` of `Lexer` |
| `ParserProofs` | `TypeCorrect`, `TokensAnswered`, `InvalidReported`, `StatementsOnTheirLine`, `EveryStepAdvances` | `TypeOK`, `EveryTokenIsAnswered`, `InvalidTokensAreReported`, `StatementsStayOnTheirLine` of `Parser`; every iteration of the loop of `parse()` gets ahead |
| `GrouperProofs` | `TypeCorrect`, `SectionsMerged`, `SymbolsPoint`, `DirectivesTakeEffect`, `SectionsInSourceOrder`, `StraysReported` | `TypeOK`, `OneSectionPerType`, `SymbolPointsAtDefinition`, `DirectivesRecorded`, `SectionsKeepSourceOrder`, `StrayItemsReported` |
| `SizeResolverProofs` | `TypeCorrect`, `PlacementIsFixedPoint`, `RelaxationIsMonotone`, `PassesBounded` | `TypeOK`, `StablePlacement`, `LabelsOnlyMoveForward`, `GrowingProgramsConverge` |
| `LayoutProofs` | `TypeCorrect`, `PageCongruent`, `Disjointness` | `TypeOK`, `SegmentsArePageCongruent`, `SectionsAreDisjoint` |
| `ElfWriterProofs` | `LabelsLand`, `SegmentsHold`, `CallsReach`, `EntryAtStart` | the properties of the image, for every program that is `LaidOut`, under the conditions below |
| `PipelineProofs` | `LabelsLandInImage`, `SegmentsHoldInImage`, `CallsReachInImage`, `ImageEnteredAtStart`, `TypeCorrect`, `NoErrorIsMissed`, `ImplementsContract` | the same properties of `Compiler`, from the characters of the source to the file; its `TypeOK`; `AcceptedSourcesAreSound`; `KeepsContract` |

The assumptions say what the constants stand for. Of the stages: `Lowered` maps spellings with capital letters to others without (`LoweredAssumption`),
`NoName` is not a name and not a keyword (`NameAssumption`, `KeywordAssumption`), the inputs of a stage are of its type, token lists end with END_OF_FILE
(`InputAssumption` and the like); `Letter`, `Space` and `DigitValue` are classes of characters as `<cctype>` has them (`CharAssumption`); `WordSize`
and `Rel32Limit` are positive. Of `Compiler`: sources are texts whose words are names (`SourceAssumption`; the runs
take all strings as names), the limits of `std::stoll` and of the cast to `int` are numbers (`NumberAssumption`), so is
the number of passes (`PassesAssumption`), and two pages above `TEXT_BASE` are addressable (`AddressSpaceAssumption`).

The arguments, one component after the other:

- `LexerProofs`. `IInv` adds to `TypeOK` and the properties that the counters are in step with the position (`Counted`: the line is
  one more than the newlines before it, the line start is where its line starts), that every token has its extent
  (`Paired`), that extents lie behind the position (`Behind`), and that words begin with a character of a word and are followed by
  none (`WordsDelimited`, from which `WordsAreNotSplit` follows). Spans are taken *after* a lexeme is read, with the line and the line
  start of that moment; `SpanLocates` shows that this gives the place of its first character if there is no newline in it.
  All actions that append a token go through one lemma (`PushKeeps`), those that do not through another (`ConsumeKeeps`). The
  lemmas below them are about runs of characters (`RunEnds`), about counting (`LineAddsUp`, `LineStartKept`, `ColumnIs`), and about the two
  recursive functions of the module, `ValueOf` and `StringFrom`: that they are what their definitions say, and the type and
  bounds of what they return. These need induction, which is done with sets of numbers (`SetInduction`) because the
  induction theorems of the library cannot be instantiated here. `Delivered` says what the parser is given: the spelling of every
  identifier is a stretch of the source that begins with a letter or `_` and goes on with letters, digits and `_`, END_OF_FILE is
  the last token and only that, and a text that has been read to its end has one.
- `ParserProofs`, from `IInv`: the tokens are an input (`IsInput`: END_OF_FILE is the last one), and what has been read of them is
  `Parsing`, a history: every statement has its extent, every token before the position is a line end, in such an extent, or
  on a line with an error (or behind a NEWLINE with one); and as long as there is no error, no extent has a NEWLINE in it and no INVALID
  token has been passed. Two things make this work. Recovery is where tokens could get lost, so each statement parser is proved `Sound`: the tokens between the
  place it began at and the place it stopped at are all in its statement, or it reports an error, and
  `ExplainedLine` shows that the skipped rest of the line is accounted for by that error even where an error is
  met behind the newline (`global` at the end of a line). And the parsers are recursive functions over token positions.
  `FixedPoint` and `OneSolution` state, once, that a function whose definition descends in a rank has a solution and only one; with them
  `ExpressionRead` (the Pratt parser), `OperandsFacts` and `ValuesFacts` (the lists) unfold definitions that are known only through
  `CHOOSE`, and prove types, positions and errors of what they return. `TypeCorrect` needs all of it: that an alignment is positive and
  that a displacement is a number is a fact about what the parsers compute. `EveryStepAdvances` is the safety half of the
  parser's termination.
- `GrouperProofs`. `OneSectionPerType` is inductive as it stands relative to types, and so is `SymbolPointsAtDefinition`, because items
  are only appended: what a symbol pointed at stays where it is. `DirectivesRecorded` needs what the last visited directive of a
  name is after one more statement, a lemma per kind of directive. `SectionsKeepSourceOrder` and `StrayItemsReported` are kept because a step adds at
  most one number to the set a list is compared with, and one that is higher than all the others: the ranks of these stay the same.
- `SizeResolverProofs`. `TypeOK` is inductive only together with `PassesCounted` (no pass begins after `MaxPasses`). The fixed point needs
  `PlacedSoFar`: as long as the current pass has changed nothing, every item it has visited stands where its label says
  and its successor follows by its size *under the current symbol table*. The invariant is kept because any step that
  changes a symbol or a section size sets `changed`, which is exactly what the code's flag is for; when a pass ends
  without it, `PlacedSoFar` covers all sections. `EncodedSoFar` adds that a pass without encoder errors has seen every instruction
  encode (`Sound`), which is what `NoErrorIsMissed` needs of the back end.

  The other two theorems are about programs that are `Growing`: no name is defined twice, no displacement that depends on symbols
  is negative or has a symbol subtracted, and the program cannot come near the end of the address space even if every
  item takes the most it can (`LongestPlaces`). Without the last condition `LabelsOnlyMoveForward` is false: in `Wrapping`
  of `MCSizeResolver` an item that gets longer pushes the label behind it over the end of the address space, back to its start.
  `InRoom` carries it through a pass: nothing is ever placed beyond its longest place, so that `Wrap` is the identity. Monotonicity needs
  `NothingAhead`: neither the label of an item nor the item behind it is further on than the current table and
  the item's own place would put it. That is kept because sizes only grow with the symbols (`ItemEndGrows`: the end of an item does not
  move back when its beginning or the symbols move forward, `align` included), and says of the next item to be
  visited that its label can only move forward.
  The bound counts, in `Raises`, how often a displacement has got longer: from no byte to one, and from one to four, so at most
  twice for each instruction that depends on symbols. `PassesAccounted` says that every pass but the first and the last is paid
  for by such an event in the pass before. If none has happened since a pass began, what it has visited is
  verified under the current table (`VerifiedSoFar`), and it ends with a fixed point (`AllVerified`); a pass that begins with
  a fixed point changes nothing, and is the last.
- `LayoutProofs`, from `IInv == TypeOK /\ Aligned /\ Ordered`: the running offset and address are page multiples, and lie behind
  all sections placed so far unless one of these reaches the end of the address space.
- `ElfWriterProofs`. The hypothesis `LaidOut` says what the writer is given: labels point at their definitions, the offsets of the items
  are the sums of the sizes before them (`IsPlaced`), alignments are positive, and sections with bytes begin at pages, in order
  unless the arithmetic of `Layout` wrapped. `IInv` has five parts: types; `Progress` (sections are emitted one after the other, and
  completely); `Located` (as long as all items are `AsMeasured`, the bytes of item `i` begin at the file offset of its section plus
  the offset the resolver gave it, which is where two computations in different files have to agree); `Based` (the address an instruction is encoded for is
  the address of its section plus its offset, if the section has no data before it); `Headers` (the program headers, and the entry point).
  `AsMeasured` excludes wrapped arithmetic (`NothingWraps`): with a section that is longer than the address space behind it the properties do not
  hold. What the four theorems claim is conditional, and the runs `compiler_wide_string` and `compiler_data_in_text` show that it has to be:

  - all four are about images that are `AsMeasured`: no error, no wrapped arithmetic, no string in `dw`, `dd` or `dq`, every alignment a divisor of the page size;
  - `CallsReach` also needs `CodeBeforeData` of the section of the call: no data before an instruction;
  - `EntryAtStart` also needs that exactly one item defines `_start`, in a section that is emitted;
  - `SegmentsHold` is about the length of segments, not about overlap. That no two sections overlap is `Disjointness` of `LayoutProofs`.

  `DataMeasure` shows that `emitDataDirective()` and `estimateDataSize()` agree on all data but strings in wide units and alignments the page
  is not a multiple of.
- `PipelineProofs` joins the stages, in two invariants. `SourceRead` is about the front: while the lexer runs its `IInv` and
  `Delivered` hold, while the parser runs the tokens are what the lexer left and the parser's `IInv` holds, and from then on the statements that
  were accepted are those of the back end (`WellFormed`) and were parsed without an error. `HandOver` turns the one lexer invariant
  into the parser's `IsInput`, `ParserLeaves` the parser's `TypeOK` into `WellFormed`. The latter goes through `view`, so the table of opcodes has to
  be typed: `TableType` does it one factory struct after the other, and `ViewType` shows that an instruction has a finite length whatever
  pattern it matches. `ParserRejects` is why a missing check does no harm: nobody looks at the errors the lexer
  finds while it runs, but each of them but those about escapes leaves an INVALID token, and the parser never passes one in silence.

  `PipelineInv` is about the back end. It says, for the stage that is running, that the invariant of that stage's
  proof module holds of the shared variables, and of stages that have ended what they left: `GroupedWell` (labels point,
  alignments are positive, at most three sections), `ResolvedWell` (`IsPlaced` for every section). One lemma per action of `run()`; the hand-overs are where
  an invariant of one stage turns into the precondition of the next: `GrouperLeaves`, `CheckGrouperStep`, `CheckResolverStep`, `LayoutLeaves`,
  `CheckLayoutStep`. Together they give `LaidOut` for every image that is written, whatever the source: the theorems about the image have no hypothesis
  about what the writer is given. The conditions in the properties themselves stay, see above.

  The proof modules are instantiated with the variables of `Compiler`, and short lemmas (`ParserStatements`, `ResolverActions`, `SamePlacement`, ...) show that
  what they define is the same as what the instances inside `Compiler` define.

  `NoErrorIsMissed` needs both halves: `SourceRead` for the source (exit status 0 means that its tokens had no errors but unknown escapes), and
  `SoundSoFar` for the encoding, which follows an instruction from the statement list to a section (`InstructionsPlaced`: the grouper drops nothing
  without an error) and takes from the resolver's last pass that it has a pattern and that the symbols it names exist.

  For the refinement of `AssemblerContract`, `FileFollowsWriter` relates the phase of the writer, its error flag and the file, and says that an
  encoder error that is met while writing is an error of the writer; no step of another stage touches the file. That a run ends is
  liveness and not part of the safety specification that is proved.

The strengthened invariants have been model-checked before they were proved.

Only model-checked:

- termination of every stage and of a run (`Terminates`, `RunEnds`), and everything else that needs fairness;
- `LinesParseAlike` and `MemoryOperandsDenoteTheirText` of `Parser`. Both compare two values that recursion computes: the first two runs of
  the parser on different texts, the second a tree with the sum of its terms. The proofs have what such functions return of types,
  positions and errors; the values would be inductions over the texts;
- the encoder (`TypeOK` and `AbstractionAgrees` of `PatternEncoder`, and the properties of `EncodingReference`): they are about the bytes that each entry of the table
  leads to, little-endian conversion (a fold) included, so that a proof would go through the table entry by entry as the
  run does. That the table is well typed is proved (`TableType`).

## Not modelled

- The unit tests, and the printing of errors, tokens and trees in `main.cpp`.
- `operandSizeGroup` of `OpcodePattern` and `IMM8_SIGNED` as a kind of its own: nothing reads the difference.
- `std::isalpha` and its kin on negative `char` values, which is undefined for the bytes of non-ASCII sources; the
  classes of `Lexer` are about the others. `int` overflow of positions in sources beyond 2 GiB.
- Wording and spans of messages; ELF header fields that are constants.
- 64-bit overflow of displacement sums and relative distances: they are exact integers here. (Offsets, sizes and addresses do wrap.)
- Memory exhaustion.

## Plan

1. (done) `AsmProgram`, `Grouper`, `SizeResolver`, `InstructionEncoder`, `Layout`, `ElfWriter`, `Compiler`,
   `AssemblerContract`, first proofs.
2. (done) `Lexer`; `Tokens`, `MemoryOperands` and `Parser`.
3. (done) `OpcodeTable`, `PatternMatcher`, `PatternEncoder`, `EncodingReference`.
4. (done) `Lexer` and `Parser` as stages of `Compiler`.
5. (done) Proofs of `Lexer`, of the rest of `Grouper`, of `ElfWriter`, of `AssemblerContract`, and of the back end composed.
6. (done) Proofs of monotone relaxation and of the number of passes it needs.
7. (done) Proofs of `Parser`, of `Lexer` and `Parser` as the front of the pipeline (`SourceIsLexed`, `WellFormed`), and with them the theorems
   about `Compiler` without a hypothesis.
8. Proofs: the length and the bytes that `emitPattern()` leaves, pattern by pattern.
