------------------------------- MODULE Parser -------------------------------
(***************************************************************************)
(* Parser::parse(): one action per statement form, in the order in which   *)
(* the loop tries them. A statement parser returns the position it stopped *)
(* at, the statement or Nothing, and the tokens it reported errors at.     *)
(***************************************************************************)
EXTENDS MemoryOperands, FiniteSets

CONSTANT Inputs  \* token sequences the lexer delivers

\* The last token, and no other one, is END_OF_FILE.
IsInput(input) ==
  /\ input \in Seq(Token)
  /\ input # <<>>
  /\ \A t \in DOMAIN input : input[t].type = "END_OF_FILE" <=> t = Len(input)

ASSUME InputAssumption == \A input \in Inputs : IsInput(input)

VARIABLES
  currentToken,
  program,
  extents,  \* history: the first and last token of each statement
  errors    \* the tokens at which errors were reported

vars == <<tokens, currentToken, program, extents, errors>>

ParsedStatement == ParsedInstruction \cup (Statement \ Instruction)

Nothing == NoOperand

Accept(value, at) == [value |-> value, at |-> at, errors |-> <<>>]

\* addError() at a token, and no value.
Fail(at, token) == [value |-> Nothing, at |-> at, errors |-> <<Place(token)>>]

\* Also behind the last token, because peek() stays on it.
endOfFile(p) == match("END_OF_FILE", p)

EndOfLine(p) ==
  CHOOSE q \in p .. Len(tokens) + 1 :
    /\ endOfFile(q) \/ match("NEWLINE", q)
    /\ \A x \in p .. q - 1 : ~endOfFile(x) /\ ~match("NEWLINE", x)

\* Mutant: advances before it looks for the end of the line.
NextLineButNotHere(p) ==
  LET end == EndOfLine(Advance(p)) IN IF match("NEWLINE", end) THEN Advance(end) ELSE end

\* The position skipToNextLine() stops at.
NextLine(p) ==
  LET end == EndOfLine(p) IN IF match("NEWLINE", end) THEN Advance(end) ELSE end

-----------------------------------------------------------------------------
(* Classification *)

tokenIsDataDirective(p) == Key(p) \in DOMAIN DataDirectiveTable

Identifier(p) == match("IDENTIFIER", p)

BeginsData(p) == tokenIsDataDirective(p) \/ Key(p) = "times"

isDataDirective(p) == BeginsData(p) \/ (Identifier(p) /\ BeginsData(p + 1))

isLabelDeclaration(p) ==
  Identifier(p) /\ ~tokenIsRegister(p) /\ match("COLON", p + 1)

isGlobalDirective(p)  == Key(p) = "global"
isSectionDirective(p) == Key(p) = "section"
isEquDirection(p)     == Identifier(p) /\ Key(p + 1) = "equ"
isInstruction(p)      == IsMnemonic(Key(p))

isImmediate(p) ==
  \/ match("NUMBER", p)
  \/ match("MINUS", p) /\ match("NUMBER", p + 1)

-----------------------------------------------------------------------------
(* Directives *)

\* parseSignedInteger() where isImmediate(p).
SignedInteger(p) ==
  IF match("NUMBER", p) THEN [value |-> peek(p).value, at |-> p + 1]
  ELSE [value |-> -peek(p + 1).value, at |-> p + 2]

\* An identifier is a value like a string.
IsString(p) == peek(p).type \in {"STRING", "IDENTIFIER"}

ValueAt(p) ==
  IF IsString(p) THEN [nums |-> 0, chars |-> peek(p).value, at |-> p + 1]
  ELSE [nums |-> 1, chars |-> 0, at |-> SignedInteger(p).at]

BeginsValue(p) == IsString(p) \/ isImmediate(p)

\* The list of values from p on. It may end with a comma.
Values[p \in Position] ==
  IF ~BeginsValue(p) THEN [at |-> p, nums |-> 0, chars |-> 0]
  ELSE IF ~match("COMMA", ValueAt(p).at) THEN ValueAt(p)
  ELSE [Values[ValueAt(p).at + 1] EXCEPT !.nums = @ + ValueAt(p).nums,
                                         !.chars = @ + ValueAt(p).chars]

\* Mutant: the value of align is not checked.
ParseAnyCount(out, d) ==
  IF ~match("NUMBER", d + 1) THEN Fail(d + 1, d + 1)
  ELSE Accept([out EXCEPT !.count = peek(d + 1).value], d + 2)

\* resN n and align n: a number where the values would be.
ParseCount(out, d) ==
  LET number == peek(d + 1)
  IN IF number.type # "NUMBER" THEN Fail(d + 1, d + 1)
     ELSE IF out.dir = "ALIGN" /\ number.value <= 0 THEN Fail(d + 2, d + 1)
     ELSE Accept([out EXCEPT !.count = number.value], d + 2)

ParseValues(out, d) ==
  LET values == Values[d + 1]
  IN IF ~BeginsValue(d + 1) THEN Fail(d + 1, d + 1)
     ELSE Accept([out EXCEPT !.nums = values.nums, !.chars = values.chars],
                 values.at)

\* [label] [times n] directive values
parseDataDirective(p) ==
  LET labelled == Identifier(p) /\ BeginsData(p + 1)
      t        == IF labelled THEN p + 1 ELSE p
      repeated == Key(t) = "times"
      d        == IF repeated THEN t + 2 ELSE t
      out      == [kind |-> "DATA", label |-> IF labelled THEN Key(p) ELSE NoName,
                   dir |-> DataDirectiveTable[Key(d)], nums |-> 0, chars |-> 0,
                   count |-> IF repeated THEN peek(t + 1).value ELSE 1]
  IN IF repeated /\ ~match("NUMBER", t + 1) THEN Fail(t + 1, t + 1)
     ELSE IF repeated /\ peek(t + 1).value <= 0 THEN Fail(t + 2, t + 1)
     ELSE IF ~Identifier(d) THEN Fail(d, d)
     ELSE IF ~tokenIsDataDirective(d) THEN Fail(d + 1, d)
     ELSE IF out.dir \in DefineKind THEN ParseValues(out, d)
     ELSE ParseCount(out, d)

\* An unknown name is reported at the token behind it, which may be the NEWLINE.
parseSectionDirective(p) ==
  LET n == IF match("DOT", p + 1) THEN p + 2 ELSE p + 1
  IN IF ~Identifier(n) THEN Fail(n, n)
     ELSE IF Key(n) \notin DOMAIN SectionTable THEN Fail(n + 1, n + 1)
     ELSE Accept([kind |-> "SECTION", type |-> SectionTable[Key(n)]], n + 1)

\* The name keeps its case.
parseEquDirective(p) ==
  IF ~isImmediate(p + 2) THEN Fail(p + 2, p + 2)
  ELSE Accept([kind |-> "EQU", name |-> peek(p).word, value |-> SignedInteger(p + 2).value],
              SignedInteger(p + 2).at)

\* Mutant: the name may stand on the next line.
GlobalOverLines(p) ==
  LET n == IF match("NEWLINE", p + 1) THEN p + 2 ELSE p + 1
  IN IF Identifier(n) THEN Accept([kind |-> "GLOBAL", name |-> Key(n)], n + 1)
     ELSE Fail(Advance(n), n)

\* Whatever follows is consumed, a NEWLINE too.
parseGlobalDirective(p) ==
  IF Identifier(p + 1)
    THEN Accept([kind |-> "GLOBAL", name |-> Key(p + 1)], p + 2)
    ELSE Fail(Advance(p + 1), p + 1)

parseLabelDeclaration(p) == Accept([kind |-> "LABEL", label |-> Key(p)], p + 2)

-----------------------------------------------------------------------------
(* Instructions *)

parseOperand(p) ==
  IF tokenIsRegister(p)
    THEN Accept([kind |-> "REG", reg |-> Key(p), size |-> RegisterTable[Key(p)]], p + 1)
  ELSE IF isMemoryOperand(p) THEN parseMemoryOperand(p)
  ELSE IF Identifier(p) THEN Accept([kind |-> "LABEL", label |-> Key(p)], p + 1)
  ELSE IF isImmediate(p)
    THEN Accept([kind |-> "IMM", imm |-> SignedInteger(p).value], SignedInteger(p).at)
  ELSE Fail(p, p)

\* A list of operands that has ended where an operand has been read.
End(operand, ok) ==
  [ok |-> ok, operands |-> <<operand.value>>, at |-> operand.at, errors |-> operand.errors]

\* The loop over the operands from p on: a comma or the NEWLINE must follow an
\* operand, and the NEWLINE ends the list wherever it stands. At the end of the
\* file there is none.
Operands[p \in Position] ==
  LET operand == parseOperand(p) IN
  IF match("NEWLINE", p) THEN [ok |-> TRUE, operands |-> <<>>, at |-> p, errors |-> <<>>]
  ELSE IF operand.value = Nothing THEN End(operand, FALSE)
  ELSE IF match("NEWLINE", operand.at) THEN End(operand, TRUE)
  ELSE IF ~match("COMMA", operand.at)
    THEN [End(operand, FALSE) EXCEPT !.errors = Append(@, Place(operand.at))]
  ELSE [Operands[operand.at + 1] EXCEPT !.operands = <<operand.value>> \o @,
                                        !.errors = operand.errors \o @]

parseInstruction(p) ==
  LET list == Operands[p + 1]
  IN [value  |-> IF ~list.ok THEN Nothing
                 ELSE [kind |-> "INSTR", opcode |-> parseMnemonic(Key(p)),
                       operands |-> list.operands],
      at     |-> list.at,
      errors |-> list.errors]

-----------------------------------------------------------------------------
(* The loop of parse() *)

TypeOK ==
  /\ IsInput(tokens)
  /\ currentToken \in 1 .. Len(tokens) + 1
  /\ program \in Seq(ParsedStatement)
  /\ extents \in Seq((1 .. Len(tokens)) \X (1 .. Len(tokens)))
  /\ Len(extents) = Len(program)
  /\ errors \in Seq(1 .. Len(tokens))
  /\ \A i \in DOMAIN program :
       program[i].kind = "DATA" /\ program[i].dir = "ALIGN" => program[i].count > 0

Init ==
  /\ tokens \in Inputs
  /\ currentToken = 1
  /\ program = <<>>
  /\ extents = <<>>
  /\ errors = <<>>

Here == currentToken

Emit(outcome) ==
  IF outcome.value = Nothing THEN UNCHANGED <<program, extents>>
  ELSE /\ program' = Append(program, outcome.value)
       /\ extents' = Append(extents, <<Here, outcome.at - 1>>)

\* Mutant: what is left of the line of a statement is skipped too.
TakeWholeLine(result) ==
  \E outcome \in {result} :
    /\ Emit(outcome)
    /\ errors' = errors \o outcome.errors
    /\ currentToken' = NextLine(outcome.at)
    /\ UNCHANGED tokens

\* A statement, or the next line after an error; then the NEWLINE that follows.
Take(result) ==
  \E outcome \in {result} :
    LET after == IF outcome.value = Nothing THEN NextLine(outcome.at) ELSE outcome.at
    IN /\ Emit(outcome)
       /\ errors' = errors \o outcome.errors
       /\ currentToken' = IF match("NEWLINE", after) THEN Advance(after) ELSE after
       /\ UNCHANGED tokens

AtStatement == ~endOfFile(Here) /\ ~match("NEWLINE", Here)

\* Mutant: the NEWLINE is not consumed.
StayAtNewline ==
  /\ match("NEWLINE", Here)
  /\ UNCHANGED <<tokens, currentToken, program, extents, errors>>

SkipNewline ==
  /\ match("NEWLINE", Here)
  /\ currentToken' = Advance(Here)
  /\ UNCHANGED <<tokens, program, extents, errors>>

ParseData == AtStatement /\ isDataDirective(Here) /\ Take(parseDataDirective(Here))

\* A statement may follow a label on its line.
ParseLabel ==
  /\ AtStatement
  /\ ~isDataDirective(Here)
  /\ isLabelDeclaration(Here)
  /\ Emit(parseLabelDeclaration(Here))
  /\ currentToken' = parseLabelDeclaration(Here).at
  /\ UNCHANGED <<tokens, errors>>

Unlabelled == AtStatement /\ ~isDataDirective(Here) /\ ~isLabelDeclaration(Here)

ParseGlobal == Unlabelled /\ isGlobalDirective(Here) /\ Take(parseGlobalDirective(Here))

ParseSection == Unlabelled /\ isSectionDirective(Here) /\ Take(parseSectionDirective(Here))

NotNamed == Unlabelled /\ ~isGlobalDirective(Here) /\ ~isSectionDirective(Here)

ParseEqu == NotNamed /\ isEquDirection(Here) /\ Take(parseEquDirective(Here))

ParseInstruction ==
  NotNamed /\ ~isEquDirection(Here) /\ isInstruction(Here) /\ Take(parseInstruction(Here))

\* Mutant: the line is skipped without an error.
UnexpectedButQuiet ==
  /\ NotNamed /\ ~isEquDirection(Here) /\ ~isInstruction(Here)
  /\ currentToken' = NextLine(Here)
  /\ UNCHANGED <<tokens, program, extents, errors>>

Unexpected ==
  /\ NotNamed /\ ~isEquDirection(Here) /\ ~isInstruction(Here)
  /\ errors' = Append(errors, Here)
  /\ currentToken' = NextLine(Here)
  /\ UNCHANGED <<tokens, program, extents>>

parse ==
  \/ SkipNewline
  \/ ParseData
  \/ ParseLabel
  \/ ParseGlobal
  \/ ParseSection
  \/ ParseEqu
  \/ ParseInstruction
  \/ Unexpected

Parsed == endOfFile(Here)

Next == parse

Spec == Init /\ [][Next]_vars /\ WF_vars(parse)

-----------------------------------------------------------------------------
(* Properties *)

Reported == ToSet(errors)

\* The number of lines that end before a token.
LineOf(t) == Cardinality({x \in 1 .. t - 1 : tokens[x].type = "NEWLINE"})

IsCovered(t) == \E i \in DOMAIN extents : t \in extents[i][1] .. extents[i][2]

\* Nothing is dropped in silence: every token belongs to a statement, or its line
\* has an error. (When a parser has consumed the NEWLINE of a faulty line, as
\* parseGlobalDirective() does, recovery skips the next line as well: then the
\* error is at that NEWLINE.)
EveryTokenIsAnswered ==
  Parsed =>
    \A t \in DOMAIN tokens :
      \/ tokens[t].type \in {"NEWLINE", "END_OF_FILE"}
      \/ IsCovered(t)
      \/ \E e \in Reported :
           \/ LineOf(e) = LineOf(t)
           \/ tokens[e].type = "NEWLINE" /\ LineOf(e) + 1 = LineOf(t)

\* The driver never looks at the lexer's errors again (Compiler.cpp:56), so the
\* parser is what stops a source with an INVALID token.
InvalidTokensAreReported ==
  Parsed /\ (\E t \in DOMAIN tokens : tokens[t].type = "INVALID") => errors # <<>>

\* Parsing is line by line: no statement of an accepted source spans two lines.
StatementsStayOnTheirLine ==
  Parsed /\ errors = <<>> =>
    \A i \in DOMAIN extents : LineOf(extents[i][1]) = LineOf(extents[i][2])

\* The first and last token of each line.
Lines ==
  { l \in (1 .. Len(tokens)) \X (1 .. Len(tokens)) :
      /\ l[1] <= l[2] /\ tokens[l[2]].type = "NEWLINE"
      /\ l[1] = 1 \/ tokens[l[1] - 1].type = "NEWLINE"
      /\ \A t \in l[1] .. l[2] - 1 : tokens[t].type # "NEWLINE" }

StatementsOf(l) ==
  LET inLine(i) == extents[i][1] \in l[1] .. l[2]
      first == CHOOSE i \in DOMAIN program : inLine(i) /\ (i = 1 \/ ~inLine(i - 1))
      last  == CHOOSE i \in DOMAIN program : inLine(i) /\ (i = Len(program) \/ ~inLine(i + 1))
  IN IF \E i \in DOMAIN program : inLine(i) THEN SubSeq(program, first, last) ELSE <<>>

\* A NEWLINE that a failing parser may have consumed, in place of the name of global
\* (Parser.cpp:494) or of an operand between brackets (Parser.cpp:262). Any other
\* error at a NEWLINE leaves it where it is.
IsConsumed(t) ==
  /\ t \in Reported /\ tokens[t].type = "NEWLINE"
  /\ Key(t - 1) = "global" \/ tokens[t - 1].type \in {"LBRACKET", "PLUS", "MINUS", "STAR"}

EndsAreIntact(l) == ~IsConsumed(l[1] - 1) /\ ~IsConsumed(l[2])

\* Recovery leaves nothing behind: a line means the same, and has errors at the
\* same tokens, wherever it stands and whatever the lines before it are - but for
\* lines whose NEWLINE, or the one before them, has been consumed by mistake.
LinesParseAlike ==
  Parsed =>
    \A l, m \in Lines :
      /\ SubSeq(tokens, l[1], l[2]) = SubSeq(tokens, m[1], m[2])
      /\ EndsAreIntact(l) /\ EndsAreIntact(m)
      => /\ StatementsOf(l) = StatementsOf(m)
         /\ {e - l[1] : e \in Reported \cap (l[1] .. l[2])}
              = {e - m[1] : e \in Reported \cap (m[1] .. m[2])}

\* A value for every register and symbol: 1 for one, 0 for the others, and for
\* all of them if one is NoName.
Unit(one, x) == IF x = one /\ x # NoName THEN 1 ELSE 0

\* The value of the tokens from p to q by the rules of arithmetic. A minus
\* is a sign unless an operand stands before it.
ValueOfText(p, q, one) ==
  LET step(s, t) ==
        CASE t.type = "NUMBER"     -> [s EXCEPT !.product = @ * t.value, !.operand = TRUE]
          [] t.type = "IDENTIFIER" -> [s EXCEPT !.product = @ * Unit(one, stringToLower(t.word)),
                                                !.operand = TRUE]
          [] t.type = "STAR"       -> [s EXCEPT !.operand = FALSE]
          [] t.type = "MINUS" /\ ~s.operand -> [s EXCEPT !.product = -@]
          [] OTHER -> [sum |-> s.sum + s.product, operand |-> FALSE,
                       product |-> IF t.type = "MINUS" THEN -1 ELSE 1]
      end == FoldLeft(step, [sum |-> 0, product |-> 1, operand |-> FALSE], SubSeq(tokens, p, q))
  IN end.sum + end.product

ValueOfOperand(mem, one) ==
  Unit(one, mem.base) + mem.scale * Unit(one, mem.index) + mem.displacement
    + FoldLeft(LAMBDA sum, s : sum + s.sign * Unit(one, s.name), 0, mem.symbols)

Brackets(i, type) ==
  SelectSeq([k \in 1 .. extents[i][2] - extents[i][1] + 1 |-> extents[i][1] + k - 1],
            LAMBDA t : tokens[t].type = type)

MemoryOperandsOf(statement) ==
  SelectSeq(statement.operands, LAMBDA o : o.kind = "MEM")

\* A memory operand stands for the address its text describes: base, scaled index,
\* displacement and symbols agree with the expression as linear forms of the
\* registers and symbols in it. (Literals beyond int make scales of their own.)
MemoryOperandsDenoteTheirText ==
  Parsed /\ errors = <<>> /\ (\A t \in DOMAIN tokens : 2 * tokens[t].value < IntSize) =>
    \A i \in DOMAIN program :
      program[i].kind = "INSTR" =>
        \A k \in DOMAIN MemoryOperandsOf(program[i]) :
          \A one \in {stringToLower(tokens[t].word) : t \in DOMAIN tokens} :
            ValueOfOperand(MemoryOperandsOf(program[i])[k].mem, one)
              = ValueOfText(Brackets(i, "LBRACKET")[k] + 1, Brackets(i, "RBRACKET")[k] - 1, one)

\* The loop of parse() ends, whatever the tokens are.
Terminates == <>Parsed

=============================================================================
