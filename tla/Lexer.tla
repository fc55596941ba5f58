------------------------------- MODULE Lexer --------------------------------
(***************************************************************************)
(* Lexer::tokenize(): one action per kind of lexeme, each of them one      *)
(* iteration of the loop, the white space before the lexeme included.      *)
(*                                                                         *)
(* Characters are strings of length one. Positions in the source are       *)
(* 1-based (0-based in the code), and so are columns (in both).            *)
(***************************************************************************)
EXTENDS Integers, FiniteSets, SequencesExt

CONSTANTS
  Char,         \* the characters of the sources
  Space,        \* those skipWhitespace() skips
  Letter,       \* std::isalpha
  DigitValue,   \* the values of the decimal and hexadecimal digits
  MaxLong,      \* the greatest int64_t
  SourceTexts   \* inputs: sequences of characters

NL == "\n"
Quote == "\""
Backslash == "\\"
NUL == "\\0"  \* also what peek() returns at the end

HexDigit == DOMAIN DigitValue
Digit    == HexDigit \ Letter
Alnum    == Letter \cup Digit

ASSUME CharAssumption ==
  /\ Space \cup Letter \cup HexDigit \subseteq Char
  /\ Space \cap (Alnum \cup {NL, NUL, Quote, Backslash, ";", "_"}) = {}
  /\ NUL \notin Alnum
  /\ {NL, "\t", Quote, Backslash, ","} \subseteq Char
  /\ DigitValue \in [HexDigit -> 0 .. 15]
  /\ \A d \in HexDigit : DigitValue[d] <= 9 <=> d \in Digit

ASSUME MaxLongAssumption == MaxLong \in Nat

ASSUME SourceAssumption == SourceTexts \subseteq Seq(Char)

VARIABLES
  code, position, line, lineStart, tokens, errors,
  extents,  \* history: the first and last character of each token
  status    \* running, done, or threw (std::out_of_range)

vars == <<code, position, line, lineStart, tokens, errors, extents, status>>

Punctuation ==
  [c \in {",", ".", ":", "[", "]", "+", "-", "*", "/"} |->
     CASE c = "," -> "COMMA"    [] c = "." -> "DOT"      [] c = ":" -> "COLON"
       [] c = "[" -> "LBRACKET" [] c = "]" -> "RBRACKET" [] c = "+" -> "PLUS"
       [] c = "-" -> "MINUS"    [] c = "*" -> "STAR"     [] c = "/" -> "SLASH"]

TokenType ==
  {Punctuation[c] : c \in DOMAIN Punctuation}
    \cup {"END_OF_FILE", "NEWLINE", "IDENTIFIER", "NUMBER", "STRING", "INVALID"}

Span == [line : Nat, column : Int, length : Nat]

\* text: the characters of the token, of a string those it stands for. value: 0
\* if it is not a number.
Token == [type : TokenType, span : Span, text : Seq(Char), value : 0 .. MaxLong]

TypeOK ==
  /\ code \in Seq(Char)
  /\ position \in 1 .. Len(code) + 1
  /\ line \in 1 .. Len(code) + 1
  /\ lineStart \in 1 .. position
  /\ tokens \in Seq(Token)
  /\ errors \in Seq(Span)
  /\ extents \in Seq((1 .. Len(code)) \X (1 .. Len(code)))
  /\ status \in {"running", "done", "threw"}

Init ==
  /\ code \in SourceTexts
  /\ position = 1
  /\ line = 1
  /\ lineStart = 1
  /\ tokens = <<>>
  /\ errors = <<>>
  /\ extents = <<>>
  /\ status = "running"

-----------------------------------------------------------------------------
(* Characters *)

peek(p) == IF p > Len(code) THEN NUL ELSE code[p]

\* The first position from p on with a character outside S (S without NUL).
EndOfRun(S, p) ==
  CHOOSE q \in p .. Len(code) + 1 :
    peek(q) \notin S /\ \A x \in p .. q - 1 : peek(x) \in S

\* Where the lexeme begins, after skipWhitespace().
Start == EndOfRun(Space, position)

Newlines(p, q) == {x \in p .. q - 1 : code[x] = NL}

\* The line and its start when everything up to a position has been consumed.
LineAfter(to) == line + Cardinality(Newlines(position, to))

\* Mutant: the line starts at the newline itself.
LineStartAtNewline(to) ==
  IF Newlines(position, to) = {} THEN lineStart
  ELSE CHOOSE x \in Newlines(position, to) : \A y \in Newlines(position, to) : y <= x

LineStartAfter(to) ==
  IF Newlines(position, to) = {} THEN lineStart
  ELSE 1 + CHOOSE x \in Newlines(position, to) : \A y \in Newlines(position, to) : y <= x

\* The span of the token from Start up to a position, taken after reading it.
SpanTo(to) ==
  [line |-> LineAfter(to), column |-> Start - LineStartAfter(to) + 1, length |-> to - Start]

Consume(to) ==
  /\ position' = to
  /\ line' = LineAfter(to)
  /\ lineStart' = LineStartAfter(to)

\* A token for the characters from Start up to a position.
Push(type, span, to, text, value) ==
  /\ tokens' = Append(tokens, [type |-> type, span |-> span, text |-> text, value |-> value])
  /\ extents' = Append(extents, <<Start, to - 1>>)
  /\ Consume(to)
  /\ UNCHANGED <<code, status>>

Lexeme(to) == SubSeq(code, Start, to - 1)

PushLexeme(type, to) ==
  Push(type, SpanTo(to), to, Lexeme(to), 0) /\ UNCHANGED errors

\* addError() and an INVALID token.
PushInvalid(to) ==
  /\ Push("INVALID", SpanTo(to), to, Lexeme(to), 0)
  /\ errors' = Append(errors, SpanTo(to))

AtLexeme(S) == status = "running" /\ Start <= Len(code) /\ peek(Start) \in S

-----------------------------------------------------------------------------
(* The loop of tokenize() *)

\* The span is taken when the line has been counted, the column before.
Newline ==
  /\ AtLexeme({NL})
  /\ Push("NEWLINE", [line |-> line + 1, column |-> Start - lineStart - 1, length |-> 1],
          Start + 1, <<NL>>, 0)
  /\ UNCHANGED errors

\* Mutant: the newline is taken for a part of the comment.
skipCommentAndNewline ==
  /\ AtLexeme({";"})
  /\ LET end == EndOfRun(Char \ {NL, NUL}, Start)
     IN Consume(IF peek(end) = NL THEN end + 1 ELSE end)
  /\ UNCHANGED <<code, tokens, errors, extents, status>>

\* Mutant: a comment has to end with a newline.
skipTerminatedComment ==
  /\ AtLexeme({";"})
  /\ peek(EndOfRun(Char \ {NL, NUL}, Start)) = NL
  /\ Consume(EndOfRun(Char \ {NL, NUL}, Start))
  /\ UNCHANGED <<code, tokens, errors, extents, status>>

skipComment ==
  /\ AtLexeme({";"})
  /\ Consume(EndOfRun(Char \ {NL, NUL}, Start))
  /\ UNCHANGED <<code, tokens, errors, extents, status>>

readIdentifier ==
  /\ AtLexeme(Letter \cup {"_"})
  /\ PushLexeme("IDENTIFIER", EndOfRun(Alnum \cup {"_"}, Start))

IsHex == peek(Start) = "0" /\ peek(Start + 1) \in {"x", "X"}

HasDigits == IsHex => peek(Start + 2) \in HexDigit

FirstDigit == IF IsHex THEN Start + 2 ELSE Start

EndOfDigits == EndOfRun(IF IsHex THEN HexDigit ELSE Digit, FirstDigit)

\* Mutant: letters after the digits begin a token of their own.
EndOfNumberAlone == IF HasDigits THEN EndOfDigits ELSE Start + 2

\* Letters after the digits, if any, are read as part of an invalid number.
EndOfNumber ==
  IF HasDigits THEN EndOfRun(Letter \cup {"_"}, EndOfDigits) ELSE Start + 2

Base == IF IsHex THEN 16 ELSE 10

\* The value of the first n digits.
ValueOf[n \in 0 .. Len(code)] ==
  IF n = 0 THEN 0 ELSE ValueOf[n - 1] * Base + DigitValue[peek(FirstDigit + n - 1)]

\* std::stoll
ValueOfDigits == ValueOf[EndOfDigits - FirstDigit]

IsNumber == HasDigits /\ EndOfNumber = EndOfDigits

\* Mutant: a number too large is not noticed.
readNumberUnbounded ==
  /\ AtLexeme(Digit)
  /\ IsNumber
  /\ Push("NUMBER", SpanTo(EndOfNumber), EndOfNumber, Lexeme(EndOfNumber), ValueOfDigits)
  /\ UNCHANGED errors

readNumber ==
  /\ AtLexeme(Digit)
  /\ IsNumber
  /\ ValueOfDigits <= MaxLong
  /\ Push("NUMBER", SpanTo(EndOfNumber), EndOfNumber, Lexeme(EndOfNumber), ValueOfDigits)
  /\ UNCHANGED errors

readInvalidNumber ==
  /\ AtLexeme(Digit)
  /\ ~IsNumber
  /\ PushInvalid(EndOfNumber)

\* The exception leaves tokenize().
NumberOutOfRange ==
  /\ AtLexeme(Digit)
  /\ IsNumber
  /\ ValueOfDigits > MaxLong
  /\ status' = "threw"
  /\ UNCHANGED <<code, position, line, lineStart, tokens, errors, extents>>

\* What the character after a backslash stands for.
Escapes ==
  [c \in {"n", "t", Quote, Backslash} |-> CASE c = "n" -> NL [] c = "t" -> "\t" [] OTHER -> c]

\* The error of an unknown escape: its column is the (0-based) index in the source.
UnknownEscape(p) == [line |-> LineAfter(p), column |-> p - 1, length |-> 1]

Escaped(p) == IF peek(p) \in DOMAIN Escapes THEN Escapes[peek(p)] ELSE peek(p)

EscapeErrors(p) == IF peek(p) \in DOMAIN Escapes THEN <<>> ELSE <<UnknownEscape(p)>>

\* The loop of readString() from p on: the rest of the text and of the errors.
StringFrom[p \in 1 .. Len(code) + 1] ==
  CASE p > Len(code) -> [closed |-> FALSE, to |-> p, text |-> <<>>, errors |-> <<>>]
    [] peek(p) = Quote -> [closed |-> TRUE, to |-> p + 1, text |-> <<>>, errors |-> <<>>]
    [] p = Len(code) /\ peek(p) = Backslash ->
         [closed |-> FALSE, to |-> p + 1, text |-> <<>>, errors |-> <<>>]
    [] p < Len(code) /\ peek(p) = Backslash ->
         [StringFrom[p + 2] EXCEPT !.text = <<Escaped(p + 1)>> \o @,
                                   !.errors = EscapeErrors(p + 1) \o @]
    [] OTHER -> [StringFrom[p + 1] EXCEPT !.text = <<peek(p)>> \o @]

readString ==
  /\ AtLexeme({Quote})
  /\ \E string \in {StringFrom[Start + 1]} :
       /\ Push(IF string.closed THEN "STRING" ELSE "INVALID",
               SpanTo(string.to), string.to, string.text, 0)
       /\ errors' = errors \o IF string.closed THEN string.errors
                              ELSE Append(string.errors, SpanTo(string.to))

\* The value of a DOT is a comma, too (nothing reads it).
Punctuate ==
  /\ AtLexeme(DOMAIN Punctuation)
  /\ Push(Punctuation[peek(Start)], SpanTo(Start + 1), Start + 1,
          IF peek(Start) = "." THEN <<",">> ELSE <<peek(Start)>>, 0)
  /\ UNCHANGED errors

\* Mutant: the token is invalid, but no error is added.
UnknownSymbolUnreported ==
  /\ AtLexeme(Char \ (DOMAIN Punctuation \cup Alnum \cup {NL, Quote, ";", "_"}))
  /\ PushLexeme("INVALID", Start + 1)

UnknownSymbol ==
  /\ AtLexeme(Char \ (DOMAIN Punctuation \cup Alnum \cup {NL, Quote, ";", "_"}))
  /\ PushInvalid(Start + 1)

EndOfFile ==
  /\ status = "running"
  /\ Start > Len(code)
  /\ Consume(Start)
  /\ tokens' = Append(tokens, [type |-> "END_OF_FILE", span |-> SpanTo(Start),
                               text |-> <<>>, value |-> 0])
  /\ status' = "done"
  /\ UNCHANGED <<code, errors, extents>>

tokenize ==
  \/ Newline
  \/ skipComment
  \/ readIdentifier
  \/ readNumber
  \/ readInvalidNumber
  \/ NumberOutOfRange
  \/ readString
  \/ Punctuate
  \/ UnknownSymbol
  \/ EndOfFile

Next == tokenize

Spec == Init /\ [][Next]_vars /\ WF_vars(tokenize)

-----------------------------------------------------------------------------
(* Properties *)

LineOf(p)   == 1 + Cardinality({x \in 1 .. p - 1 : code[x] = NL})
ColumnOf(p) == Cardinality({x \in 1 .. p : \A y \in x .. p - 1 : code[y] # NL})

Extent(i) == extents[i][1] .. extents[i][2]

\* Tokens are where their spans say, for tokens that stay on one line:
\* line and column are counted in step with the position, over comments and
\* strings of several lines as well. (The span of a NEWLINE is one line too far,
\* that of a string of several lines is taken at its end.)
SpansLocateTokens ==
  \A i \in DOMAIN extents :
    NL \notin {code[x] : x \in Extent(i)} =>
      tokens[i].span = [line |-> LineOf(extents[i][1]), column |-> ColumnOf(extents[i][1]),
                        length |-> Cardinality(Extent(i))]

\* The position is in a comment: a semicolon outside all tokens stands before it
\* on the line, and no NUL does in between.
InComment(p) ==
  \E c \in 1 .. p :
    /\ code[c] = ";" /\ \A i \in DOMAIN extents : c \notin Extent(i)
    /\ \A x \in c .. p : code[x] \notin {NL, NUL}

\* Tokens stand in the order of the source and do not overlap, and every character
\* outside them is white space or in a comment; newlines, which are what parsing
\* by lines depends on, are neither.
NoCharacterIsLost ==
  /\ \A i \in DOMAIN extents : i > 1 => extents[i - 1][2] < extents[i][1]
  /\ \A p \in 1 .. position - 1 :
       \/ \E i \in DOMAIN extents : p \in Extent(i)
       \/ code[p] \in Space
       \/ InComment(p)

\* Every INVALID token has its error, and every error without one is that of an
\* unknown escape, behind its backslash.
ErrorsMarkInvalidTokens ==
  LET invalid == {tokens[i].span : i \in {k \in DOMAIN tokens : tokens[k].type = "INVALID"}}
  IN /\ invalid \subseteq ToSet(errors)
     /\ \A e \in ToSet(errors) \ invalid : code[e.column] = Backslash

\* No word is split: identifiers and numbers are separated by other characters.
WordsAreNotSplit ==
  \A i \in DOMAIN extents :
    i > 1 /\ {tokens[i - 1].type, tokens[i].type} \subseteq {"IDENTIFIER", "NUMBER"}
      => extents[i - 1][2] + 1 < extents[i][1]

\* tokenize() returns or throws.
Terminates == <>(status # "running")

=============================================================================
