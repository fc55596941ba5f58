------------------------------ MODULE MCParser ------------------------------
(***************************************************************************)
(* The parser on every short sequence of tokens, on every short expression *)
(* between brackets, and on lists of up to three lines of a selection of   *)
(* correct and faulty ones.                                                *)
(***************************************************************************)
EXTENDS Parser

CONSTANTS MaxSoup, MaxExpression

MCLowered == [A |-> "a", MOV |-> "mov"]

MCName ==
  {"a", "A", "MOV", "_start", "ptr", "section", "global", "equ", "times"}
    \cup UNION { DOMAIN DataDirectiveTable, DOMAIN SectionTable, Register,
                 DOMAIN SizePrefixMap, Opcode, DOMAIN Synonym }

-----------------------------------------------------------------------------
(* Tokens *)

mark(type) == [type |-> type, word |-> NoName, value |-> 1]

w(word)     == [mark("IDENTIFIER") EXCEPT !.word = word]
num(value)  == [mark("NUMBER") EXCEPT !.value = value]
str(length) == [mark("STRING") EXCEPT !.value = length]

comma    == mark("COMMA")
dot      == mark("DOT")
colon    == mark("COLON")
open     == mark("LBRACKET")
close    == mark("RBRACKET")
plus     == mark("PLUS")
minus    == mark("MINUS")
star     == mark("STAR")
slash    == mark("SLASH")
invalid  == mark("INVALID")
newline  == mark("NEWLINE")
eof      == mark("END_OF_FILE")

UpTo(n, S) == UNION { [1 .. k -> S] : k \in 0 .. n }

-----------------------------------------------------------------------------
(* Inputs *)

Soup ==
  { s \o <<eof>> :
      s \in UpTo(MaxSoup, { w("A"), w("mov"), w("db"), w("times"), w("global"),
                            num(1), comma, colon, newline, invalid }) }

Expressions ==
  { <<w("mov"), w("rax"), comma, open>> \o e \o <<close, newline, eof>> :
      e \in UpTo(MaxExpression, { w("rax"), w("rbx"), w("A"), num(2), plus, minus, star }) }

Line ==
  { <<>>,
    <<w("A"), colon>>,
    <<w("a"), colon, w("nop")>>,
    <<w("MOV"), w("rax"), comma, minus, num(1)>>,
    <<w("mov"), w("dword"), w("ptr"), open, w("rbp"), plus, num(8), close, comma, w("a")>>,
    <<w("jz"), w("byte"), open, w("a"), close, comma>>,
    <<w("section"), dot, w("text")>>,
    <<w("section"), w("bss"), w("nop")>>,
    <<w("section"), dot, w("a")>>,
    <<w("section"), dot, w("text"), colon>>,
    <<w("global"), w("A")>>,
    <<w("global")>>,
    <<w("A"), w("equ"), minus, num(5)>>,
    <<w("a"), w("equ"), w("a")>>,
    <<w("a"), w("times"), num(3), w("dw"), num(1), comma, str(2), comma, w("a")>>,
    <<w("times"), num(0), w("db"), num(1)>>,
    <<w("times"), num(2), w("resb"), num(7)>>,
    <<w("times"), num(2), w("a")>>,
    <<w("align"), num(0)>>,
    <<w("align"), num(8), num(8)>>,
    <<w("resq"), minus, num(1)>>,
    <<w("db"), num(3), dot, num(14)>>,
    <<w("mov"), open, w("rax"), plus>>,
    <<close>>,
    <<w("mov"), open, w("rax"), star, num(3), close, slash>>,
    <<invalid, w("nop")>> }

\* Up to two lines, and every line at the beginning and after every other line.
Listings == UpTo(2, Line) \cup { <<l, m, l>> : l \in Line, m \in Line }

Programs ==
  { FlattenSeq([i \in DOMAIN lines |-> Append(lines[i], newline)]) \o <<eof>> :
      lines \in Listings }

\* The last line without a newline.
Unterminated == { line \o <<eof>> : line \in Line }

MCInputs == Soup \cup Expressions \cup Programs \cup Unterminated

=============================================================================
