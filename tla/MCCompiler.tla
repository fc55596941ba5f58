----------------------------- MODULE MCCompiler -----------------------------
(***************************************************************************)
(* Compiler on texts: every body of up to MaxBody lines of an alphabet,    *)
(* and those of one line more of a smaller one, put into the text section  *)
(* of two frames (before data and bss, between two parts of a merged data  *)
(* section); and texts chosen for the behaviour that no such body has, in  *)
(* every stage.                                                            *)
(***************************************************************************)
EXTENDS Compiler

CONSTANT MaxBody

-----------------------------------------------------------------------------
(* Characters and words *)

Chars(string) == [i \in 1 .. Len(string) |-> SubSeq(string, i, i)]

Text(lines) == FlattenSeq([i \in DOMAIN lines |-> Append(Chars(lines[i]), "\n")])

MCSpace == {" ", "\t"}

MCLetter ==
  { "a", "b", "c", "d", "e", "f", "g", "h", "i", "j", "k", "l", "m", "n", "o", "p", "q", "r",
    "s", "t", "u", "v", "w", "x", "y", "z", "A", "C", "M", "O", "R", "V", "X" }

MCDigitValue ==
  ("0" :> 0) @@ ("1" :> 1) @@ ("2" :> 2) @@ ("3" :> 3) @@ ("4" :> 4) @@ ("5" :> 5)
    @@ ("6" :> 6) @@ ("7" :> 7) @@ ("8" :> 8) @@ ("9" :> 9) @@ ("a" :> 10)

MCChar ==
  MCSpace \cup MCLetter \cup DOMAIN MCDigitValue
    \cup {"\n", "\"", "\\"}
    \cup {"_", ",", ".", ":", ";", "[", "]", "+", "-", "*", "/", "?"}

MCLowered == ("MOV" :> "mov") @@ ("RAX" :> "rax") @@ ("C" :> "c")

MCName == STRING

-----------------------------------------------------------------------------
(* Sources *)

cData == << "section .data", "c times 3 dq 1, 2" >>
cBss  == << "section .bss", "c resb 10" >>
text  == "section .text"

\* Three lines of these have labels, something that moves them, and a use.
Core == {"_start:", "a:", "call a", "call c", "resb 140", "mov rbx, [rbx+a]"}

Alphabet == Core \cup {"nop", "jmp a", "align 16", "global _start"}

Bodies == UNION { [1 .. n -> Alphabet] : n \in 0 .. MaxBody } \cup [1 .. MaxBody + 1 -> Core]

\* The text section before data and bss, or between two parts of a merged section.
Frames(body) ==
  { <<text>> \o body \o cData \o cBss,
    cData \o <<text>> \o body \o <<"section .data", "db 5">> }

\* Text longer than a page before a call to data: the call is in range while
\* sizes are resolved and out of range once addresses are assigned.
FarCall == <<text, "_start:", "call c", "resb 4097">> \o cData \o <<text, "a:">>

Oscillating == <<text, "mov rbx, [rbx+132-a]", "a:">>

InText(lines) == <<text, "_start:">> \o lines

Special ==
  { <<>>, <<"global _start">>, <<"nop", text, "nop">>, <<text, "mov al, rbx">>,
    <<text, "global a", "call a", "_start:">>,
    <<text, "_start:", "_start equ 5", "nop">>,
    <<text, "nop", "a equ 5", "mov rbx, a", "_start:">>,
    FarCall, Oscillating,
    cData \o InText(<<"  MOV RAX, qword ptr [rbp+rcx*4+C] ; capitals", "\tpush 200">>),
    cData \o InText(<<"C: lea rbx, [rbx + c]", "call c">>),
    InText(<<"imul rax, rbx, 0x10", "ret 4", "shl ebx, cl">>),
    InText(<<"nop", "align 16", "align 8", "a:", "call a">>),
    InText(<<"add al, ab">>), InText(<<"jmp ab">>) }

\* Lines with an error in the lexer or the parser, at the beginning of a line,
\* where an operand or a value is read, and behind a statement.
Faulty ==
  { "?", "a: ?", "mov rbx, ?", "mov rbx, 0x", "mov rbx, 5a", "db 5 ?", "db \"ab", "nop nop",
    "section", "db 99999" }

UnknownEscape == "db \"\\q\""

AllSources ==
  { Text(lines) : lines \in
      UNION {Frames(body) : body \in Bodies} \cup Special
        \cup {InText(<<line>>) : line \in Faulty \cup {UnknownEscape}} }

-----------------------------------------------------------------------------
(* Sources of the runs that show a disagreement *)

\* An unknown escape is an error of the lexer, which nobody asks for afterwards.
UnknownEscapeIn == {Text(InText(<<UnknownEscape>>))}

\* dw "ab" takes two bytes, but is counted as four.
WideString == {Text(<<"section .data", "dw \"ab\"", "a:", text, "_start:", "nop">>)}

\* Data between instructions.
DataInText == {Text(InText(<<"times 3 db 1", "call a", "a:">>))}

\* A short jump over more than 127 bytes.
LongJump == {Text(InText(<<"jmp a", "resb 140", "a:">>))}

=============================================================================
