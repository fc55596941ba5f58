--------------------------- MODULE MCSizeResolver ---------------------------
(***************************************************************************)
(* SizeResolver on programs of one text section, made of up to MaxItems    *)
(* items of a small alphabet, with and without a data section before it,   *)
(* and of cascades: accesses of which each makes the next one longer.      *)
(* The symbol table is the one Grouper builds for those sections and for   *)
(* the constant k.                                                         *)
(***************************************************************************)
EXTENDS SizeResolver, Listing

CONSTANTS a, b, c, k, MaxItems

MCName == {a, b, c, k}

pad == reserve(124)

\* The symbol of n in sections whose last item defining n is item i of s.
SymbolAt(s, i) ==
  [DefaultSymbol EXCEPT !.sectionIndex = s, !.statementIndex = i]

Program(contents) ==
  LET sec == [s \in DOMAIN contents |->
                [type |-> IF s = Len(contents) THEN "TEXT" ELSE "DATA",
                 items |-> contents[s],
                 size |-> 0, fileOffset |-> 0, virtualAddr |-> 0]]
      sites(n) == UNION {{<<s, i>> : i \in {j \in DOMAIN sec[s].items :
                                           LabelOf(sec[s].items[j]) = n}} :
                         s \in DOMAIN sec}
      last(n) == CHOOSE p \in sites(n) : \A q \in sites(n) :
                   q[1] < p[1] \/ (q[1] = p[1] /\ q[2] <= p[2])
      defined == {n \in Name : sites(n) # {}}
  IN  [sections |-> sec,
       symbols  |-> [n \in defined \cup {k} |->
                       IF n = k THEN [DefaultSymbol EXCEPT !.kind = "EQU", !.value = 200]
                       ELSE SymbolAt(last(n)[1], last(n)[2])]]

TextItems ==
  { label(a), label(b), pad, nop, align(16),
    access(0, <<plus(a)>>), access(0, <<plus(b), plus(a)>>),
    access(0, <<plus(c)>>), access(5, <<plus(k)>>), call(b), jmp(a) }

Texts == UNION { [1 .. n -> TextItems] : n \in 0 .. MaxItems }

DataSection == << data(c, "DQ", 2, 3), pad, data(b, "DW", 1, 1) >>

\* n accesses of which each one gets longer, and moves a by three bytes, in the
\* pass after the one before has. They start with four bytes each.
Cascade(n) ==
  Append([i \in 1 .. n |-> access(128 - 4 * n - 3 * (i - 1), <<plus(a)>>)], label(a))

\* The access makes b move past the end of the address space, and back to its
\* start.
Wrapping == << access(0, <<plus(b)>>), reserve(65530), label(b) >>

MCPrograms ==
  {Program(<<t>>) : t \in Texts} \cup {Program(<<DataSection, t>>) : t \in Texts}
    \cup {Program(<<Cascade(n)>>) : n \in 4 .. 9} \cup {Program(<<Wrapping>>)}

=============================================================================
