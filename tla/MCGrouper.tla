----------------------------- MODULE MCGrouper -----------------------------
(***************************************************************************)
(* Grouper on every statement list of at most MaxLength statements over a  *)
(* small alphabet: two section types, labels, a labelled data directive,   *)
(* an instruction, and equ and global directives for the same names.       *)
(***************************************************************************)
EXTENDS Grouper, Listing

CONSTANTS a, b, MaxLength

Alphabet ==
  { directive("DATA"), directive("TEXT"), nop,
    data(a, "DB", 1, 1), data(NoName, "DB", 1, 1), label(a), label(b),
    equ(a, 7), equ(a, 8), global(a) }

MCName == {a, b}

MCFlatPrograms == UNION { [1 .. n -> Alphabet] : n \in 0 .. MaxLength }

=============================================================================
