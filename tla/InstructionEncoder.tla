------------------------- MODULE InstructionEncoder -------------------------
(***************************************************************************)
(* InstructionEncoder seen from SizeResolver and ElfWriter: for one        *)
(* instruction, how many bytes it encodes to under a symbol table, whether *)
(* encoding it reports an error, and the relative displacement of a jump   *)
(* or call. The encoder is a pure function of its arguments but for the    *)
(* error list it accumulates, which its clients own as a variable.         *)
(***************************************************************************)
EXTENDS AsmProgram

CONSTANT Rel32Limit  \* 2^31: rel32 covers -Rel32Limit .. Rel32Limit - 1

ASSUME Rel32Assumption == Rel32Limit \in Nat \ {0}

ExtraLength == [NONE |-> 0, IMM8 |-> 1, IMM16 |-> 2, IMM32 |-> 4,
                IMM64 |-> 8, REL8 |-> 1, REL32 |-> 4]

\* The value of a symbol in a memory expression: relative to its section.
TermValue(name, symbols) ==
  IF symbols[name].kind = "EQU" THEN symbols[name].value
                                ELSE symbols[name].offset

\* What each term adds to the displacement.
TermValues(i, symbols) ==
  [k \in DOMAIN i.terms |-> i.terms[k].sign * TermValue(i.terms[k].name, symbols)]

Displacement(i, symbols) ==
  Sums(i.disp, TermValues(i, symbols), Len(i.terms))[Len(i.terms)]

\* Mutant: a displacement that may still be unknown gets the long form.
LongUnlessShort(disp) ==
  IF disp = 0 THEN 4 ELSE IF disp \in -128 .. 127 THEN 1 ELSE 4

DispLength(disp) ==
  IF disp = 0 THEN 0 ELSE IF disp \in -128 .. 127 THEN 1 ELSE 4

\* Number of bytes of an instruction that encodes without an error.
EncodedLength(i, symbols) ==
  i.head + DispLength(Displacement(i, symbols)) + ExtraLength[i.extra]

UndefinedTerm(i, symbols) ==
  \E k \in DOMAIN i.terms : i.terms[k].name \notin DOMAIN symbols

UndefinedTarget(i, symbols) ==
  /\ i.extra # "NONE"
  /\ i.target # NoName
  /\ i.target \notin DOMAIN symbols

\* An undefined label is reported and stands for 0.
resolveImm(i, symbols, sections) ==
  IF i.target = NoName THEN i.imm
  ELSE IF i.target \notin DOMAIN symbols THEN 0
  ELSE IF symbols[i.target].kind = "EQU" THEN symbols[i.target].value
  ELSE sections[symbols[i.target].sectionIndex].virtualAddr
         + symbols[i.target].offset

\* Distance from the end of the instruction encoded at baseVaddr to its target.
Relative(i, symbols, sections, baseVaddr) ==
  resolveImm(i, symbols, sections) - (baseVaddr + EncodedLength(i, symbols))

Rel32Overflows(i, symbols, sections, baseVaddr) ==
  /\ i.extra = "REL32"
  /\ Relative(i, symbols, sections, baseVaddr)
       \notin -Rel32Limit .. Rel32Limit - 1

\* encode() adds an error to the encoder's list.
EncodeFails(i, symbols, sections, baseVaddr) ==
  \/ ~i.match
  \/ UndefinedTerm(i, symbols)
  \/ UndefinedTarget(i, symbols)
  \/ Rel32Overflows(i, symbols, sections, baseVaddr)

=============================================================================
