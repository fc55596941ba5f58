------------------------------ MODULE MCEncoder ------------------------------
(***************************************************************************)
(* The encoder on every opcode with a selection of operands: registers of  *)
(* every size and code, literals around every limit, memory operands with  *)
(* displacements around the limits, constants, labels and registers of 32  *)
(* bits in them, and labels of every kind.                                 *)
(***************************************************************************)
EXTENDS EncodingReference

CONSTANTS a, far, k, u

MCName == {a, far, k, u, StartName}

NoCapitals == [n \in {} |-> n]

-----------------------------------------------------------------------------
(* Symbols: a is in the section of the instruction, far in one that a rel32 *)
(* cannot reach, k a constant; u is undefined.                              *)

SectionAt(vaddr) ==
  [type |-> "TEXT", items |-> <<>>, size |-> 4096, fileOffset |-> 4096, virtualAddr |-> vaddr]

MCSections == <<SectionAt(8192), SectionAt(3 * Rel32Limit)>>

SymbolsWith(offset, value) ==
  (a   :> [DefaultSymbol EXCEPT !.offset = offset])
    @@ (far :> [DefaultSymbol EXCEPT !.sectionIndex = 2])
    @@ (k   :> [DefaultSymbol EXCEPT !.kind = "EQU", !.value = value])

-----------------------------------------------------------------------------
(* Operands *)

reg(r) == [kind |-> "REG", reg |-> r, size |-> RegisterTable[r]]
imm(v) == [kind |-> "IMM", imm |-> v]
lab(n) == [kind |-> "LABEL", label |-> n]

mem(base, index, scale, disp, symbolTerms, size) ==
  [kind |-> "MEM",
   mem  |-> [base |-> base, index |-> index, scale |-> scale, displacement |-> disp,
             symbols |-> symbolTerms, size |-> size]]

plus(n)  == [sign |-> 1, name |-> n]
minus(n) == [sign |-> -1, name |-> n]

Registers == { reg(r) : r \in {"rax", "rsp", "rdi", "ebx", "edx", "cx", "al", "cl", "bl"} }

Literals ==
  { imm(v) : v \in {-Rel32Limit - 1, -Rel32Limit, -32769, -129, -128, 0, 127, 128, 255, 256,
                    65535, 65536, Rel32Limit - 1, Rel32Limit, 2 * Rel32Limit - 1,
                    2 * Rel32Limit} }

Addresses ==
  { mem("rbx", NoName, 1, disp, <<>>, ANY) :
      disp \in {-Rel32Limit, -129, -128, 0, 127, 128, Rel32Limit - 1, Rel32Limit} }
    \cup { mem("rbp", "rcx", scale, 5, <<plus(k)>>, 64) : scale \in {1, 2, 4, 8} }
    \cup { mem("rsi", NoName, 1, -40, <<plus(a)>>, 8),
           mem("rsi", "rbx", 2, -300, <<plus(k)>>, 8),
           mem("rax", "rdx", 1, 172, <<minus(k)>>, 16),
           mem("rax", "rdx", 1, 171, <<minus(k)>>, 16),
           mem("rbp", "rdx", 8, 0, <<plus(a), minus(far), plus(k)>>, ANY),
           mem("ebx", NoName, 1, 8, <<>>, 32),
           mem("rcx", "edx", 4, 0, <<plus(k)>>, ANY),
           mem("rdi", NoName, 1, 0, <<plus(u)>>, 32),
           mem("rsp", NoName, 1, 8, <<>>, 32),
           mem(NoName, NoName, 1, 0, <<plus(a)>>, ANY) }

Labels == { lab(a), lab(far), lab(k), lab(u) }

Operands == Registers \cup Literals \cup Addresses \cup Labels

\* Operand lists: up to one operand for every opcode, two where a form has two,
\* three for imul.
TwoOperand ==
  {"mov", "lea", "add", "sub", "imul", "and", "or", "xor", "shl", "shr", "sar", "cmp", "test"}

Pairs ==
  { <<x, y>> : x \in Registers \cup Addresses, y \in Operands }

Triples ==
  { <<x, y, z>> : x \in {reg("rdi"), reg("edx"), reg("cx"), reg("al")},
                  y \in {reg("rax"), reg("ebx"), mem("rbx", NoName, 1, 127, <<>>, ANY)},
                  z \in Literals \cup {lab(k)} }

Instr(opcode, operands) == [kind |-> "INSTR", opcode |-> opcode, operands |-> operands]

Instructions ==
  { Instr(opcode, operands) : opcode \in Opcode, operands \in {<<>>} \cup {<<x>> : x \in Operands} }
    \cup { Instr(opcode, pair) : opcode \in TwoOperand, pair \in Pairs }
    \cup { Instr("imul", triple) : triple \in Triples }
    \cup { Instr("enter", <<x, y>>) : x, y \in {imm(0), imm(255), imm(256)} }

Request(instr, offset, value) ==
  [instruction |-> instr, symbols |-> SymbolsWith(offset, value), sections |-> MCSections,
   baseVaddr |-> 8192]

\* a before and behind the instruction, at the limits of a short jump.
Near ==
  { Request(Instr(opcode, <<x>>), offset, 128) :
      opcode \in Opcode, x \in {lab(a), lab(k)}, offset \in {0, 128, 129, 130} }

MCRequests == { Request(instr, 40, 300) : instr \in Instructions } \cup Near

-----------------------------------------------------------------------------

\* add al, 5: a form that is not encoded as OpcodeFactories.h says.
DivergentRequests == { Request(Instr("add", <<reg("al"), imm(5)>>), 40, 300) }

=============================================================================
