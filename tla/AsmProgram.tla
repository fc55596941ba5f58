----------------------------- MODULE AsmProgram -----------------------------
(***************************************************************************)
(* The data that the stages of the assembler pass to one another: the      *)
(* statements the parser produces (a FlatProgram) and the intermediate     *)
(* representation (sections and symbol table) that Grouper builds,         *)
(* SizeResolver and Layout fill in, and ElfWriter reads.                   *)
(*                                                                         *)
(* Indices are 1-based here and 0-based in the C++ code. An instruction is *)
(* abstracted to what the back end tells apart: whether a pattern of the   *)
(* opcode table matches, how many bytes precede the displacement, the      *)
(* expression of its memory operand, and its immediate or label operand.   *)
(***************************************************************************)
EXTENDS Integers, Sequences

CONSTANTS
  Name,       \* identifiers that can name a symbol
  StartName,  \* the identifier _start
  NoName,     \* std::nullopt where an identifier is optional
  WordSize    \* number of values of size_t and uint64_t (2^64)

ASSUME NameAssumption == StartName \in Name /\ NoName \notin Name
ASSUME WordAssumption == WordSize \in Nat \ {0}

Word == 0 .. WordSize - 1

\* Unsigned arithmetic of size_t and uint64_t.
Wrap(x) == x % WordSize

OptionalName == Name \cup {NoName}

\* For every k up to n, start and the first k of the values together.
Sums(start, values, n) ==
  LET sum[k \in 0 .. n] == IF k = 0 THEN start ELSE sum[k - 1] + values[k]
  IN  sum

-----------------------------------------------------------------------------
(* Statements *)

SectionType == {"DATA", "TEXT", "BSS"}

UnitSize == [DB |-> 1, DW |-> 2, DD |-> 4, DQ |-> 8,
             RESB |-> 1, RESW |-> 2, RESD |-> 4, RESQ |-> 8]

ReserveKind == {"RESB", "RESW", "RESD", "RESQ"}
DefineKind  == {"DB", "DW", "DD", "DQ"}

ExtraEncoding ==
  {"NONE", "IMM8", "IMM16", "IMM32", "IMM64", "REL8", "REL32"}

SymbolTerm == [sign : {-1, 1}, name : Name]

\* head: bytes before the displacement (prefixes, opcode, ModRM, SIB).
\* disp, terms: the memory operand; an instruction without one has the empty
\* expression, which has no displacement bytes either.
\* extra: what follows the displacement; NONE also when no operand is an
\* immediate or a label. target: the label operand, imm its value otherwise.
Instruction ==
  [kind : {"INSTR"}, match : BOOLEAN, head : Nat, disp : Int,
   terms : Seq(SymbolTerm), extra : ExtraEncoding,
   target : OptionalName, imm : Int]

Label == [kind : {"LABEL"}, label : Name]

\* values is a list of numbers and strings: nums counts the numbers, chars the
\* characters of all the strings. count is the times factor, the reserve count
\* or the alignment.
DataDirective ==
  [kind : {"DATA"}, label : OptionalName,
   dir : DefineKind \cup ReserveKind \cup {"ALIGN"},
   nums : Nat, chars : Nat, count : Nat]

SectionDirective == [kind : {"SECTION"}, type : SectionType]

EquDirective == [kind : {"EQU"}, name : Name, value : Int]

GlobalDirective == [kind : {"GLOBAL"}, name : Name]

\* The statements that occupy a place in a section.
Item == Instruction \cup Label \cup DataDirective

Statement == Item \cup SectionDirective \cup EquDirective \cup GlobalDirective

\* The name an item defines, if any.
LabelOf(item) == IF item.kind = "INSTR" THEN NoName ELSE item.label

-----------------------------------------------------------------------------
(* Intermediate representation *)

Section ==
  [type : SectionType, items : Seq(Item),
   size : Word, fileOffset : Word, virtualAddr : Word]

Symbol ==
  [kind : {"LABEL", "EQU"}, sectionIndex : Nat \ {0},
   statementIndex : Nat \ {0}, offset : Word, value : Int,
   isGlobal : BOOLEAN]

\* What std::unordered_map::operator[] inserts for an unknown name.
DefaultSymbol ==
  [kind |-> "LABEL", sectionIndex |-> 1, statementIndex |-> 1,
   offset |-> 0, value |-> 0, isGlobal |-> FALSE]

IsSymbolTable(table) == DOMAIN table \subseteq Name /\ table \in [DOMAIN table -> Symbol]

=============================================================================
