------------------------------- MODULE Tokens -------------------------------
(***************************************************************************)
(* Tokens as the parser reads them, the tables of words it looks them up   *)
(* in, and the instructions it makes of them. Every table is keyed by      *)
(* lower-case words.                                                       *)
(***************************************************************************)
EXTENDS AsmProgram

CONSTANT
  Lowered  \* the spellings with capital letters, and their lower-case form

ASSUME LoweredAssumption ==
  /\ DOMAIN Lowered \subseteq Name
  /\ Lowered \in [DOMAIN Lowered -> Name \ DOMAIN Lowered]

stringToLower(word) == IF word \in DOMAIN Lowered THEN Lowered[word] ELSE word

TokenType ==
  {"END_OF_FILE", "NEWLINE", "IDENTIFIER", "NUMBER", "STRING", "PLUS", "MINUS",
   "STAR", "SLASH", "COMMA", "DOT", "COLON", "LBRACKET", "RBRACKET", "INVALID"}

\* word: the spelling of an identifier. value: the value of a number, the number
\* of characters of any other token.
Token ==
  [type : {"IDENTIFIER"}, word : Name, value : Nat]
    \cup [type : TokenType \ {"IDENTIFIER"}, word : {NoName}, value : Nat]

-----------------------------------------------------------------------------
(* Directives *)

DataDirectiveTable ==
  [db |-> "DB", dw |-> "DW", dd |-> "DD", dq |-> "DQ",
   resb |-> "RESB", resw |-> "RESW", resd |-> "RESD", resq |-> "RESQ",
   align |-> "ALIGN"]

\* Without the optional dot, which is a token of its own.
SectionTable == [data |-> "DATA", text |-> "TEXT", bss |-> "BSS"]

-----------------------------------------------------------------------------
(* Operands *)

SizePrefixMap == [byte |-> 8, word |-> 16, dword |-> 32, qword |-> 64]

ANY == 0

OperandSize == {ANY, 8, 16, 32, 64}

\* getRegisterInfo(r).size of every register of RegisterTable.
RegisterTable ==
  [rax |-> 64, rbx |-> 64, rcx |-> 64, rdx |-> 64, rsi |-> 64, rdi |-> 64,
   rbp |-> 64, rsp |-> 64, eax |-> 32, ebx |-> 32, ecx |-> 32, edx |-> 32,
   ax |-> 16, bx |-> 16, cx |-> 16, dx |-> 16, al |-> 8, bl |-> 8, cl |-> 8,
   dl |-> 8]

Register == DOMAIN RegisterTable

\* getRegisterInfo(r).code, the number of the register in ModRM, SIB and opcode.
RegisterCode ==
  [rax |-> 0, rbx |-> 3, rcx |-> 1, rdx |-> 2, rsi |-> 6, rdi |-> 7, rbp |-> 5,
   rsp |-> 4, eax |-> 0, ebx |-> 3, ecx |-> 1, edx |-> 2, ax |-> 0, bx |-> 3,
   cx |-> 1, dx |-> 2, al |-> 0, bl |-> 3, cl |-> 1, dl |-> 2]

\* base + index * scale + displacement + symbols
MemoryOperand ==
  [base : Register \cup {NoName}, index : Register \cup {NoName},
   scale : {1, 2, 4, 8}, displacement : Int, symbols : Seq(SymbolTerm),
   size : OperandSize]

\* An immediate or a label has no size (ANY).
Operand ==
  [kind : {"REG"}, reg : Register, size : OperandSize]
    \cup [kind : {"MEM"}, mem : MemoryOperand]
    \cup [kind : {"LABEL"}, label : Name] \cup [kind : {"IMM"}, imm : Int]

-----------------------------------------------------------------------------
(* Mnemonics. An opcode is named by its first mnemonic.                    *)

Opcode ==
  {"mov", "lea", "push", "pop", "add", "sub", "imul", "mul", "idiv", "div",
   "inc", "dec", "neg", "and", "or", "xor", "not", "shl", "shr", "sar", "cmp",
   "test", "jmp", "je", "jne", "jl", "jle", "jg", "jge", "call", "ret", "enter",
   "leave", "nop", "syscall"}

Synonym == [jump |-> "jmp", j |-> "jmp", jz |-> "je", jnz |-> "jne"]

IsMnemonic(key) == key \in Opcode \cup DOMAIN Synonym

parseMnemonic(key) == IF key \in DOMAIN Synonym THEN Synonym[key] ELSE key

\* The words the parser knows.
Keyword ==
  UNION { DOMAIN DataDirectiveTable, DOMAIN SectionTable, DOMAIN SizePrefixMap,
          DOMAIN RegisterTable, Opcode, DOMAIN Synonym,
          {"times", "global", "section", "equ", "ptr"} }

ASSUME KeywordAssumption == NoName \notin Keyword

\* What AsmProgram calls Instruction is an abstraction of these.
ParsedInstruction == [kind : {"INSTR"}, opcode : Opcode, operands : Seq(Operand)]

=============================================================================
