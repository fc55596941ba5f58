--------------------------- MODULE PatternMatcher ---------------------------
(***************************************************************************)
(* How the encoder reads an instruction and a pattern: which pattern of    *)
(* the opcode table matches, which operands go where, and what the rest of *)
(* the back end needs to know of the result (view).                        *)
(***************************************************************************)
EXTENDS OpcodeTable, InstructionEncoder

-----------------------------------------------------------------------------
(* Matching *)

IsA(operand, kind) == operand.kind = kind

SizeOf(operand) ==
  CASE IsA(operand, "REG") -> operand.size
    [] IsA(operand, "MEM") -> operand.mem.size
    [] OTHER -> ANY

\* A literal for a constraint of 64 bits or of any size may be anything.
LiteralFits(value, size) ==
  CASE size = 8  -> value \in -128 .. 255
    [] size = 16 -> value \in -32768 .. 65535
    [] size = 32 -> value \in -Rel32Limit .. 2 * Rel32Limit - 1
    [] OTHER -> TRUE

\* A label can stand for an immediate of any size.
KindFor(operand, constraint) ==
  IF IsA(operand, "LABEL") /\ "IMM" \in constraint.allowed THEN "IMM" ELSE operand.kind

\* Mutant: any register will do.
matchAnyReg(operand, constraint) ==
  /\ IsA(operand, "IMM") => LiteralFits(operand.imm, constraint.size)
  /\ KindFor(operand, constraint) \in constraint.allowed
  /\ SizeOf(operand) = constraint.size \/ ANY \in {SizeOf(operand), constraint.size}

matchOperand(operand, constraint) ==
  /\ IsA(operand, "IMM") => LiteralFits(operand.imm, constraint.size)
  /\ KindFor(operand, constraint) \in constraint.allowed
  /\ SizeOf(operand) = constraint.size \/ ANY \in {SizeOf(operand), constraint.size}
  /\ constraint.exactReg # NoName
       => IsA(operand, "REG") /\ operand.reg = constraint.exactReg

\* Where the patterns that match stand in the table.
Matching(instruction) ==
  { i \in DOMAIN Table[instruction.opcode] :
      LET constraints == Table[instruction.opcode][i].operands
      IN /\ Len(constraints) = Len(instruction.operands)
         /\ \A k \in DOMAIN constraints :
              matchOperand(instruction.operands[k], constraints[k]) }

\* The one the encoder takes, the first.
FirstMatch(instruction) == Table[instruction.opcode][Min(Matching(instruction))]

-----------------------------------------------------------------------------
(* The parts of an encoded instruction. Operands are given as a sequence   *)
(* that is empty if there is none.                                         *)

HasRegister(instruction, size) ==
  \E k \in DOMAIN instruction.operands :
    IsA(instruction.operands[k], "REG") /\ RegisterTable[instruction.operands[k].reg] = size

\* Operand size prefix and REX.W. Memory operands do not count.
PrefixBytes(instruction) ==
  (IF HasRegister(instruction, 16) THEN <<\h66>> ELSE <<>>)
    \o (IF HasRegister(instruction, 64) THEN <<\h48>> ELSE <<>>)

\* The operand at the last place where the constraint allows certain kinds.
OperandFor(instruction, pattern, Kinds) ==
  LET places == {k \in DOMAIN pattern.operands : pattern.operands[k].allowed \in Kinds}
  IN IF places = {} THEN <<>> ELSE <<instruction.operands[Max(places)]>>

RMOperand(instruction, pattern) ==
  OperandFor(instruction, pattern,
             {kinds \in SUBSET OperandKind : "IMM" \notin kinds /\ "MEM" \in kinds})

RegOperand(instruction, pattern) == OperandFor(instruction, pattern, {{"REG"}})

\* A register operand replaces a fixed digit, too.
RegField(instruction, pattern) ==
  LET reg == RegOperand(instruction, pattern)
  IN IF reg = <<>> THEN pattern.modrm_reg ELSE RegisterCode[reg[1].reg]

\* The memory operand that is encoded, if any.
Memory(instruction, pattern) ==
  LET rmOperand == RMOperand(instruction, pattern)
  IN IF pattern.hasModRM /\ rmOperand # <<>> /\ IsA(rmOperand[1], "MEM") THEN rmOperand ELSE <<>>

\* The first immediate or label, whichever constraint it matched.
ExtraOperand(instruction) ==
  LET places == {k \in DOMAIN instruction.operands :
                   IsA(instruction.operands[k], "IMM") \/ IsA(instruction.operands[k], "LABEL")}
  IN IF places = {} THEN <<>> ELSE <<instruction.operands[Min(places)]>>

TargetOf(operand) == IF IsA(operand, "LABEL") THEN operand.label ELSE NoName
ValueOf(operand)  == IF IsA(operand, "IMM") THEN operand.imm ELSE 0

-----------------------------------------------------------------------------
(* The abstraction of an instruction that AsmProgram calls Instruction *)

Unmatched ==
  [kind |-> "INSTR", match |-> FALSE, head |-> 0, disp |-> 0, terms |-> <<>>,
   extra |-> "NONE", target |-> NoName, imm |-> 0]

HeadLength(instruction, pattern) ==
  LET memory == Memory(instruction, pattern)
      modRM  == IF pattern.hasModRM /\ RMOperand(instruction, pattern) # <<>> THEN 1 ELSE 0
      sib    == IF memory # <<>> /\ memory[1].mem.index # NoName THEN 1 ELSE 0
  IN Len(PrefixBytes(instruction)) + Len(pattern.baseBytes) + modRM + sib

MatchedView(instruction, pattern) ==
  LET memory == Memory(instruction, pattern)
      extra  == ExtraOperand(instruction)
  IN [kind   |-> "INSTR",
      match  |-> TRUE,
      head   |-> HeadLength(instruction, pattern),
      disp   |-> IF memory = <<>> THEN 0 ELSE memory[1].mem.displacement,
      terms  |-> IF memory = <<>> THEN <<>> ELSE memory[1].mem.symbols,
      extra  |-> IF extra = <<>> THEN "NONE" ELSE pattern.extra,
      target |-> IF extra = <<>> THEN NoName ELSE TargetOf(extra[1]),
      imm    |-> IF extra = <<>> THEN 0 ELSE ValueOf(extra[1])]

view(instruction) ==
  IF Matching(instruction) = {} THEN Unmatched
  ELSE MatchedView(instruction, FirstMatch(instruction))

=============================================================================
