-------------------------- MODULE EncodingReference --------------------------
(***************************************************************************)
(* What the bytes of an instruction have to be, read from the other side:  *)
(* the "Encoding reference" of OpcodeFactories.h, which lists the forms of *)
(* every instruction, and the layout of ModRM, SIB and displacement that   *)
(* OpcodePattern.h describes. Nothing here uses the opcode table.          *)
(***************************************************************************)
EXTENDS PatternEncoder

-----------------------------------------------------------------------------
(* Reading the buffer *)

At(p) == IF p \in DOMAIN buffer THEN buffer[p] ELSE 0

\* The value of a little-endian word, unsigned, and signed if it has size values.
Unsigned(bytes) == FoldRight(LAMBDA byte, value : value * 256 + byte, bytes, 0)

Signed(bytes, size) ==
  LET value == Unsigned(bytes) IN IF 2 * value >= size THEN value - size ELSE value

\* Operand size, address size and REX.W; no opcode begins with them.
Prefix == {\h66, \h67, \h48}

\* Where the opcode begins.
OpcodeAt == CHOOSE p \in 1 .. 4 : At(p) \notin Prefix /\ \A q \in 1 .. p - 1 : At(q) \in Prefix

\* The size of the registers of an address.
AddressSize == IF \E p \in 1 .. OpcodeAt - 1 : At(p) = \h67 THEN 32 ELSE 64

Mod(p)  == At(p) \div 64
Reg3(p) == (At(p) \div 8) % 8
Low3(p) == At(p) % 8

HasSib(p)     == Mod(p) # 3 /\ Low3(p) = 4
DispAt(p)     == IF HasSib(p) THEN p + 2 ELSE p + 1
DispBytes(p)  == CASE Mod(p) = 1 -> 1 [] Mod(p) = 2 -> 4 [] OTHER -> 0
AfterModRM(p) == DispAt(p) + DispBytes(p)

\* How often the address contains a register.
Coefficient(p, reg) ==
  LET code == RegisterCode[reg] IN
  IF RegisterTable[reg] # AddressSize THEN 0
  ELSE IF HasSib(p)
    THEN (IF Low3(p + 1) = code THEN 1 ELSE 0)
           + (IF Reg3(p + 1) = code /\ code # 4 THEN 2 ^ Mod(p + 1) ELSE 0)
    ELSE IF Low3(p) = code THEN 1 ELSE 0

DispOf(p) ==
  LET bytes == SubSeq(buffer, DispAt(p), AfterModRM(p) - 1)
  IN Signed(bytes, IF Mod(p) = 1 THEN 256 ELSE DwordSize)

-----------------------------------------------------------------------------
(* Addresses *)

OperandMemory == IF pattern = <<>> THEN <<>> ELSE Memory(instruction, pattern)

ModRMAt == OpcodeAt + Len(pattern.baseBytes)

\* Memory operands that the bytes can express. Not among them are those for which the
\* encoding has a form of its own that emitMemOperand() does not use (no base, rsp as
\* the base, rbp without a displacement), and those without an encoding: rsp as the
\* index, and a displacement of more than 32 bits, which is truncated.
Addressable(mem) ==
  LET disp == DisplacementOf(mem) IN
  /\ mem.base # NoName
  /\ mem.base = "rsp" => mem.index # NoName
  /\ mem.base = "rbp" => disp # 0
  /\ mem.index # "rsp"
  /\ disp \in -Rel32Limit .. Rel32Limit - 1

\* Memory operands whose encoding stands for another address: with a register of less
\* than 64 bits, for which index.dox describes a prefix 67 that is never emitted, ...
HasShortRegister(mem) ==
  \E reg \in {mem.base, mem.index} \ {NoName} : RegisterTable[reg] # 64

\* ... and with a label, which counts by its offset in its section, although the same
\* label as an immediate is its address.
NamesLabel(mem) == \E k \in DOMAIN mem.symbols : symbols[mem.symbols[k].name].kind # "EQU"

\* The literals and constants of an operand that names no label.
MeantDisplacement(mem) ==
  FoldLeft(LAMBDA sum, term : sum + term.sign * symbols[term.name].value,
           mem.displacement, mem.symbols)

\* Instruction.h: a memory operand is base + index * scale + displacement + symbols.
\* ModRM and SIB have exactly its registers, if they have 64 bits, and the displacement
\* is the sum of its literals and constants, if it names no label.
AddressesDecode ==
  Encoded =>
    \A k \in DOMAIN OperandMemory :
      LET mem == OperandMemory[k].mem IN
      Addressable(mem) /\ ~HasShortRegister(mem) =>
        /\ Mod(ModRMAt) # 3
        /\ \A reg \in Register :
             Coefficient(ModRMAt, reg)
               = (IF mem.base = reg THEN 1 ELSE 0) + (IF mem.index = reg THEN mem.scale ELSE 0)
        /\ ~NamesLabel(mem) => DispOf(ModRMAt) = MeantDisplacement(mem)

-----------------------------------------------------------------------------
(* Values *)

\* An immediate that the processor extends by its sign to the operand.
SignExtends ==
  \/ instruction.opcode = "push"
  \/ Len(instruction.operands) = 3 /\ pattern.extra = "IMM8"
  \/ pattern.extra = "IMM32" /\ (HasRegister(instruction, 64) \/ pattern.operands[1].size = 64)

ExtraSize ==
  CASE pattern.extra \in {"IMM8", "REL8"} -> 256
    [] pattern.extra = "IMM16" -> 65536
    [] pattern.extra = "IMM64" -> WordSize
    [] OTHER -> DwordSize

ExtraBytes == SubSeq(buffer, Len(buffer) - ExtraLength[pattern.extra] + 1, Len(buffer))

\* The value the last bytes have to stand for.
Wanted ==
  IF pattern.extra \in {"REL8", "REL32"} THEN Resolved - (baseVaddr + Len(buffer)) ELSE Resolved

SignedTail == pattern.extra \in {"REL8", "REL32"} \/ SignExtends

Representable ==
  2 * Wanted >= -ExtraSize /\ (IF SignedTail THEN 2 ELSE 1) * Wanted < ExtraSize

\* The immediate or relative operand at the end is the value of the literal, the
\* address of the label, or the distance to it, whenever it has room for it; and a
\* literal has no room only where it is extended by its sign (push 200 is taken
\* for a byte, and add rax, imm for 32 bits, whatever their sign).
OperandsKeepTheirValue ==
  (Encoded /\ Extra # <<>>) =>
    /\ Representable =>
         \/ Signed(ExtraBytes, ExtraSize) = Wanted
         \/ ~SignedTail /\ Unsigned(ExtraBytes) = Wanted
    /\ IsA(Extra[1], "IMM") /\ ~SignedTail => Representable

-----------------------------------------------------------------------------
(* Forms. A row of the reference: opcode bytes, operands, the reg field of *)
(* ModRM (a digit, a register, or no ModRM), and what follows.             *)

SlashR == 8   \* /r: the register operand
PlusR  == 9   \* +r: the register in the opcode
NoReg  == 10  \* no ModRM

Row(bytes, operands, reg, tail) ==
  [bytes |-> bytes, operands |-> operands, reg |-> reg, tail |-> tail]

OneOperand(b8, b, digit) ==
  { Row(<<b8>>, <<"r/m8">>, digit, "-"), Row(<<b>>, <<"r/m">>, digit, "-") }

WithImmediate(b8, b, digit) ==
  { Row(<<b8>>, <<"r/m8", "imm">>, digit, "ib"), Row(<<b>>, <<"r/m", "imm">>, digit, "iz") }

ToRegMem(b) ==
  { Row(<<b>>, <<"r/m8", "r8">>, SlashR, "-"), Row(<<b + 1>>, <<"r/m", "r">>, SlashR, "-") }

ToReg(b) ==
  { Row(<<b>>, <<"r8", "r/m8">>, SlashR, "-"), Row(<<b + 1>>, <<"r", "r/m">>, SlashR, "-") }

ToAL(b) == { Row(<<b>>, <<"al", "imm">>, NoReg, "ib") }

TwoOperands(b, digit) ==
  ToRegMem(b) \cup ToReg(b + 2) \cup ToAL(b + 4) \cup WithImmediate(\h80, \h81, digit)

ByCount(digit) ==
  OneOperand(\hD0, \hD1, digit)
    \cup { Row(<<\hC0>>, <<"r/m8", "imm">>, digit, "ib"),
           Row(<<\hC1>>, <<"r/m", "imm">>, digit, "ib"),
           Row(<<\hD2>>, <<"r/m8", "cl">>, digit, "-"),
           Row(<<\hD3>>, <<"r/m", "cl">>, digit, "-") }

Jump(short, near) ==
  { Row(<<short>>, <<"label">>, NoReg, "ib"), Row(near, <<"label">>, NoReg, "id") }

Reference ==
  [mov  |-> ToRegMem(\h88) \cup ToReg(\h8A) \cup WithImmediate(\hC6, \hC7, 0)
              \cup { Row(<<\hB0>>, <<"r8", "imm">>, PlusR, "ib"),
                     Row(<<\hB8>>, <<"r", "imm">>, PlusR, "iv") },
   lea  |-> { Row(<<\h8D>>, <<"r", "m">>, SlashR, "-") },
   push |-> { Row(<<\h50>>, <<"r">>, PlusR, "-"), Row(<<\h6A>>, <<"imm">>, NoReg, "ib"),
              Row(<<\h68>>, <<"imm">>, NoReg, "id"), Row(<<\hFF>>, <<"r/m">>, 6, "-") },
   pop  |-> { Row(<<\h58>>, <<"r">>, PlusR, "-"), Row(<<\h8F>>, <<"r/m">>, 0, "-") },
   add  |-> TwoOperands(\h00, 0),
   sub  |-> TwoOperands(\h28, 5),
   imul |-> OneOperand(\hF6, \hF7, 5)
              \cup { Row(<<\h0F, \hAF>>, <<"r", "r/m">>, SlashR, "-"),
                     Row(<<\h6B>>, <<"r", "r/m", "imm">>, SlashR, "ib"),
                     Row(<<\h69>>, <<"r", "r/m", "imm">>, SlashR, "iz") },
   mul  |-> OneOperand(\hF6, \hF7, 4),
   idiv |-> OneOperand(\hF6, \hF7, 7),
   div  |-> OneOperand(\hF6, \hF7, 6),
   inc  |-> OneOperand(\hFE, \hFF, 0),
   dec  |-> OneOperand(\hFE, \hFF, 1),
   neg  |-> OneOperand(\hF6, \hF7, 3),
   shl  |-> ByCount(4),
   shr  |-> ByCount(5),
   sar  |-> ByCount(7),
   cmp  |-> TwoOperands(\h38, 7),
   test |-> ToRegMem(\h84) \cup ToAL(\hA8) \cup WithImmediate(\hF6, \hF7, 0),
   jmp  |-> Jump(\hEB, <<\hE9>>) \cup { Row(<<\hFF>>, <<"r/m">>, 4, "-") },
   je   |-> Jump(\h74, <<\h0F, \h84>>),
   jne  |-> Jump(\h75, <<\h0F, \h85>>),
   jl   |-> Jump(\h7C, <<\h0F, \h8C>>),
   jle  |-> Jump(\h7E, <<\h0F, \h8E>>),
   jg   |-> Jump(\h7F, <<\h0F, \h8F>>),
   jge  |-> Jump(\h7D, <<\h0F, \h8D>>),
   call |-> { Row(<<\hE8>>, <<"label">>, NoReg, "id"), Row(<<\hFF>>, <<"r/m">>, 2, "-") },
   ret  |-> { Row(<<\hC3>>, <<>>, NoReg, "-"), Row(<<\hC2>>, <<"imm">>, NoReg, "iw") },
   enter   |-> { Row(<<\hC8>>, <<"imm", "imm">>, NoReg, "iw ib") },
   leave   |-> { Row(<<\hC9>>, <<>>, NoReg, "-") },
   nop     |-> { Row(<<\h90>>, <<>>, NoReg, "-") },
   syscall |-> { Row(<<\h0F, \h05>>, <<>>, NoReg, "-") }]
    @@ ("and" :> TwoOperands(\h20, 4)) @@ ("or" :> TwoOperands(\h08, 1))
    @@ ("xor" :> TwoOperands(\h30, 6)) @@ ("not" :> OneOperand(\hF6, \hF7, 2))

IsReg(o, sizes) == IsA(o, "REG") /\ RegisterTable[o.reg] \in sizes
IsMem(o, sizes) == IsA(o, "MEM") /\ o.mem.size \in sizes \cup {ANY}

\* The operand is of a class of the reference, at an operand size.
OfClass(o, class, size) ==
  CASE class = "r8"    -> IsReg(o, {8})
    [] class = "r"     -> IsReg(o, {size})
    [] class = "r/m8"  -> IsReg(o, {8}) \/ IsMem(o, {8})
    [] class = "r/m"   -> IsReg(o, {size}) \/ IsMem(o, {size})
    [] class = "m"     -> IsA(o, "MEM")
    [] class = "al"    -> IsA(o, "REG") /\ o.reg = "al"
    [] class = "cl"    -> IsA(o, "REG") /\ o.reg = "cl"
    [] class = "imm"   -> IsA(o, "IMM") \/ IsA(o, "LABEL")
    [] class = "label" -> IsA(o, "LABEL")

TailLength(tail, size) ==
  CASE tail = "-"     -> 0
    [] tail = "ib"    -> 1
    [] tail = "iw"    -> 2
    [] tail = "id"    -> 4
    [] tail = "iz"    -> IF size = 16 THEN 2 ELSE 4
    [] tail = "iv"    -> size \div 8
    [] tail = "iw ib" -> 3

\* The operand size the prefixes select, for instructions that have one.
SizeBytes(size) ==
  CASE size = 16 -> <<\h66>> [] size = 64 -> <<\h48>> [] OTHER -> <<>>

\* Stack and jump operands have 64 bits anyway: REX.W is redundant.
DefaultsTo64 == instruction.opcode \in {"push", "pop", "jmp", "call"}

HasWideClass(row) == \E k \in DOMAIN row.operands : row.operands[k] \in {"r", "r/m"}

PrefixesSelect(row, size) ==
  IF ~HasWideClass(row) THEN OpcodeAt = 1
  ELSE \/ SubSeq(buffer, 1, OpcodeAt - 1) = SizeBytes(size)
       \/ DefaultsTo64 /\ size = 64 /\ OpcodeAt = 1

ClassOperand(row, classes) ==
  instruction.operands[CHOOSE k \in DOMAIN row.operands : row.operands[k] \in classes]

OpcodeMatches(row) ==
  LET last == OpcodeAt + Len(row.bytes) - 1
      plus == IF row.reg = PlusR THEN RegisterCode[instruction.operands[1].reg] ELSE 0
  IN /\ SubSeq(buffer, OpcodeAt, last - 1) = Front(row.bytes)
     /\ At(last) = Last(row.bytes) + plus

ModRMMatches(row, p) ==
  LET rmo == ClassOperand(row, {"r/m", "r/m8", "m"}) IN
  row.reg <= SlashR =>
    /\ Reg3(p) = IF row.reg = SlashR THEN RegisterCode[ClassOperand(row, {"r", "r8"}).reg]
                                     ELSE row.reg
    /\ IF IsA(rmo, "REG") THEN Mod(p) = 3 /\ Low3(p) = RegisterCode[rmo.reg] ELSE Mod(p) # 3

\* The buffer is the instruction in the form of a row.
Follows(row, size) ==
  LET p   == OpcodeAt + Len(row.bytes)
      end == IF row.reg <= SlashR THEN AfterModRM(p) ELSE p
  IN /\ Len(row.operands) = Len(instruction.operands)
     /\ \A k \in DOMAIN row.operands : OfClass(instruction.operands[k], row.operands[k], size)
     /\ PrefixesSelect(row, size)
     /\ OpcodeMatches(row)
     /\ ModRMMatches(row, p)
     /\ Len(buffer) = end - 1 + TailLength(row.tail, size)

\* OpcodeFactories.h, "Encoding reference": every encoded instruction has one of the
\* forms listed for it, with the bytes given there.
HasReferenceForm ==
  \E row \in Reference[instruction.opcode], size \in {16, 32, 64} : Follows(row, size)

FollowsReference == Encoded => HasReferenceForm

ByCL == Len(instruction.operands) = 2 /\ IsReg(instruction.operands[2], {8})

\* The forms that are not encoded as the reference says.
Divergent ==
  \/ instruction.opcode = "add" /\ pattern.operands[1].exactReg = "al"
  \/ instruction.opcode \in {"shl", "shr", "sar"} /\ ByCL
  \/ instruction.opcode = "lea" /\ OperandMemory = <<>>
  \/ instruction.opcode = "enter"

\* A memory operand of 16 or 64 bits gets its prefix from a register operand only.
WithoutPrefix ==
  /\ OperandMemory # <<>>
  /\ pattern.operands[1].size \in {16, 64}
  /\ ~HasRegister(instruction, pattern.operands[1].size)

\* The other forms are: opcode, digit or register, operand size, and the number of
\* bytes of the immediate.
OthersFollowReference ==
  Encoded =>
    \/ Divergent
    \/ WithoutPrefix
    \/ \E k \in DOMAIN OperandMemory : ~Addressable(OperandMemory[k].mem)
    \/ HasReferenceForm

=============================================================================
