----------------------------- MODULE OpcodeTable -----------------------------
(***************************************************************************)
(* The opcode table: for every opcode the list of its encoding patterns,   *)
(* in the order in which the encoder tries them. There is one definition   *)
(* per factory struct; its parameters are the opcode bytes that the table  *)
(* passes to the factories (b8: 8-bit operands, b: wider ones).            *)
(***************************************************************************)
EXTENDS Tokens, SequencesExt

OperandKind == {"REG", "MEM", "IMM", "LABEL"}

OperandConstraint ==
  [allowed : SUBSET OperandKind, size : OperandSize, exactReg : Register \cup {NoName}]

\* modrm_reg: 0 also where it is not set, which is what it then stands for. extra:
\* an IMM8_SIGNED is emitted like an IMM8. The size groups are not read.
OpcodePattern ==
  [operands : Seq(OperandConstraint), baseBytes : Seq(0 .. 255), hasModRM : BOOLEAN,
   modrm_reg : 0 .. 7, regInOpcode : BOOLEAN, extra : ExtraEncoding]

-----------------------------------------------------------------------------
(* Constraints and shapes of patterns that several factories share *)

Allow(kinds, size) == [allowed |-> kinds, size |-> size, exactReg |-> NoName]

Reg(size)    == Allow({"REG"}, size)
RegMem(size) == Allow({"REG", "MEM"}, size)
Imm(size)    == Allow({"IMM"}, size)
Target       == Allow({"LABEL"}, ANY)

Only(reg) == [Reg(8) EXCEPT !.exactReg = reg]

Plain(operands, bytes, extra) ==
  [operands |-> operands, baseBytes |-> bytes, hasModRM |-> FALSE, modrm_reg |-> 0,
   regInOpcode |-> FALSE, extra |-> extra]

WithReg(operands, bytes, extra) ==
  [Plain(operands, bytes, extra) EXCEPT !.regInOpcode = TRUE]

WithModRM(operands, bytes, digit, extra) ==
  [Plain(operands, bytes, extra) EXCEPT !.hasModRM = TRUE, !.modrm_reg = digit]

ImmediateOf(size) == CASE size = 8 -> "IMM8" [] size = 16 -> "IMM16" [] OTHER -> "IMM32"

rm_r(size, base) == WithModRM(<<RegMem(size), Reg(size)>>, <<base>>, 0, "NONE")
r_rm(size, base) == WithModRM(<<Reg(size), RegMem(size)>>, <<base>>, 0, "NONE")
rel8(byte)   == Plain(<<Target>>, <<byte>>, "REL8")
rel32(bytes) == Plain(<<Target>>, bytes, "REL32")

al_imm8(base, extra) == Plain(<<Only("al"), Imm(8)>>, <<base>>, extra)

rm(size, base, digit) == WithModRM(<<RegMem(size)>>, <<base>>, digit, "NONE")

rm_imm(size, base, digit) ==
  WithModRM(<<RegMem(size), Imm(size)>>, <<base>>, digit, ImmediateOf(size))

\* A pattern for every size.
Wider(P(_, _), b)        == <<P(16, b), P(32, b), P(64, b)>>
AllSizes(P(_, _), b8, b) == <<P(8, b8)>> \o Wider(P, b)

Unary(b8, b, digit) == AllSizes(LAMBDA size, base : rm(size, base, digit), b8, b)

Immediate(b8, b, digit) == AllSizes(LAMBDA size, base : rm_imm(size, base, digit), b8, b)

\* Five consecutive opcode bytes from base on (extra: what follows the short form
\* with AL), and 80 or 81 /digit.
Binary(base, digit, extra) ==
  AllSizes(rm_r, base, base + 1) \o AllSizes(r_rm, base + 2, base + 3)
    \o <<al_imm8(base + 4, extra)>> \o Immediate(\h80, \h81, digit)

rm_imm8(size, base, digit) == WithModRM(<<RegMem(size), Imm(8)>>, <<base>>, digit, "IMM8")
rm_cl(size, base, digit)   == WithModRM(<<RegMem(size), Only("cl")>>, <<base>>, digit, "NONE")

ByImmediate(digit) == AllSizes(LAMBDA size, base : rm_imm8(size, base, digit), \hC0, \hC1)
ByRegister(digit)  == AllSizes(LAMBDA size, base : rm_cl(size, base, digit), \hD2, \hD3)

\* By one, by an immediate, by CL.
Shift(digit) == Unary(\hD0, \hD1, digit) \o ByImmediate(digit) \o ByRegister(digit)

-----------------------------------------------------------------------------
(* Data movement *)

r_imm(size, base) ==
  WithReg(<<Reg(size), Imm(size)>>, <<base>>, IF size = 64 THEN "IMM64" ELSE ImmediateOf(size))

MovPatterns ==
  AllSizes(rm_r, \h88, \h89) \o AllSizes(r_rm, \h8A, \h8B) \o AllSizes(r_imm, \hB0, \hB8)
    \o Immediate(\hC6, \hC7, 0)

r_m(size, base) == WithModRM(<<Reg(size), Allow({"MEM"}, ANY)>>, <<base>>, 0, "NONE")
r_label(size)   == WithModRM(<<Reg(size), Target>>, <<\h8D>>, 0, "REL32")

LeaPatterns == Wider(r_m, \h8D) \o <<r_label(32), r_label(64)>>

PushPatterns ==
  LET r(size)   == WithReg(<<Reg(size)>>, <<\h50>>, "NONE")
      rm6(size) == rm(size, \hFF, 6)
  IN << r(16), r(64), Plain(<<Imm(8)>>, <<\h6A>>, "IMM8"), Plain(<<Imm(32)>>, <<\h68>>, "IMM32"),
        rm6(16), rm6(64) >>

PopPatterns ==
  LET r(size)   == WithReg(<<Reg(size)>>, <<\h58>>, "NONE")
      rm0(size) == rm(size, \h8F, 0)
  IN <<r(64), r(16), rm0(64), rm0(16)>>

-----------------------------------------------------------------------------
(* Arithmetic and logic *)

\* The short form with AL has no place for its immediate.
AddPatterns(base) == Binary(base, 0, "NONE")

SubPatterns(base) == Binary(base, 5, "IMM8")
AndPatterns(base) == Binary(base, 4, "IMM8")
OrPatterns(base)  == Binary(base, 1, "IMM8")
XorPatterns(base) == Binary(base, 6, "IMM8")
CmpPatterns(base) == Binary(base, 7, "IMM8")

TestPatterns ==
  AllSizes(rm_r, \h84, \h85) \o <<al_imm8(\hA8, "IMM8")>> \o Immediate(\hF6, \hF7, 0)

product(size, base) == WithModRM(<<Reg(size), RegMem(size)>>, <<\h0F, base>>, 0, "NONE")

r_rm_imm8(size, base) ==
  WithModRM(<<Reg(size), RegMem(size), Imm(8)>>, <<base>>, 0, "IMM8")

r_rm_imm(size, base) ==
  WithModRM(<<Reg(size), RegMem(size), Imm(size)>>, <<base>>, 0, ImmediateOf(size))

ImulPatterns ==
  Unary(\hF6, \hF7, 5) \o Wider(product, \hAF) \o Wider(r_rm_imm8, \h6B)
    \o Wider(r_rm_imm, \h69)

MulPatterns(b8, b)  == Unary(b8, b, 4)
IdivPatterns(b8, b) == Unary(b8, b, 7)
DivPatterns(b8, b)  == Unary(b8, b, 6)
IncPatterns(b8, b)  == Unary(b8, b, 0)
DecPatterns(b8, b)  == Unary(b8, b, 1)
NegPatterns(b8, b)  == Unary(b8, b, 3)
NotPatterns(b8, b)  == Unary(b8, b, 2)

ShlPatterns == Shift(4)
ShrPatterns == Shift(5)
SarPatterns == Shift(7)

-----------------------------------------------------------------------------
(* Control flow *)

JccPatterns(short, near) == <<rel8(short), rel32(<<\h0F, near>>)>>

JmpPatterns  == <<rel8(\hEB), rel32(<<\hE9>>), rm(64, \hFF, 4)>>
CallPatterns == <<rel32(<<\hE8>>), rm(64, \hFF, 2)>>
RetPatterns  == <<Plain(<<>>, <<\hC3>>, "NONE"), Plain(<<Imm(16)>>, <<\hC2>>, "IMM16")>>

\* Two immediates, of which only the first is encoded.
EnterPatterns == <<Plain(<<Imm(16), Imm(8)>>, <<\hC8>>, "IMM16")>>

LeavePatterns == <<Plain(<<>>, <<\hC9>>, "NONE")>>
NopPatterns   == <<Plain(<<>>, <<\h90>>, "NONE")>>

-----------------------------------------------------------------------------
(* The table *)

DataMovement ==
  [mov |-> MovPatterns, lea |-> LeaPatterns, push |-> PushPatterns, pop |-> PopPatterns]

Arithmetic ==
  [add  |-> AddPatterns(\h00),         sub |-> SubPatterns(\h28),
   imul |-> ImulPatterns,              mul |-> MulPatterns(\hF6, \hF7),
   idiv |-> IdivPatterns(\hF6, \hF7),  div |-> DivPatterns(\hF6, \hF7),
   inc  |-> IncPatterns(\hFE, \hFF),   dec |-> DecPatterns(\hFE, \hFF),
   neg  |-> NegPatterns(\hF6, \hF7)]

Logic ==
  [and |-> AndPatterns(\h20), or |-> OrPatterns(\h08), xor |-> XorPatterns(\h30),
   not |-> NotPatterns(\hF6, \hF7), shl |-> ShlPatterns, shr |-> ShrPatterns,
   sar |-> SarPatterns]

Comparison == [cmp |-> CmpPatterns(\h38), test |-> TestPatterns]

ControlFlow ==
  [jmp |-> JmpPatterns, je |-> JccPatterns(\h74, \h84), jne |-> JccPatterns(\h75, \h85),
   jl  |-> JccPatterns(\h7C, \h8C), jle |-> JccPatterns(\h7E, \h8E),
   jg  |-> JccPatterns(\h7F, \h8F), jge |-> JccPatterns(\h7D, \h8D),
   call |-> CallPatterns, ret |-> RetPatterns]

FrameAndSystem ==
  [enter |-> EnterPatterns, leave |-> LeavePatterns, nop |-> NopPatterns,
   syscall |-> <<Plain(<<>>, <<\h0F, \h05>>, "NONE")>>]

Table ==
  [opcode \in Opcode |->
     CASE opcode \in DOMAIN DataMovement   -> DataMovement[opcode]
       [] opcode \in DOMAIN Arithmetic     -> Arithmetic[opcode]
       [] opcode \in DOMAIN Logic          -> Logic[opcode]
       [] opcode \in DOMAIN Comparison     -> Comparison[opcode]
       [] opcode \in DOMAIN ControlFlow    -> ControlFlow[opcode]
       [] opcode \in DOMAIN FrameAndSystem -> FrameAndSystem[opcode]]

=============================================================================
