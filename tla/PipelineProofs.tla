--------------------------- MODULE PipelineProofs ---------------------------
(***************************************************************************)
(* Proofs about the program as Compiler composes it, from the characters   *)
(* of the source to the bytes of the file: what each stage is proved to    *)
(* leave behind is what the next one is proved to need; and that Compiler  *)
(* implements AssemblerContract.                                           *)
(***************************************************************************)
EXTENDS Compiler, TLAPS

-----------------------------------------------------------------------------
(* The opcode table *)

LEMMA AllowType ==
  ASSUME NEW kinds \in SUBSET OperandKind, NEW size \in OperandSize
  PROVE  Allow(kinds, size) \in OperandConstraint
BY DEF Allow, OperandConstraint

LEMMA ConstraintTypes ==
  /\ \A size \in OperandSize : /\ Reg(size) \in OperandConstraint
                               /\ RegMem(size) \in OperandConstraint
                               /\ Imm(size) \in OperandConstraint
                               /\ Allow({"MEM"}, size) \in OperandConstraint
  /\ Target \in OperandConstraint
  /\ \A reg \in Register : Only(reg) \in OperandConstraint
<1>1. {"REG"} \in SUBSET OperandKind /\ {"REG", "MEM"} \in SUBSET OperandKind
      /\ {"IMM"} \in SUBSET OperandKind /\ {"LABEL"} \in SUBSET OperandKind
      /\ {"MEM"} \in SUBSET OperandKind
  BY DEF OperandKind
<1>2. ANY \in OperandSize /\ 8 \in OperandSize
  BY DEF OperandSize
<1>3. \A reg \in Register : Only(reg) \in OperandConstraint
  BY <1>1, <1>2 DEF Only, Reg, Allow, OperandConstraint
<1>. QED
  BY <1>1, <1>2, <1>3, AllowType DEF Reg, RegMem, Imm, Target

LEMMA PatternTypes ==
  ASSUME NEW operands \in Seq(OperandConstraint), NEW bytes \in Seq(0 .. 255),
         NEW extra \in ExtraEncoding
  PROVE  /\ Plain(operands, bytes, extra) \in OpcodePattern
         /\ WithReg(operands, bytes, extra) \in OpcodePattern
         /\ \A digit \in 0 .. 7 : WithModRM(operands, bytes, digit, extra) \in OpcodePattern
<1>1. Plain(operands, bytes, extra) \in OpcodePattern
  BY DEF Plain, OpcodePattern
<1>2. WithReg(operands, bytes, extra) \in OpcodePattern
  <2>. PICK plain : plain = Plain(operands, bytes, extra)
    OBVIOUS
  <2>1. plain \in OpcodePattern
    BY <1>1
  <2>2. [plain EXCEPT !.regInOpcode = TRUE] \in OpcodePattern
    BY <2>1, Zenon DEF OpcodePattern
  <2>. QED
    BY <2>2 DEF WithReg
<1>3. \A digit \in 0 .. 7 : WithModRM(operands, bytes, digit, extra) \in OpcodePattern
  BY Zenon DEF WithModRM, Plain, OpcodePattern
<1>. QED
  BY <1>1, <1>2, <1>3

LEMMA ShortLists ==
  ASSUME NEW S
  PROVE  /\ <<>> \in Seq(S)
         /\ \A a \in S : <<a>> \in Seq(S)
         /\ \A a, b \in S : <<a, b>> \in Seq(S)
         /\ \A a, b, c \in S : <<a, b, c>> \in Seq(S)
<1>1. <<>> \in Seq(S)
  OBVIOUS
<1>2. \A a \in S : <<a>> \in Seq(S)
  OBVIOUS
<1>3. \A a, b \in S : <<a, b>> \in Seq(S)
  OBVIOUS
<1>4. \A a, b, c \in S : <<a, b, c>> \in Seq(S)
  OBVIOUS
<1>. QED
  BY <1>1, <1>2, <1>3, <1>4

LEMMA ListTypes ==
  /\ <<>> \in Seq(OperandConstraint)
  /\ \A a \in OperandConstraint : <<a>> \in Seq(OperandConstraint)
  /\ \A a, b \in OperandConstraint : <<a, b>> \in Seq(OperandConstraint)
  /\ \A a, b, c \in OperandConstraint : <<a, b, c>> \in Seq(OperandConstraint)
  /\ \A b \in 0 .. 255 : <<b>> \in Seq(0 .. 255)
  /\ \A a, b \in 0 .. 255 : <<a, b>> \in Seq(0 .. 255)
BY ShortLists, Zenon

Known == {8, 16, 32, 64}

LEMMA ExtraTypes ==
  /\ \A size \in Known : size \in OperandSize /\ ImmediateOf(size) \in ExtraEncoding
  /\ {"NONE", "IMM8", "IMM16", "IMM32", "IMM64", "REL8", "REL32"} \subseteq ExtraEncoding
  /\ {"al", "cl"} \subseteq Register
BY DEF Known, OperandSize, ImmediateOf, ExtraEncoding, Register, RegisterTable

LEMMA FormTypes ==
  ASSUME NEW size \in Known, NEW base \in 0 .. 255
  PROVE  /\ rm_r(size, base) \in OpcodePattern
         /\ r_rm(size, base) \in OpcodePattern
         /\ \A digit \in 0 .. 7 : rm(size, base, digit) \in OpcodePattern
         /\ \A digit \in 0 .. 7 : rm_imm(size, base, digit) \in OpcodePattern
<1>1. /\ RegMem(size) \in OperandConstraint /\ Reg(size) \in OperandConstraint
      /\ Imm(size) \in OperandConstraint /\ <<base>> \in Seq(0 .. 255)
  BY ExtraTypes, ConstraintTypes
<1>2. /\ <<RegMem(size), Reg(size)>> \in Seq(OperandConstraint)
      /\ <<Reg(size), RegMem(size)>> \in Seq(OperandConstraint)
      /\ <<RegMem(size)>> \in Seq(OperandConstraint)
      /\ <<RegMem(size), Imm(size)>> \in Seq(OperandConstraint)
  BY <1>1, ListTypes, Zenon
<1>3. ImmediateOf(size) \in ExtraEncoding /\ "NONE" \in ExtraEncoding
  BY ExtraTypes
<1>4. rm_r(size, base) \in OpcodePattern /\ r_rm(size, base) \in OpcodePattern
  <2>1. 0 \in 0 .. 7
    OBVIOUS
  <2>2. rm_r(size, base) \in OpcodePattern
    BY <1>1, <1>2, <1>3, <2>1, PatternTypes, Zenon DEF rm_r
  <2>3. r_rm(size, base) \in OpcodePattern
    BY <1>1, <1>2, <1>3, <2>1, PatternTypes, Zenon DEF r_rm
  <2>. QED
    BY <2>2, <2>3
<1>5. \A digit \in 0 .. 7 : rm(size, base, digit) \in OpcodePattern
  BY <1>1, <1>2, <1>3, PatternTypes, Zenon DEF rm
<1>6. \A digit \in 0 .. 7 : rm_imm(size, base, digit) \in OpcodePattern
  BY <1>1, <1>2, <1>3, PatternTypes, Zenon DEF rm_imm
<1>. QED
  BY <1>4, <1>5, <1>6

LEMMA JumpTypes ==
  /\ \A byte \in 0 .. 255 : rel8(byte) \in OpcodePattern
  /\ \A bytes \in Seq(0 .. 255) : rel32(bytes) \in OpcodePattern
BY ConstraintTypes, ListTypes, ExtraTypes, PatternTypes, Zenon DEF rel8, rel32

LEMMA ShortTypes ==
  ASSUME NEW base \in 0 .. 255, NEW extra \in {"NONE", "IMM8"}
  PROVE  al_imm8(base, extra) \in OpcodePattern
<1>1. Only("al") \in OperandConstraint /\ Imm(8) \in OperandConstraint
  BY ConstraintTypes, ExtraTypes DEF Known
<1>2. <<Only("al"), Imm(8)>> \in Seq(OperandConstraint) /\ <<base>> \in Seq(0 .. 255)
  BY <1>1, ListTypes, Zenon
<1>. QED
  BY <1>2, ExtraTypes, PatternTypes DEF al_imm8

-----------------------------------------------------------------------------
\* Lists of patterns.
Patterns == Seq(OpcodePattern)

LEMMA PatternLists ==
  /\ \A a \in OpcodePattern : <<a>> \in Patterns
  /\ \A a, b \in OpcodePattern : <<a, b>> \in Patterns
  /\ \A a, b, c \in OpcodePattern : <<a, b, c>> \in Patterns
  /\ \A s, t \in Patterns : s \o t \in Patterns
BY ShortLists DEF Patterns

LEMMA SizedForms ==
  ASSUME NEW b8 \in 0 .. 255, NEW b \in 0 .. 255
  PROVE  /\ AllSizes(rm_r, b8, b) \in Patterns
         /\ AllSizes(r_rm, b8, b) \in Patterns
         /\ \A digit \in 0 .. 7 : Unary(b8, b, digit) \in Patterns
         /\ \A digit \in 0 .. 7 : Immediate(b8, b, digit) \in Patterns
<1>. HIDE DEF Patterns
<1>1. 8 \in Known /\ 16 \in Known /\ 32 \in Known /\ 64 \in Known
  BY DEF Known
<1>2. AllSizes(rm_r, b8, b) \in Patterns
  BY <1>1, FormTypes, PatternLists DEF AllSizes, Wider
<1>3. AllSizes(r_rm, b8, b) \in Patterns
  BY <1>1, FormTypes, PatternLists DEF AllSizes, Wider
<1>4. ASSUME NEW digit \in 0 .. 7 PROVE Unary(b8, b, digit) \in Patterns
  BY <1>1, FormTypes, PatternLists DEF Unary, AllSizes, Wider
<1>5. ASSUME NEW digit \in 0 .. 7 PROVE Immediate(b8, b, digit) \in Patterns
  BY <1>1, FormTypes, PatternLists, Zenon DEF Immediate, AllSizes, Wider
<1>. QED
  BY <1>2, <1>3, <1>4, <1>5

LEMMA BinaryType ==
  ASSUME NEW base \in 0 .. 250, NEW digit \in 0 .. 7, NEW extra \in {"NONE", "IMM8"}
  PROVE  Binary(base, digit, extra) \in Patterns
<1>. HIDE DEF Patterns
<1>1. /\ base \in 0 .. 255 /\ base + 1 \in 0 .. 255 /\ base + 2 \in 0 .. 255
      /\ base + 3 \in 0 .. 255 /\ base + 4 \in 0 .. 255 /\ \h80 \in 0 .. 255 /\ \h81 \in 0 .. 255
  OBVIOUS
<1>2. AllSizes(rm_r, base, base + 1) \in Patterns
  BY <1>1, SizedForms, Zenon
<1>3. AllSizes(r_rm, base + 2, base + 3) \in Patterns
  BY <1>1, SizedForms, Zenon
<1>4. <<al_imm8(base + 4, extra)>> \in Patterns
  BY <1>1, ShortTypes, PatternLists, Zenon
<1>5. Immediate(\h80, \h81, digit) \in Patterns
  BY <1>1, SizedForms, Zenon
<1>. QED
  BY <1>2, <1>3, <1>4, <1>5, PatternLists DEF Binary

LEMMA ShiftType ==
  ASSUME NEW digit \in 0 .. 7
  PROVE  Shift(digit) \in Patterns
<1>. HIDE DEF Patterns
<1>1. 8 \in Known /\ 16 \in Known /\ 32 \in Known /\ 64 \in Known
  BY DEF Known
<1>2. ASSUME NEW size \in Known, NEW base \in 0 .. 255
      PROVE  /\ rm_imm8(size, base, digit) \in OpcodePattern
             /\ rm_cl(size, base, digit) \in OpcodePattern
  <2>1. /\ RegMem(size) \in OperandConstraint /\ Imm(8) \in OperandConstraint
        /\ Only("cl") \in OperandConstraint
    BY <1>1, ExtraTypes, ConstraintTypes
  <2>2. <<RegMem(size), Imm(8)>> \in Seq(OperandConstraint)
        /\ <<RegMem(size), Only("cl")>> \in Seq(OperandConstraint) /\ <<base>> \in Seq(0 .. 255)
    BY <2>1, ListTypes, Zenon
  <2>. QED
    BY <2>2, ExtraTypes, PatternTypes, Zenon DEF rm_imm8, rm_cl
<1>3. /\ \hC0 \in 0 .. 255 /\ \hC1 \in 0 .. 255 /\ \hD0 \in 0 .. 255 /\ \hD1 \in 0 .. 255
      /\ \hD2 \in 0 .. 255 /\ \hD3 \in 0 .. 255
  OBVIOUS
<1>4. ByImmediate(digit) \in Patterns
  <2>1. /\ rm_imm8(8, \hC0, digit) \in OpcodePattern /\ rm_imm8(16, \hC1, digit) \in OpcodePattern
        /\ rm_imm8(32, \hC1, digit) \in OpcodePattern
        /\ rm_imm8(64, \hC1, digit) \in OpcodePattern
    BY <1>1, <1>2, <1>3
  <2>. QED
    BY <2>1, PatternLists DEF AllSizes, Wider, ByImmediate
<1>5. ByRegister(digit) \in Patterns
  <2>1. /\ rm_cl(8, \hD2, digit) \in OpcodePattern /\ rm_cl(16, \hD3, digit) \in OpcodePattern
        /\ rm_cl(32, \hD3, digit) \in OpcodePattern /\ rm_cl(64, \hD3, digit) \in OpcodePattern
    BY <1>1, <1>2, <1>3
  <2>. QED
    BY <2>1, PatternLists DEF AllSizes, Wider, ByRegister
<1>6. Unary(\hD0, \hD1, digit) \in Patterns
  BY <1>3, SizedForms, ZenonT(30)
<1>7. Unary(\hD0, \hD1, digit) \o ByImmediate(digit) \in Patterns
  BY <1>4, <1>6, PatternLists
<1>. QED
  BY <1>5, <1>7, PatternLists DEF Shift

LEMMA MovType == MovPatterns \in Patterns
<1>. HIDE DEF Patterns
<1>1. 8 \in Known /\ 16 \in Known /\ 32 \in Known /\ 64 \in Known
  BY DEF Known
<1>2. ASSUME NEW size \in Known, NEW base \in 0 .. 255
      PROVE  r_imm(size, base) \in OpcodePattern
  <2>1. Reg(size) \in OperandConstraint /\ Imm(size) \in OperandConstraint
    BY ExtraTypes, ConstraintTypes
  <2>2. <<Reg(size), Imm(size)>> \in Seq(OperandConstraint) /\ <<base>> \in Seq(0 .. 255)
    BY <2>1, ListTypes, Zenon
  <2>. QED
    BY <2>2, ExtraTypes, PatternTypes DEF r_imm
<1>3. /\ \h88 \in 0 .. 255 /\ \h89 \in 0 .. 255 /\ \h8A \in 0 .. 255 /\ \h8B \in 0 .. 255
      /\ \hB0 \in 0 .. 255 /\ \hB8 \in 0 .. 255 
      /\ \hC6 \in 0 .. 255 /\ \hC7 \in 0 .. 255 /\ 0 \in 0 .. 7
  OBVIOUS
<1>4. AllSizes(r_imm, \hB0, \hB8) \in Patterns
  <2>1. /\ r_imm(8, \hB0) \in OpcodePattern /\ r_imm(16, \hB8) \in OpcodePattern
        /\ r_imm(32, \hB8) \in OpcodePattern /\ r_imm(64, \hB8) \in OpcodePattern
    BY <1>1, <1>2, <1>3
  <2>. QED
    BY <2>1, PatternLists DEF AllSizes, Wider
<1>5. AllSizes(rm_r, \h88, \h89) \in Patterns /\ AllSizes(r_rm, \h8A, \h8B) \in Patterns
  BY <1>3, SizedForms, ZenonT(30)
<1>6. Immediate(\hC6, \hC7, 0) \in Patterns
  BY <1>3, SizedForms, ZenonT(30)
<1>7. AllSizes(rm_r, \h88, \h89) \o AllSizes(r_rm, \h8A, \h8B) \in Patterns
  BY <1>5, PatternLists
<1>8. AllSizes(rm_r, \h88, \h89) \o AllSizes(r_rm, \h8A, \h8B)
        \o AllSizes(r_imm, \hB0, \hB8) \in Patterns
  BY <1>4, <1>7, PatternLists
<1>. QED
  BY <1>6, <1>8, PatternLists DEF MovPatterns

LEMMA LeaType == LeaPatterns \in Patterns
<1>. HIDE DEF Patterns
<1>1. \A size \in Known : r_m(size, \h8D) \in OpcodePattern /\ r_label(size) \in OpcodePattern
  <2>. SUFFICES ASSUME NEW size \in Known
                PROVE  r_m(size, \h8D) \in OpcodePattern /\ r_label(size) \in OpcodePattern
    OBVIOUS
  <2>1. ANY \in OperandSize /\ \h8D \in 0 .. 255 /\ 0 \in 0 .. 7
    BY DEF OperandSize
  <2>2. Reg(size) \in OperandConstraint /\ Target \in OperandConstraint
        /\ Allow({"MEM"}, ANY) \in OperandConstraint
    BY <2>1, ExtraTypes, ConstraintTypes
  <2>3. <<Reg(size), Allow({"MEM"}, ANY)>> \in Seq(OperandConstraint)
        /\ <<Reg(size), Target>> \in Seq(OperandConstraint) /\ <<\h8D>> \in Seq(0 .. 255)
    BY <2>1, <2>2, ListTypes, Zenon
  <2>. QED
    BY <2>1, <2>3, ExtraTypes, PatternTypes, Zenon DEF r_m, r_label
<1>2. 16 \in Known /\ 32 \in Known /\ 64 \in Known
  BY DEF Known
<1>3. Wider(r_m, \h8D) \in Patterns /\ <<r_label(32), r_label(64)>> \in Patterns
  BY <1>1, <1>2, PatternLists DEF Wider
<1>. QED
  BY <1>3, PatternLists DEF LeaPatterns

LEMMA StackTypes == PushPatterns \in Patterns /\ PopPatterns \in Patterns
<1>1. 8 \in Known /\ 16 \in Known /\ 32 \in Known /\ 64 \in Known
  BY DEF Known
<1>2. /\ \h50 \in 0 .. 255 /\ \h58 \in 0 .. 255 /\ \h6A \in 0 .. 255 /\ \h68 \in 0 .. 255
      /\ \hFF \in 0 .. 255 /\ \h8F \in 0 .. 255 /\ 0 \in 0 .. 7 /\ 6 \in 0 .. 7
  OBVIOUS
<1>3. \A size \in Known :
        /\ <<Reg(size)>> \in Seq(OperandConstraint)
        /\ <<Imm(size)>> \in Seq(OperandConstraint)
  BY ExtraTypes, ConstraintTypes, ListTypes, Zenon
<1>4. <<\h50>> \in Seq(0 .. 255) /\ <<\h58>> \in Seq(0 .. 255) /\ <<\h6A>> \in Seq(0 .. 255)
      /\ <<\h68>> \in Seq(0 .. 255)
  OBVIOUS
<1>5. \A size \in Known :
        /\ WithReg(<<Reg(size)>>, <<\h50>>, "NONE") \in OpcodePattern
        /\ WithReg(<<Reg(size)>>, <<\h58>>, "NONE") \in OpcodePattern
        /\ Plain(<<Imm(size)>>, <<\h6A>>, "IMM8") \in OpcodePattern
        /\ Plain(<<Imm(size)>>, <<\h68>>, "IMM32") \in OpcodePattern
        /\ rm(size, \hFF, 6) \in OpcodePattern /\ rm(size, \h8F, 0) \in OpcodePattern
  <2>1. \A size \in Known :
          /\ WithReg(<<Reg(size)>>, <<\h50>>, "NONE") \in OpcodePattern
          /\ WithReg(<<Reg(size)>>, <<\h58>>, "NONE") \in OpcodePattern
    BY <1>3, <1>4, ExtraTypes, PatternTypes, Zenon
  <2>2. \A size \in Known :
          /\ Plain(<<Imm(size)>>, <<\h6A>>, "IMM8") \in OpcodePattern
          /\ Plain(<<Imm(size)>>, <<\h68>>, "IMM32") \in OpcodePattern
    BY <1>3, <1>4, ExtraTypes, PatternTypes, Zenon
  <2>3. \A size \in Known :
          rm(size, \hFF, 6) \in OpcodePattern /\ rm(size, \h8F, 0) \in OpcodePattern
    BY <1>2, FormTypes, Zenon
  <2>. QED
    BY <2>1, <2>2, <2>3
<1>6. PushPatterns \in Seq(OpcodePattern)
  <2>. DEFINE a == WithReg(<<Reg(16)>>, <<\h50>>, "NONE")
              b == WithReg(<<Reg(64)>>, <<\h50>>, "NONE")
              c == Plain(<<Imm(8)>>, <<\h6A>>, "IMM8")
              d == Plain(<<Imm(32)>>, <<\h68>>, "IMM32")
              e == rm(16, \hFF, 6)
              f == rm(64, \hFF, 6)
  <2>1. a \in OpcodePattern /\ b \in OpcodePattern
    BY <1>1, <1>5, Zenon
  <2>2. c \in OpcodePattern /\ d \in OpcodePattern
    BY <1>1, <1>5, Zenon
  <2>3. e \in OpcodePattern /\ f \in OpcodePattern
    BY <1>1, <1>5, Zenon
  <2>4. PushPatterns = <<a, b, c, d, e, f>>
    BY DEF PushPatterns
  <2>. HIDE DEF a, b, c, d, e, f
  <2>5. <<a, b, c, d, e, f>> \in Seq(OpcodePattern)
    BY <2>1, <2>2, <2>3
  <2>. QED
    BY <2>4, <2>5
<1>7. PopPatterns \in Seq(OpcodePattern)
  <2>. \A a, b, c, d \in OpcodePattern : <<a, b, c, d>> \in Seq(OpcodePattern)
    OBVIOUS
  <2>. QED
    BY <1>1, <1>5, Zenon DEF PopPatterns
<1>. QED
  BY <1>6, <1>7 DEF Patterns

LEMMA TestType == TestPatterns \in Patterns
<1>. HIDE DEF Patterns
<1>1. /\ \h84 \in 0 .. 255 /\ \h85 \in 0 .. 255 /\ \hA8 \in 0 .. 255
      /\ \hF6 \in 0 .. 255 /\ \hF7 \in 0 .. 255 /\ 0 \in 0 .. 7
  OBVIOUS
<1>2. AllSizes(rm_r, \h84, \h85) \in Patterns
  BY <1>1, SizedForms, Zenon
<1>3. <<al_imm8(\hA8, "IMM8")>> \in Patterns
  BY <1>1, ShortTypes, PatternLists
<1>4. Immediate(\hF6, \hF7, 0) \in Patterns
  <2>1. \A digit \in 0 .. 7 : Immediate(\hF6, \hF7, digit) \in Patterns
    BY <1>1, SizedForms, Zenon
  <2>. QED
    BY <2>1
<1>5. AllSizes(rm_r, \h84, \h85) \o <<al_imm8(\hA8, "IMM8")>> \in Patterns
  BY <1>2, <1>3, PatternLists
<1>. QED
  BY <1>4, <1>5, PatternLists DEF TestPatterns

LEMMA ImulType == ImulPatterns \in Patterns
<1>. HIDE DEF Patterns
<1>1. 16 \in Known /\ 32 \in Known /\ 64 \in Known /\ 8 \in Known
  BY DEF Known
<1>2. /\ \hF6 \in 0 .. 255 /\ \hF7 \in 0 .. 255 /\ \hAF \in 0 .. 255 /\ \h6B \in 0 .. 255
      /\ \h69 \in 0 .. 255 /\ \h0F \in 0 .. 255 /\ 5 \in 0 .. 7 /\ 0 \in 0 .. 7
  OBVIOUS
<1>3. ASSUME NEW size \in Known, NEW base \in 0 .. 255
      PROVE  /\ product(size, base) \in OpcodePattern
             /\ r_rm_imm8(size, base) \in OpcodePattern
             /\ r_rm_imm(size, base) \in OpcodePattern
  <2>1. /\ Reg(size) \in OperandConstraint /\ RegMem(size) \in OperandConstraint
        /\ Imm(8) \in OperandConstraint /\ Imm(size) \in OperandConstraint
    BY <1>1, ExtraTypes, ConstraintTypes
  <2>2. /\ <<Reg(size), RegMem(size)>> \in Seq(OperandConstraint)
        /\ <<Reg(size), RegMem(size), Imm(8)>> \in Seq(OperandConstraint)
        /\ <<Reg(size), RegMem(size), Imm(size)>> \in Seq(OperandConstraint)
        /\ <<base>> \in Seq(0 .. 255) /\ <<\h0F, base>> \in Seq(0 .. 255)
    BY <1>2, <2>1, ListTypes, ZenonT(30)
  <2>. QED
    BY <1>2, <2>2, ExtraTypes, PatternTypes, Zenon DEF product, r_rm_imm8, r_rm_imm
<1>4. Wider(product, \hAF) \in Patterns
  <2>1. \A size \in Known : product(size, \hAF) \in OpcodePattern
    BY <1>2, <1>3
  <2>. QED
    BY <1>1, <2>1, PatternLists DEF Wider
<1>5. Wider(r_rm_imm8, \h6B) \in Patterns
  <2>1. \A size \in Known : r_rm_imm8(size, \h6B) \in OpcodePattern
    BY <1>2, <1>3
  <2>. QED
    BY <1>1, <2>1, PatternLists DEF Wider
<1>6. Wider(r_rm_imm, \h69) \in Patterns
  <2>1. \A size \in Known : r_rm_imm(size, \h69) \in OpcodePattern
    BY <1>2, <1>3
  <2>. QED
    BY <1>1, <2>1, PatternLists DEF Wider
<1>7. Unary(\hF6, \hF7, 5) \in Patterns
  <2>1. \hF6 \in 0 .. 255 /\ \hF7 \in 0 .. 255
    OBVIOUS
  <2>2. \A digit \in 0 .. 7 : Unary(\hF6, \hF7, digit) \in Patterns
    BY <2>1, SizedForms, ZenonT(30)
  <2>. QED
    BY <2>2
<1>8. Unary(\hF6, \hF7, 5) \o Wider(product, \hAF) \in Patterns
  BY <1>4, <1>7, PatternLists
<1>9. Unary(\hF6, \hF7, 5) \o Wider(product, \hAF) \o Wider(r_rm_imm8, \h6B) \in Patterns
  BY <1>5, <1>8, PatternLists
<1>. QED
  BY <1>6, <1>9, PatternLists DEF ImulPatterns

LEMMA DataMovementTypes ==
  \A opcode \in DOMAIN DataMovement : DataMovement[opcode] \in Patterns
<1>. HIDE DEF Patterns
<1>. QED
  BY MovType, LeaType, StackTypes DEF DataMovement

LEMMA ArithmeticTypes ==
  \A opcode \in DOMAIN Arithmetic : Arithmetic[opcode] \in Patterns
<1>. HIDE DEF Patterns
<1>1. \h00 \in 0 .. 250 /\ \h28 \in 0 .. 250 /\ 0 \in 0 .. 7 /\ 5 \in 0 .. 7
  OBVIOUS
<1>2. AddPatterns(\h00) \in Patterns /\ SubPatterns(\h28) \in Patterns
  BY <1>1, BinaryType DEF AddPatterns, SubPatterns
<1>3. \A digit \in 0 .. 7 : Unary(\hF6, \hF7, digit) \in Patterns
  <2>1. \hF6 \in 0 .. 255 /\ \hF7 \in 0 .. 255
    OBVIOUS
  <2>. QED
    BY <2>1, SizedForms, ZenonT(30)
<1>5. MulPatterns(\hF6, \hF7) \in Patterns /\ IdivPatterns(\hF6, \hF7) \in Patterns
      /\ DivPatterns(\hF6, \hF7) \in Patterns /\ NegPatterns(\hF6, \hF7) \in Patterns
  BY <1>3 DEF MulPatterns, IdivPatterns, DivPatterns, NegPatterns
<1>4. IncPatterns(\hFE, \hFF) \in Patterns /\ DecPatterns(\hFE, \hFF) \in Patterns
  <2>1. \hFE \in 0 .. 255 /\ \hFF \in 0 .. 255
    OBVIOUS
  <2>2. \A digit \in 0 .. 7 : Unary(\hFE, \hFF, digit) \in Patterns
    BY <2>1, SizedForms, ZenonT(30)
  <2>. QED
    BY <2>2 DEF IncPatterns, DecPatterns
<1>. QED
  BY <1>2, <1>4, <1>5, ImulType DEF Arithmetic

LEMMA LogicTypes ==
  \A opcode \in DOMAIN Logic : Logic[opcode] \in Patterns
<1>. HIDE DEF Patterns
<1>1. /\ \h20 \in 0 .. 250 /\ \h08 \in 0 .. 250 /\ \h30 \in 0 .. 250
      /\ \A digit \in {1, 2, 4, 5, 6, 7} : digit \in 0 .. 7
  OBVIOUS
<1>2. /\ AndPatterns(\h20) \in Patterns /\ OrPatterns(\h08) \in Patterns
      /\ XorPatterns(\h30) \in Patterns
  BY <1>1, BinaryType DEF AndPatterns, OrPatterns, XorPatterns
<1>3. NotPatterns(\hF6, \hF7) \in Patterns
  <2>1. \hF6 \in 0 .. 255 /\ \hF7 \in 0 .. 255
    OBVIOUS
  <2>2. \A digit \in 0 .. 7 : Unary(\hF6, \hF7, digit) \in Patterns
    BY <2>1, SizedForms, ZenonT(30)
  <2>. QED
    BY <2>2 DEF NotPatterns
<1>4. ShlPatterns \in Patterns /\ ShrPatterns \in Patterns /\ SarPatterns \in Patterns
  BY <1>1, ShiftType DEF ShlPatterns, ShrPatterns, SarPatterns
<1>. QED
  BY <1>2, <1>3, <1>4 DEF Logic

LEMMA ComparisonTypes ==
  \A opcode \in DOMAIN Comparison : Comparison[opcode] \in Patterns
<1>. HIDE DEF Patterns
<1>1. \h38 \in 0 .. 250 /\ 7 \in 0 .. 7
  OBVIOUS
<1>2. CmpPatterns(\h38) \in Patterns
  BY <1>1, BinaryType DEF CmpPatterns
<1>. QED
  BY <1>2, TestType DEF Comparison

LEMMA ControlFlowTypes ==
  \A opcode \in DOMAIN ControlFlow : ControlFlow[opcode] \in Patterns
<1>. HIDE DEF Patterns
<1>1. ASSUME NEW short \in 0 .. 255, NEW near \in 0 .. 255
      PROVE  JccPatterns(short, near) \in Patterns
  <2>1. \h0F \in 0 .. 255
    OBVIOUS
  <2>2. <<\h0F, near>> \in Seq(0 .. 255)
    BY <2>1, ListTypes, Zenon
  <2>. QED
    BY <2>2, JumpTypes, PatternLists, Zenon DEF JccPatterns
<1>2. JccPatterns(\h74, \h84) \in Patterns /\ JccPatterns(\h75, \h85) \in Patterns
  <2>1. \h74 \in 0 .. 255 /\ \h84 \in 0 .. 255 /\ \h75 \in 0 .. 255 /\ \h85 \in 0 .. 255
    OBVIOUS
  <2>. QED
    BY <1>1, <2>1, Zenon
<1>3. 64 \in Known /\ 16 \in Known
  BY DEF Known
<1>4. rm(64, \hFF, 4) \in OpcodePattern /\ rm(64, \hFF, 2) \in OpcodePattern
  <2>1. \hFF \in 0 .. 255
    OBVIOUS
  <2>2. \A digit \in 0 .. 7 : rm(64, \hFF, digit) \in OpcodePattern
    BY <1>3, <2>1, FormTypes, Zenon
  <2>. QED
    BY <2>2
<1>5. <<\hE9>> \in Seq(0 .. 255) /\ <<\hE8>> \in Seq(0 .. 255)
      /\ <<\hC3>> \in Seq(0 .. 255) /\ <<\hC2>> \in Seq(0 .. 255)
  OBVIOUS
<1>6. JmpPatterns \in Patterns
  <2>1. \hEB \in 0 .. 255
    OBVIOUS
  <2>2. rel8(\hEB) \in OpcodePattern /\ rel32(<<\hE9>>) \in OpcodePattern
    BY <1>5, <2>1, JumpTypes, Zenon
  <2>. QED
    BY <1>4, <2>2, PatternLists DEF JmpPatterns
<1>7. CallPatterns \in Patterns
  BY <1>4, <1>5, JumpTypes, PatternLists, ZenonT(30) DEF CallPatterns
<1>8. RetPatterns \in Patterns
  <2>1. <<Imm(16)>> \in Seq(OperandConstraint)
    BY <1>3, ExtraTypes, ConstraintTypes, ListTypes, Zenon
  <2>2. Plain(<<>>, <<\hC3>>, "NONE") \in OpcodePattern
    BY <1>5, ListTypes, ExtraTypes, PatternTypes, Zenon
  <2>3. Plain(<<Imm(16)>>, <<\hC2>>, "IMM16") \in OpcodePattern
    BY <1>5, <2>1, ExtraTypes, PatternTypes, Zenon
  <2>. QED
    BY <2>2, <2>3, PatternLists DEF RetPatterns
<1>9. JccPatterns(\h7C, \h8C) \in Patterns /\ JccPatterns(\h7E, \h8E) \in Patterns
  <2>1. \h7C \in 0 .. 255 /\ \h8C \in 0 .. 255 /\ \h7E \in 0 .. 255 /\ \h8E \in 0 .. 255
    OBVIOUS
  <2>. QED
    BY <1>1, <2>1, Zenon
<1>10. JccPatterns(\h7F, \h8F) \in Patterns /\ JccPatterns(\h7D, \h8D) \in Patterns
  <2>1. \h7F \in 0 .. 255 /\ \h8F \in 0 .. 255 /\ \h7D \in 0 .. 255 /\ \h8D \in 0 .. 255
    OBVIOUS
  <2>. QED
    BY <1>1, <2>1, Zenon
<1>. QED
  BY <1>2, <1>6, <1>7, <1>8, <1>9, <1>10 DEF ControlFlow

LEMMA FrameTypes ==
  \A opcode \in DOMAIN FrameAndSystem : FrameAndSystem[opcode] \in Patterns
<1>. HIDE DEF Patterns
<1>2. /\ <<\hC8>> \in Seq(0 .. 255) /\ <<\hC9>> \in Seq(0 .. 255) /\ <<\h90>> \in Seq(0 .. 255)
      /\ <<\h0F, \h05>> \in Seq(0 .. 255)
  OBVIOUS
<1>3. <<Imm(16), Imm(8)>> \in Seq(OperandConstraint) /\ <<>> \in Seq(OperandConstraint)
  BY ExtraTypes, ConstraintTypes, ListTypes, Zenon DEF Known
<1>4. EnterPatterns \in Patterns
  BY <1>2, <1>3, ExtraTypes, PatternTypes, PatternLists, Zenon DEF EnterPatterns
<1>5. LeavePatterns \in Patterns
  BY <1>2, <1>3, ExtraTypes, PatternTypes, PatternLists, Zenon DEF LeavePatterns
<1>6. NopPatterns \in Patterns
  BY <1>2, <1>3, ExtraTypes, PatternTypes, PatternLists, Zenon DEF NopPatterns
<1>7. <<Plain(<<>>, <<\h0F, \h05>>, "NONE")>> \in Patterns
  BY <1>2, <1>3, ExtraTypes, PatternTypes, PatternLists, Zenon
<1>. QED
  BY <1>4, <1>5, <1>6, <1>7 DEF FrameAndSystem

\* The opcode table has patterns for every opcode.
LEMMA TableType == \A opcode \in Opcode : Table[opcode] \in Patterns
<1>. SUFFICES ASSUME NEW opcode \in Opcode PROVE Table[opcode] \in Patterns
  OBVIOUS
<1>. HIDE DEF Patterns
<1>1. opcode \in DOMAIN DataMovement \cup DOMAIN Arithmetic \cup DOMAIN Logic
                   \cup DOMAIN Comparison \cup DOMAIN ControlFlow \cup DOMAIN FrameAndSystem
  BY DEF Opcode, DataMovement, Arithmetic, Logic, Comparison, ControlFlow, FrameAndSystem
<1>. QED
  BY <1>1, DataMovementTypes, ArithmeticTypes, LogicTypes, ComparisonTypes, ControlFlowTypes,
     FrameTypes DEF Table

-----------------------------------------------------------------------------
(* The exit status *)

\* The exit status is there when the process has ended, and not before.
StatusOK ==
  /\ stage \in {"args", "lexer", "tokenize", "parser", "grouper", "resolver", "layout",
                "writer", "exit"}
  /\ status \in {"running", "EXIT_SUCCESS", "EXIT_FAILURE"}
  /\ (status = "running") = (stage # "exit")
  /\ file \in {"old", "truncated", "partial", "complete"}

LEMMA StatusStart == Init => StatusOK
BY DEF Init, Writer!InitProgress, StatusOK

LEMMA StatusStep == StatusOK /\ [Next]_vars => StatusOK'
<1>. SUFFICES ASSUME StatusOK, [Next]_vars PROVE StatusOK'
  OBVIOUS
<1>1. CASE \/ ReadSource \/ CheckLexer \/ Tokenize \/ TokenizeThrows \/ HandTokensOver
           \/ Parse \/ CheckParser \/ Group \/ CheckGrouper \/ Resolve \/ CheckResolver
           \/ AssignAddresses \/ CheckLayout
  BY <1>1 DEF ReadSource, CheckLexer, Tokenize, TokenizeThrows, HandTokensOver, Parse,
              CheckParser, Group, CheckGrouper, Resolve, CheckResolver, AssignAddresses,
              CheckLayout, Check, Throw, Continue, w, StatusOK
<1>2. CASE Write
  <2>1. UNCHANGED <<stage, status>> /\ file' \in {file, "truncated", "partial", "complete"}
    BY <1>2
       DEF Write, Writer!write, Writer!emitSection, Writer!NoEntryPoint, Writer!EmitHeaders,
           Writer!SkipSection, Writer!EnterSection, Writer!LeaveSection, Writer!EndImage,
           Writer!CannotOpen, Writer!OpenFile, Writer!WriteFile, Writer!EmitInstruction,
           Writer!EmitInstructionFailing, Writer!EmitData, Writer!EmitLabel, Writer!Emit
  <2>. QED
    BY <2>1 DEF StatusOK
<1>3. CASE CheckWriter
  BY <1>3 DEF CheckWriter, w, StatusOK
<1>4. CASE UNCHANGED vars
  BY <1>4 DEF vars, w, StatusOK
<1>. QED
  BY <1>1, <1>2, <1>3, <1>4 DEF Next, run, Exited

-----------------------------------------------------------------------------
(* The contract *)

\* How far the output file has got, and what that says about errors. The file is
\* touched by the writer alone, after it has seen that there are no errors; an
\* error of the encoder that the writer meets is an error of the writer too.
FileFollowsWriter ==
  /\ (status = "running") = (stage # "exit")
  /\ stage \notin {"writer", "exit"} => wPhase = "start" /\ file = "old" /\ ~wErrors
  /\ stage \in {"layout", "writer"} => (encoderFailed => wErrors)
  /\ stage = "writer" =>
       \/ wPhase \in {"start", "image", "section"} /\ file = "old"
       \/ wPhase = "open" /\ file = "old" /\ ~wErrors
       \/ wPhase = "write" /\ file = "truncated" /\ ~wErrors
       \/ wPhase = "done" /\ file \in {"complete", "partial"} /\ ~wErrors
       \/ wPhase = "failed" /\ file = "old" /\ wErrors

LEMMA FileInit == Init => FileFollowsWriter
BY DEF Init, Writer!InitProgress, FileFollowsWriter

\* A step before the writer's leaves the output file and the writer alone; it
\* ends the run with a failure, or goes on and hands a clean encoder to layout.
LEMMA EarlyStep ==
  ASSUME FileFollowsWriter, run, ~Write, ~CheckWriter
  PROVE  /\ stage \notin {"writer", "exit"}
         /\ UNCHANGED <<wPhase, wErrors, file>>
         /\ \/ UNCHANGED status /\ stage' # "exit"
            \/ status' = "EXIT_FAILURE" /\ stage' = "exit"
         /\ stage' \in {"layout", "writer"} => ~encoderFailed'
<1>1. CASE ReadSource \/ CheckLexer \/ Tokenize \/ TokenizeThrows \/ HandTokensOver
             \/ Parse \/ CheckParser \/ Group \/ CheckGrouper
  BY <1>1 DEF ReadSource, CheckLexer, Tokenize, TokenizeThrows, HandTokensOver,
              Parse, CheckParser, Group, CheckGrouper, Check, Throw, Continue, w
<1>2. CASE Resolve
  BY <1>2 DEF Resolve, w
<1>3. CASE CheckResolver
  BY <1>3 DEF CheckResolver, Check, Throw, Continue, w
<1>4. CASE AssignAddresses
  BY <1>4 DEF AssignAddresses, FileFollowsWriter, w
<1>5. CASE CheckLayout
  BY <1>5 DEF CheckLayout, Continue, FileFollowsWriter
<1>. QED
  BY <1>1, <1>2, <1>3, <1>4, <1>5 DEF run

\* What the writer's own steps do to the file: its phase tells how far it is.
LEMMA FileWriteStep ==
  ASSUME FileFollowsWriter, Write
  PROVE  /\ FileFollowsWriter'
         /\ \/ UNCHANGED <<status, file>>
            \/ Contract!OpenOutput
            \/ Contract!WriteOutput
            \/ Contract!LoseOutput
<1>1. stage = "writer" /\ UNCHANGED <<stage, status>> /\ status = "running"
  BY DEF Write, FileFollowsWriter
<1>2. CASE \/ Writer!NoEntryPoint \/ Writer!EmitHeaders \/ Writer!SkipSection
           \/ Writer!EnterSection \/ Writer!LeaveSection \/ Writer!EndImage
           \/ Writer!CannotOpen \/ Writer!OpenFile \/ Writer!WriteFile
  BY <1>1, <1>2
     DEF Writer!NoEntryPoint, Writer!EmitHeaders, Writer!SkipSection,
         Writer!EnterSection, Writer!LeaveSection, Writer!EndImage,
         Writer!CannotOpen, Writer!OpenFile, Writer!WriteFile,
         FileFollowsWriter, Contract!OpenOutput, Contract!WriteOutput, Contract!LoseOutput
<1>3. CASE \/ Writer!EmitInstruction \/ Writer!EmitInstructionFailing
           \/ Writer!EmitData \/ Writer!EmitLabel
  BY <1>1, <1>3
     DEF Writer!EmitInstruction, Writer!EmitInstructionFailing, Writer!EmitData,
         Writer!EmitLabel, Writer!Visiting, Writer!Emit, FileFollowsWriter
<1>. QED
  BY <1>2, <1>3 DEF Write, Writer!write, Writer!emitSection

LEMMA FileStep ==
  FileFollowsWriter /\ [Next]_vars =>
    FileFollowsWriter' /\ [Contract!Next]_(Contract!vars)
<1>. SUFFICES ASSUME FileFollowsWriter, [Next]_vars
              PROVE  FileFollowsWriter' /\ [Contract!Next]_(Contract!vars)
  OBVIOUS
<1>. USE DEF Contract!Next, Contract!vars
<1>1. CASE run /\ ~Write /\ ~CheckWriter
  <2>1. FileFollowsWriter'
    BY <1>1, EarlyStep DEF FileFollowsWriter
  <2>2. UNCHANGED file /\ (UNCHANGED status \/ Contract!Fail)
    BY <1>1, EarlyStep DEF FileFollowsWriter, Contract!Fail
  <2>. QED
    BY <2>1, <2>2
<1>2. CASE Write
  BY <1>2, FileWriteStep
<1>3. CASE CheckWriter
  <2>1. /\ stage = "writer" /\ stage' = "exit" /\ UNCHANGED file
        /\ wPhase \in {"done", "failed"}
        /\ status' = IF encoderFailed \/ wErrors THEN "EXIT_FAILURE" ELSE "EXIT_SUCCESS"
    BY <1>3 DEF CheckWriter, Writer!Returned, w
  <2>. QED
    BY <2>1 DEF FileFollowsWriter, Contract!Fail, Contract!Succeed, Contract!SucceedUnaware
<1>4. CASE UNCHANGED vars
  BY <1>4 DEF vars, w, FileFollowsWriter
<1>. QED
  BY <1>1, <1>2, <1>3, <1>4 DEF Next, Exited

\* Compiler implements AssemblerContract: whichever stage fails, and however
\* late, a run that fails leaves the output file as it was, and a run that
\* succeeds has opened it and handed the image to the file system.
THEOREM ImplementsContract == Spec => KeepsContract
<1>1. Init => Contract!Init
  BY DEF Init, Writer!InitProgress, Contract!Init
<1>. QED
  BY <1>1, FileInit, FileStep, PTL DEF Spec, KeepsContract, Contract!Spec

-----------------------------------------------------------------------------
(* The lexer, under the assumptions of Compiler *)

XP == INSTANCE LexerProofs WITH
  SourceTexts <- {}, code <- source, position <- xPosition, line <- xLine,
  lineStart <- xLineStart, tokens <- xTokens, errors <- xErrors,
  extents <- xExtents, status <- xStatus

LEMMA LexerAssumptions ==
  /\ Space \cup Letter \cup XP!HexDigit \subseteq Char
  /\ Space \cap (XP!Alnum \cup {XP!NL, XP!NUL, XP!Quote, XP!Backslash, ";", "_"}) = {}
  /\ XP!NUL \notin XP!Alnum
  /\ {XP!NL, "\t", XP!Quote, XP!Backslash, ","} \subseteq Char
  /\ DigitValue \in [XP!HexDigit -> 0 .. 15]
  /\ \A d \in XP!HexDigit : DigitValue[d] <= 9 <=> d \in XP!Digit
  /\ MaxLong \in Nat
  /\ {} \subseteq Seq(Char)
<1>1. /\ XP!HexDigit = Lexer!HexDigit /\ XP!Digit = Lexer!Digit /\ XP!Alnum = Lexer!Alnum
      /\ XP!NL = Lexer!NL /\ XP!NUL = Lexer!NUL /\ XP!Quote = Lexer!Quote
      /\ XP!Backslash = Lexer!Backslash
  BY DEF XP!HexDigit, Lexer!HexDigit, XP!Digit, Lexer!Digit, XP!Alnum, Lexer!Alnum, XP!NL,
         Lexer!NL, XP!NUL, Lexer!NUL, XP!Quote, Lexer!Quote, XP!Backslash, Lexer!Backslash
<1>. QED
  BY <1>1, CharAssumption, NumberAssumption, Zenon

LEMMA LexerStart == XP!Beginning => XP!IInv /\ XP!Delivered
BY LexerAssumptions, XP!Begins, XP!DeliveredStart, Zenon

LEMMA LexerStep ==
  XP!IInv /\ XP!Delivered /\ [XP!Next]_(XP!vars) => (XP!IInv /\ XP!Delivered)'
BY LexerAssumptions, XP!InvStep, XP!DeliveredStep, Zenon

-----------------------------------------------------------------------------
(* A stage of Compiler and the module of its proofs are two instances of the *)
(* same definitions: what the one does is what the other is proved about.    *)

LEMMA LexerPlaces ==
  /\ Lexer!Start = XP!Start
  /\ \A S, p : Lexer!EndOfRun(S, p) = XP!EndOfRun(S, p)
  /\ \A p : Lexer!peek(p) = XP!peek(p)
  /\ \A to : Lexer!SpanTo(to) = XP!SpanTo(to) /\ Lexer!LineAfter(to) = XP!LineAfter(to)
              /\ Lexer!Lexeme(to) = XP!Lexeme(to)
  /\ \A to : Lexer!Consume(to) <=> XP!Consume(to)
<1>1. \A p : Lexer!peek(p) = XP!peek(p)
  BY DEF Lexer!peek, XP!peek, Lexer!NUL, XP!NUL
<1>2. ASSUME NEW S, NEW p PROVE Lexer!EndOfRun(S, p) = XP!EndOfRun(S, p)
  BY DEF Lexer!EndOfRun, XP!EndOfRun, Lexer!peek, XP!peek, Lexer!NUL, XP!NUL
<1>3. Lexer!Start = XP!Start
  BY DEF Lexer!Start, XP!Start, Lexer!EndOfRun, XP!EndOfRun, Lexer!peek, XP!peek, Lexer!NUL,
         XP!NUL
<1>4. ASSUME NEW to
      PROVE  /\ Lexer!LineAfter(to) = XP!LineAfter(to)
             /\ Lexer!LineStartAfter(to) = XP!LineStartAfter(to)
  BY DEF Lexer!LineAfter, XP!LineAfter, Lexer!LineStartAfter, XP!LineStartAfter, Lexer!Newlines,
         XP!Newlines, Lexer!Cardinality, XP!Cardinality, Lexer!IsFiniteSet,
         XP!IsFiniteSet, Lexer!NL, XP!NL
<1>. QED
  BY <1>1, <1>2, <1>3, <1>4
     DEF Lexer!SpanTo, XP!SpanTo, Lexer!Lexeme, XP!Lexeme, Lexer!Consume, XP!Consume

LEMMA LexerNumbers ==
  /\ Lexer!EndOfNumber = XP!EndOfNumber /\ (Lexer!IsNumber <=> XP!IsNumber)
  /\ Lexer!ValueOfDigits = XP!ValueOfDigits
<1>1. (Lexer!IsHex <=> XP!IsHex) /\ Lexer!FirstDigit = XP!FirstDigit /\ Lexer!Base = XP!Base
      /\ (Lexer!HasDigits <=> XP!HasDigits) /\ Lexer!EndOfDigits = XP!EndOfDigits
  BY LexerPlaces
     DEF Lexer!IsHex, XP!IsHex, Lexer!FirstDigit, XP!FirstDigit, Lexer!Base, XP!Base,
         Lexer!HasDigits, XP!HasDigits, Lexer!EndOfDigits, XP!EndOfDigits,
         Lexer!HexDigit, XP!HexDigit, Lexer!Digit, XP!Digit
<1>2. Lexer!EndOfNumber = XP!EndOfNumber
  BY <1>1, LexerPlaces, Zenon
     DEF Lexer!EndOfNumber, XP!EndOfNumber
<1>3. Lexer!ValueOf = XP!ValueOf
  BY DEF Lexer!ValueOf, XP!ValueOf, Lexer!Base, XP!Base, Lexer!IsHex, XP!IsHex, Lexer!FirstDigit,
         XP!FirstDigit, Lexer!Start, XP!Start, Lexer!EndOfRun, XP!EndOfRun, Lexer!peek,
         XP!peek, Lexer!NUL, XP!NUL
<1>. QED
  BY <1>1, <1>2, <1>3
     DEF Lexer!IsNumber, XP!IsNumber, Lexer!ValueOfDigits, XP!ValueOfDigits

LEMMA LexerStrings == Lexer!StringFrom = XP!StringFrom
BY DEF Lexer!StringFrom, XP!StringFrom, Lexer!peek, XP!peek, Lexer!NUL, XP!NUL, Lexer!Quote,
         XP!Quote, Lexer!Backslash, XP!Backslash, Lexer!Escaped, XP!Escaped,
         Lexer!EscapeErrors, XP!EscapeErrors, Lexer!Escapes, XP!Escapes,
         Lexer!UnknownEscape, XP!UnknownEscape, Lexer!LineAfter, XP!LineAfter,
         Lexer!Newlines, XP!Newlines, Lexer!Cardinality, XP!Cardinality,
         Lexer!IsFiniteSet, XP!IsFiniteSet, Lexer!NL, XP!NL

LEMMA LexerActions == Lexer!tokenize => XP!Next
<1>1. ASSUME NEW type, NEW span, NEW to, NEW text, NEW value
      PROVE  Lexer!Push(type, span, to, text, value) => XP!Push(type, span, to, text, value)
  BY LexerPlaces
     DEF Lexer!Push, XP!Push
<1>2. ASSUME NEW type, NEW to PROVE Lexer!PushLexeme(type, to) => XP!PushLexeme(type, to)
  BY <1>1, LexerPlaces
     DEF Lexer!PushLexeme, XP!PushLexeme
<1>3. ASSUME NEW to PROVE Lexer!PushInvalid(to) => XP!PushInvalid(to)
  BY <1>1, LexerPlaces
     DEF Lexer!PushInvalid, XP!PushInvalid
<1>4. ASSUME NEW S PROVE Lexer!AtLexeme(S) => XP!AtLexeme(S)
  BY LexerPlaces
     DEF Lexer!AtLexeme, XP!AtLexeme
<1>5. Lexer!Alnum = XP!Alnum /\ Lexer!Digit = XP!Digit /\ Lexer!Punctuation = XP!Punctuation
      /\ Lexer!NL = XP!NL /\ Lexer!NUL = XP!NUL /\ Lexer!Quote = XP!Quote
  BY DEF Lexer!Alnum, XP!Alnum, Lexer!Digit, XP!Digit, Lexer!HexDigit, XP!HexDigit,
         Lexer!Punctuation, XP!Punctuation, Lexer!NL, XP!NL, Lexer!NUL, XP!NUL,
         Lexer!Quote, XP!Quote
<1>6. Lexer!Newline => XP!Newline
  BY <1>1, <1>4, <1>5, LexerPlaces
     DEF Lexer!Newline, XP!Newline
<1>7. Lexer!skipComment => XP!skipComment
  BY <1>4, <1>5, LexerPlaces, Zenon
     DEF Lexer!skipComment, XP!skipComment
<1>8. Lexer!readIdentifier => XP!readIdentifier
  BY <1>2, <1>4, <1>5, LexerPlaces, Zenon
     DEF Lexer!readIdentifier, XP!readIdentifier
<1>9. Lexer!readNumber => XP!readNumber
  BY <1>1, <1>4, <1>5, LexerPlaces, LexerNumbers
     DEF Lexer!readNumber, XP!readNumber
<1>10. Lexer!readInvalidNumber => XP!readInvalidNumber
  BY <1>3, <1>4, <1>5, LexerNumbers
     DEF Lexer!readInvalidNumber, XP!readInvalidNumber
<1>11. Lexer!NumberOutOfRange => XP!NumberOutOfRange
  BY <1>4, <1>5, LexerNumbers
     DEF Lexer!NumberOutOfRange, XP!NumberOutOfRange
<1>12. Lexer!readString => XP!readString
  BY <1>1, <1>4, <1>5, LexerPlaces, LexerStrings, Zenon
     DEF Lexer!readString, XP!readString
<1>13. Lexer!Punctuate => XP!Punctuate
  <2>. SUFFICES ASSUME Lexer!Punctuate PROVE XP!Punctuate
    OBVIOUS
  <2>. DEFINE type == XP!Punctuation[XP!peek(XP!Start)]
              text == IF XP!peek(XP!Start) = "." THEN <<",">> ELSE <<XP!peek(XP!Start)>>
  <2>1. /\ Lexer!AtLexeme(DOMAIN XP!Punctuation)
        /\ Lexer!Push(type, XP!SpanTo(XP!Start + 1), XP!Start + 1, text, 0)
        /\ UNCHANGED xErrors
    BY <1>5, LexerPlaces, Zenon DEF Lexer!Punctuate
  <2>2. /\ XP!AtLexeme(DOMAIN XP!Punctuation)
        /\ XP!Push(type, XP!SpanTo(XP!Start + 1), XP!Start + 1, text, 0)
    BY <1>1, <1>4, <2>1, Zenon
  <2>. QED
    BY <2>1, <2>2, Zenon DEF XP!Punctuate
<1>14. Lexer!UnknownSymbol => XP!UnknownSymbol
  <2>. DEFINE S == Char \ (DOMAIN XP!Punctuation
                             \cup XP!Alnum \cup {XP!NL, XP!Quote, ";", "_"})
  <2>1. Lexer!UnknownSymbol => Lexer!AtLexeme(S) /\ Lexer!PushInvalid(XP!Start + 1)
    BY <1>5, LexerPlaces, Zenon DEF Lexer!UnknownSymbol
  <2>. HIDE DEF S
  <2>2. Lexer!UnknownSymbol => XP!AtLexeme(S) /\ XP!PushInvalid(XP!Start + 1)
    BY <1>3, <1>4, <2>1, Zenon
  <2>. QED
    BY <2>2, Zenon DEF XP!UnknownSymbol, S
<1>15. Lexer!EndOfFile => XP!EndOfFile
  BY LexerPlaces, Zenon
     DEF Lexer!EndOfFile, XP!EndOfFile
<1>. QED
  BY <1>6, <1>7, <1>8, <1>9, <1>10, <1>11, <1>12, <1>13, <1>14, <1>15
     DEF Lexer!tokenize, XP!tokenize, XP!Next

-----------------------------------------------------------------------------
(* The parser, likewise *)

PP == INSTANCE ParserProofs WITH
  Inputs <- {}, currentToken <- pCurrent, program <- pProgram,
  extents <- pExtents, errors <- pErrors

LEMMA ParserAssumptions ==
  /\ DOMAIN Lowered \subseteq Name
  /\ Lowered \in [DOMAIN Lowered -> Name \ DOMAIN Lowered]
  /\ NoName \notin PP!Keyword
  /\ \A input \in {} : PP!IsInput(input)
<1>1. Keyword = PP!Keyword
  BY DEF Keyword, PP!Keyword, DataDirectiveTable, PP!DataDirectiveTable, SectionTable,
         PP!SectionTable, SizePrefixMap, PP!SizePrefixMap, RegisterTable, PP!RegisterTable,
         Opcode, PP!Opcode, Synonym, PP!Synonym
<1>. QED
  BY <1>1, KeywordAssumption, LoweredAssumption

LEMMA ParserStart == ASSUME PP!IsInput(tokens) PROVE PP!Parsing(1, <<>>, <<>>, <<>>)
BY ParserAssumptions, PP!Beginning, NameAssumption, WordAssumption, NumberAssumption

LEMMA ParserStep == PP!IInv /\ [PP!Next]_(PP!vars) => PP!IInv'
BY ParserAssumptions, PP!InvStep, NameAssumption, WordAssumption, NumberAssumption

LEMMA ParserTypes == PP!IInv => PP!TypeOK /\ PP!InvalidTokensAreReported
BY ParserAssumptions, PP!TypesInv, PP!InvalidInv, NameAssumption, WordAssumption,
   NumberAssumption

-----------------------------------------------------------------------------

LEMMA ParserTables ==
  /\ Parser!DataDirectiveTable = PP!DataDirectiveTable /\ Parser!SectionTable = PP!SectionTable
  /\ Parser!SizePrefixMap = PP!SizePrefixMap /\ Parser!RegisterTable = PP!RegisterTable
  /\ Parser!Opcode = PP!Opcode /\ Parser!Synonym = PP!Synonym /\ Parser!ANY = PP!ANY
  /\ Parser!DefineKind = PP!DefineKind /\ Parser!Nothing = PP!Nothing
  /\ Parser!NoOperand = PP!NoOperand /\ Parser!NoNode = PP!NoNode
  /\ Parser!Position = PP!Position
BY DEF Parser!DataDirectiveTable, PP!DataDirectiveTable, Parser!SectionTable, PP!SectionTable,
         Parser!SizePrefixMap, PP!SizePrefixMap, Parser!RegisterTable, PP!RegisterTable,
         Parser!Opcode, PP!Opcode, Parser!Synonym, PP!Synonym, Parser!ANY, PP!ANY,
         Parser!DefineKind, PP!DefineKind, Parser!Nothing, PP!Nothing, Parser!NoOperand,
         PP!NoOperand, Parser!NoNode, PP!NoNode, Parser!Position, PP!Position

LEMMA ParserWords ==
  /\ \A p : Parser!Place(p) = PP!Place(p) /\ Parser!peek(p) = PP!peek(p)
  /\ \A p : Parser!Advance(p) = PP!Advance(p) /\ Parser!Key(p) = PP!Key(p)
  /\ \A type, p : Parser!match(type, p) <=> PP!match(type, p)
  /\ \A p : Parser!tokenIsRegister(p) <=> PP!tokenIsRegister(p)
BY DEF Parser!Place, PP!Place, Parser!peek, PP!peek, Parser!Advance, PP!Advance, Parser!match,
         PP!match, Parser!Key, PP!Key, Parser!stringToLower, PP!stringToLower,
         Parser!tokenIsRegister, PP!tokenIsRegister, Parser!Register, PP!Register,
         Parser!RegisterTable, PP!RegisterTable

LEMMA ParserLines ==
  /\ \A p : Parser!endOfFile(p) <=> PP!endOfFile(p)
  /\ \A p : Parser!NextLine(p) = PP!NextLine(p)
<1>1. ASSUME NEW p PROVE Parser!EndOfLine(p) = PP!EndOfLine(p)
  BY DEF Parser!EndOfLine, PP!EndOfLine, Parser!endOfFile, PP!endOfFile, Parser!match, PP!match,
         Parser!peek, PP!peek, Parser!Place, PP!Place
<1>2. ASSUME NEW p PROVE Parser!NextLine(p) = PP!NextLine(p)
  BY <1>1, ParserWords
     DEF Parser!NextLine, PP!NextLine
<1>3. ASSUME NEW p PROVE Parser!endOfFile(p) <=> PP!endOfFile(p)
  BY ParserWords DEF Parser!endOfFile, PP!endOfFile
<1>. QED
  BY <1>2, <1>3

LEMMA ParserExpressions == Parser!parseExpression = PP!parseExpression
BY Zenon
   DEF Parser!parseExpression, PP!parseExpression, Parser!Reading, PP!Reading, Parser!Node,
         PP!Node, Parser!SignedTerm, PP!SignedTerm, Parser!Term, PP!Term, Parser!NoNode,
         PP!NoNode, Parser!OperandSize, PP!OperandSize, Parser!ANY, PP!ANY,
         Parser!Position, PP!Position, Parser!Power, PP!Power, Parser!bindingPower,
         PP!bindingPower, Parser!Begin, PP!Begin, Parser!flattenAST, PP!flattenAST,
         Parser!Negated, PP!Negated, Parser!Leaf, PP!Leaf, Parser!Product, PP!Product,
         Parser!IsLeaf, PP!IsLeaf, Parser!LeafAt, PP!LeafAt, Parser!UnaryPower,
         PP!UnaryPower, Parser!Place, PP!Place, Parser!peek, PP!peek, Parser!Advance,
         PP!Advance, Parser!match, PP!match, Parser!Key, PP!Key, Parser!stringToLower,
         PP!stringToLower, Parser!tokenIsRegister, PP!tokenIsRegister, Parser!Register,
         PP!Register, Parser!RegisterTable, PP!RegisterTable

LEMMA ParserBrackets == Parser!Close = PP!Close
BY Zenon
   DEF Parser!Close, PP!Close, Parser!Bracketed, PP!Bracketed, Parser!Reading, PP!Reading,
         Parser!Node, PP!Node, Parser!SignedTerm, PP!SignedTerm, Parser!Term, PP!Term,
         Parser!NoNode, PP!NoNode, Parser!OperandSize, PP!OperandSize, Parser!ANY,
         PP!ANY, Parser!Position, PP!Position, Parser!Combine, PP!Combine,
         Parser!AddTerm, PP!AddTerm, Parser!NoTerms, PP!NoTerms, Parser!SetIndex,
         PP!SetIndex, Parser!ToInt, PP!ToInt, Parser!NoOperand, PP!NoOperand,
         Parser!match, PP!match, Parser!peek, PP!peek, Parser!Place, PP!Place,
         Parser!Register, PP!Register, Parser!RegisterTable, PP!RegisterTable

LEMMA ParserOperands ==
  /\ \A p : Parser!parseOperand(p) = PP!parseOperand(p)
  /\ \A p : Parser!Identifier(p) <=> PP!Identifier(p)
  /\ \A p : Parser!isImmediate(p) <=> PP!isImmediate(p)
  /\ \A p : Parser!SignedInteger(p) = PP!SignedInteger(p)
  /\ \A at, token : Parser!Fail(at, token) = PP!Fail(at, token)
  /\ \A value, at : Parser!Accept(value, at) = PP!Accept(value, at)
<1>1. /\ \A p : Parser!isImmediate(p) <=> PP!isImmediate(p)
      /\ \A p : Parser!SignedInteger(p) = PP!SignedInteger(p)
      /\ \A p : Parser!Identifier(p) <=> PP!Identifier(p)
      /\ \A at, token : Parser!Fail(at, token) = PP!Fail(at, token)
      /\ \A value, at : Parser!Accept(value, at) = PP!Accept(value, at)
  BY ParserWords, ParserTables
     DEF Parser!isImmediate, PP!isImmediate, Parser!SignedInteger, PP!SignedInteger,
         Parser!Identifier, PP!Identifier, Parser!Fail, PP!Fail, Parser!Accept,
         PP!Accept
<1>2. ASSUME NEW p PROVE Parser!parseMemoryOperand(p) = PP!parseMemoryOperand(p)
  <2>1. \A q : Parser!HasSizePrefix(q) <=> PP!HasSizePrefix(q)
    BY ParserWords, ParserTables DEF Parser!HasSizePrefix, PP!HasSizePrefix
  <2>2. \A q : Parser!ExpressionAt(q) = PP!ExpressionAt(q)
    BY ParserExpressions, ParserTables DEF Parser!ExpressionAt, PP!ExpressionAt
  <2>3. (CHOOSE b \in p .. p + 2 : Parser!match("LBRACKET", b)
                                   /\ \A q \in p .. b - 1 : ~Parser!match("LBRACKET", q))
          = CHOOSE b \in p .. p + 2 : PP!match("LBRACKET", b)
                                      /\ \A q \in p .. b - 1 : ~PP!match("LBRACKET", q)
    BY Zenon DEF Parser!match, PP!match, Parser!peek, PP!peek, Parser!Place, PP!Place
  <2>. QED
    BY <2>1, <2>2, <2>3, ParserWords, ParserTables, ParserBrackets, Zenon
       DEF Parser!parseMemoryOperand, PP!parseMemoryOperand
<1>3. ASSUME NEW p PROVE Parser!isMemoryOperand(p) <=> PP!isMemoryOperand(p)
  BY ParserWords, ParserTables
     DEF Parser!isMemoryOperand, PP!isMemoryOperand, Parser!HasSizePrefix, PP!HasSizePrefix
<1>4. ASSUME NEW p PROVE Parser!parseOperand(p) = PP!parseOperand(p)
  BY <1>1, <1>2, <1>3, ParserWords, ParserTables DEF Parser!parseOperand, PP!parseOperand
<1>. QED
  BY <1>1, <1>4

LEMMA ParserValueLists == Parser!Values = PP!Values
<1>1. /\ \A p : Parser!BeginsValue(p) <=> PP!BeginsValue(p)
      /\ \A p : Parser!ValueAt(p) = PP!ValueAt(p)
  BY ParserWords, ParserOperands
     DEF Parser!BeginsValue, PP!BeginsValue, Parser!IsString, PP!IsString, Parser!ValueAt,
         PP!ValueAt
<1>2. Parser!Position = PP!Position /\ \A type, p : Parser!match(type, p) <=> PP!match(type, p)
  BY ParserWords, ParserTables
<1>. QED
  BY <1>1, <1>2, ZenonT(40) DEF Parser!Values, PP!Values

LEMMA ParserOperandLists == Parser!Operands = PP!Operands
<1>1. /\ \A p : Parser!parseOperand(p) = PP!parseOperand(p)
      /\ \A operand, ok : Parser!End(operand, ok) = PP!End(operand, ok)
  BY ParserOperands DEF Parser!End, PP!End
<1>2. /\ Parser!Position = PP!Position /\ Parser!Nothing = PP!Nothing
      /\ \A p : Parser!Place(p) = PP!Place(p)
      /\ \A type, p : Parser!match(type, p) <=> PP!match(type, p)
  BY ParserWords, ParserTables
<1>. QED
  BY <1>1, <1>2, ZenonT(100) DEF Parser!Operands, PP!Operands

LEMMA ParserStatements ==
  /\ \A p : Parser!parseDataDirective(p) = PP!parseDataDirective(p)
  /\ \A p : Parser!parseSectionDirective(p) = PP!parseSectionDirective(p)
  /\ \A p : Parser!parseEquDirective(p) = PP!parseEquDirective(p)
  /\ \A p : Parser!parseGlobalDirective(p) = PP!parseGlobalDirective(p)
  /\ \A p : Parser!parseLabelDeclaration(p) = PP!parseLabelDeclaration(p)
  /\ \A p : Parser!parseInstruction(p) = PP!parseInstruction(p)
<1>1. ASSUME NEW p PROVE Parser!parseDataDirective(p) = PP!parseDataDirective(p)
  <2>1. \A out, d : Parser!ParseValues(out, d) = PP!ParseValues(out, d)
    BY ParserWords, ParserOperands, ParserValueLists
       DEF Parser!ParseValues, PP!ParseValues, Parser!BeginsValue, PP!BeginsValue,
           Parser!IsString, PP!IsString
  <2>2. \A out, d : Parser!ParseCount(out, d) = PP!ParseCount(out, d)
    BY ParserWords, ParserOperands DEF Parser!ParseCount, PP!ParseCount
  <2>3. /\ \A q : Parser!tokenIsDataDirective(q) <=> PP!tokenIsDataDirective(q)
        /\ \A q : Parser!BeginsData(q) <=> PP!BeginsData(q)
    BY ParserWords, ParserTables
       DEF Parser!tokenIsDataDirective, PP!tokenIsDataDirective, Parser!BeginsData,
           PP!BeginsData
  <2>. QED
    BY <2>1, <2>2, <2>3, ParserWords, ParserTables, ParserOperands
       DEF Parser!parseDataDirective, PP!parseDataDirective
<1>2. ASSUME NEW p PROVE Parser!parseSectionDirective(p) = PP!parseSectionDirective(p)
  BY ParserWords, ParserTables, ParserOperands
     DEF Parser!parseSectionDirective, PP!parseSectionDirective
<1>3. ASSUME NEW p PROVE Parser!parseEquDirective(p) = PP!parseEquDirective(p)
  BY ParserWords, ParserOperands DEF Parser!parseEquDirective, PP!parseEquDirective
<1>4. ASSUME NEW p PROVE Parser!parseGlobalDirective(p) = PP!parseGlobalDirective(p)
  BY ParserWords, ParserOperands DEF Parser!parseGlobalDirective, PP!parseGlobalDirective
<1>5. ASSUME NEW p PROVE Parser!parseLabelDeclaration(p) = PP!parseLabelDeclaration(p)
  BY ParserWords, ParserOperands DEF Parser!parseLabelDeclaration, PP!parseLabelDeclaration
<1>6. ASSUME NEW p PROVE Parser!parseInstruction(p) = PP!parseInstruction(p)
  <2>1. \A key : Parser!parseMnemonic(key) = PP!parseMnemonic(key)
    BY ParserTables DEF Parser!parseMnemonic, PP!parseMnemonic
  <2>. QED
    BY <2>1, ParserWords, ParserTables, ParserOperandLists
       DEF Parser!parseInstruction, PP!parseInstruction
<1>. QED
  BY <1>1, <1>2, <1>3, <1>4, <1>5, <1>6

LEMMA ParserActions == Parser!parse => PP!Next
<1>1. \A result : Parser!Take(result) => PP!Take(result)
  BY ParserWords, ParserTables, ParserLines
     DEF Parser!Take, PP!Take, Parser!Emit, PP!Emit, Parser!Here, PP!Here
<1>2. \A result : Parser!Emit(result) => PP!Emit(result)
  BY ParserTables DEF Parser!Emit, PP!Emit, Parser!Here, PP!Here
<1>3. /\ \A p : Parser!isDataDirective(p) <=> PP!isDataDirective(p)
      /\ \A p : Parser!isLabelDeclaration(p) <=> PP!isLabelDeclaration(p)
      /\ \A p : Parser!isGlobalDirective(p) <=> PP!isGlobalDirective(p)
      /\ \A p : Parser!isSectionDirective(p) <=> PP!isSectionDirective(p)
      /\ \A p : Parser!isEquDirection(p) <=> PP!isEquDirection(p)
      /\ \A p : Parser!isInstruction(p) <=> PP!isInstruction(p)
  BY ParserWords, ParserTables, ParserOperands
     DEF Parser!isDataDirective, PP!isDataDirective, Parser!BeginsData, PP!BeginsData,
         Parser!tokenIsDataDirective, PP!tokenIsDataDirective,
         Parser!isLabelDeclaration, PP!isLabelDeclaration, Parser!isGlobalDirective,
         PP!isGlobalDirective, Parser!isSectionDirective, PP!isSectionDirective,
         Parser!isEquDirection, PP!isEquDirection, Parser!isInstruction,
         PP!isInstruction, Parser!IsMnemonic, PP!IsMnemonic
<1>4. Parser!Here = PP!Here /\ (Parser!AtStatement <=> PP!AtStatement)
  BY ParserWords, ParserLines DEF Parser!Here, PP!Here, Parser!AtStatement, PP!AtStatement
<1>5. (Parser!Unlabelled <=> PP!Unlabelled) /\ (Parser!NotNamed <=> PP!NotNamed)
  BY <1>3, <1>4 DEF Parser!Unlabelled, PP!Unlabelled, Parser!NotNamed, PP!NotNamed
<1>6. Parser!SkipNewline => PP!SkipNewline
  BY <1>4, ParserWords DEF Parser!SkipNewline, PP!SkipNewline
<1>7. /\ Parser!ParseData => PP!ParseData
      /\ Parser!ParseGlobal => PP!ParseGlobal
      /\ Parser!ParseSection => PP!ParseSection
      /\ Parser!ParseEqu => PP!ParseEqu
      /\ Parser!ParseInstruction => PP!ParseInstruction
  BY <1>1, <1>3, <1>4, <1>5, ParserStatements
     DEF Parser!ParseData, PP!ParseData, Parser!ParseGlobal, PP!ParseGlobal, Parser!ParseSection,
         PP!ParseSection, Parser!ParseEqu, PP!ParseEqu, Parser!ParseInstruction,
         PP!ParseInstruction
<1>8. Parser!ParseLabel => PP!ParseLabel
  BY <1>2, <1>3, <1>4, ParserStatements DEF Parser!ParseLabel, PP!ParseLabel
<1>9. Parser!Unexpected => PP!Unexpected
  BY <1>3, <1>4, <1>5, ParserLines DEF Parser!Unexpected, PP!Unexpected
<1>. QED
  BY <1>6, <1>7, <1>8, <1>9 DEF Parser!parse, PP!parse, PP!Next

LEMMA ParserEnds == Parser!Parsed => PP!Parsed
BY ParserLines DEF Parser!Parsed, PP!Parsed, Parser!Here, PP!Here

-----------------------------------------------------------------------------
(* What the back end sees of an instruction *)

LEMMA MinFacts ==
  ASSUME NEW K \in SUBSET Nat, K # {}
  PROVE  Min(K) \in K
<1>1. \E m \in K : \A n \in K : m <= n
  BY LexerAssumptions, XP!LeastElement, Zenon
<1>. QED
  BY <1>1, Zenon DEF Min

LEMMA MaxFacts ==
  ASSUME NEW n \in Nat, NEW K \in SUBSET (1 .. n), K # {}
  PROVE  Max(K) \in K
<1>1. {n - k : k \in K} \in SUBSET Nat /\ {n - k : k \in K} # {}
  <2>1. \A k \in K : n - k \in Nat
    OBVIOUS
  <2>. QED
    BY <2>1, Zenon
<1>2. PICK m \in {n - k : k \in K} : \A x \in {n - k : k \in K} : m <= x
  BY <1>1, LexerAssumptions, XP!LeastElement, Zenon
<1>3. PICK k \in K : m = n - k
  OBVIOUS
<1>4. \A j \in K : k >= j
  <2>1. \A j \in K : n - k <= n - j
    BY <1>2, <1>3, Zenon
  <2>. QED
    BY <2>1
<1>. QED
  BY <1>4, Zenon DEF Max

LEMMA MemberOf ==
  ASSUME NEW S, NEW s \in Seq(S), NEW k \in DOMAIN s
  PROVE  s[k] \in S
OBVIOUS

LEMMA OperandForFacts ==
  ASSUME NEW i \in ParsedInstruction, NEW pattern \in OpcodePattern,
         Len(pattern.operands) = Len(i.operands), NEW Kinds
  PROVE  LET o == OperandFor(i, pattern, Kinds)
         IN  o = <<>> \/ (o # <<>> /\ o[1] \in Operand)
<1>1. /\ i.operands \in Seq(Operand) /\ pattern.operands \in Seq(OperandConstraint)
  BY DEF ParsedInstruction, OpcodePattern
<1>. DEFINE places == {k \in DOMAIN pattern.operands : pattern.operands[k].allowed \in Kinds}
<1>2. CASE places # {}
  <2>1. DOMAIN pattern.operands = 1 .. Len(i.operands) /\ Len(i.operands) \in Nat
    BY <1>1
  <2>2. Max(places) \in places
    BY <1>2, <2>1, MaxFacts, Zenon
  <2>3. i.operands[Max(places)] \in Operand
    <3>1. Max(places) \in DOMAIN pattern.operands
      BY <2>2, Zenon
    <3>2. DOMAIN i.operands = DOMAIN pattern.operands
      BY <1>1, <2>1
    <3>. QED
      BY <1>1, <3>1, <3>2, MemberOf, Zenon
  <2>4. OperandFor(i, pattern, Kinds) = <<i.operands[Max(places)]>>
    BY <1>2 DEF OperandFor
  <2>. QED
    BY <2>3, <2>4
<1>3. CASE places = {}
  BY <1>3 DEF OperandFor
<1>. QED
  BY <1>2, <1>3

\* The pattern taken has as many operands as the instruction.
LEMMA FirstMatchFacts ==
  ASSUME NEW i \in ParsedInstruction, Matching(i) # {}
  PROVE  /\ FirstMatch(i) \in OpcodePattern
         /\ Len(FirstMatch(i).operands) = Len(i.operands)
<1>1. i.opcode \in Opcode
  BY DEF ParsedInstruction
<1>2. Table[i.opcode] \in Seq(OpcodePattern)
  BY <1>1, TableType DEF Patterns
<1>3. Matching(i) \in SUBSET Nat /\ Matching(i) \subseteq DOMAIN Table[i.opcode]
  BY <1>2 DEF Matching
<1>4. Min(Matching(i)) \in Matching(i)
  BY <1>3, MinFacts
<1>5. FirstMatch(i) \in OpcodePattern
  BY <1>2, <1>3, <1>4 DEF FirstMatch
<1>6. Len(FirstMatch(i).operands) = Len(i.operands)
  BY <1>4, Zenon DEF FirstMatch, Matching
<1>. QED
  BY <1>5, <1>6

LEMMA MemoryFacts ==
  ASSUME NEW i \in ParsedInstruction, NEW pattern \in OpcodePattern,
         Len(pattern.operands) = Len(i.operands), Memory(i, pattern) # <<>>
  PROVE  Memory(i, pattern)[1].mem \in MemoryOperand
<1>1. /\ RMOperand(i, pattern) # <<>> /\ IsA(RMOperand(i, pattern)[1], "MEM")
      /\ Memory(i, pattern) = RMOperand(i, pattern)
  BY DEF Memory
<1>2. RMOperand(i, pattern)[1] \in Operand
  BY <1>1, OperandForFacts DEF RMOperand
<1>. QED
  BY <1>1, <1>2 DEF Operand, IsA

LEMMA ExtraFacts ==
  ASSUME NEW i \in ParsedInstruction, ExtraOperand(i) # <<>>
  PROVE  TargetOf(ExtraOperand(i)[1]) \in OptionalName /\ ValueOf(ExtraOperand(i)[1]) \in Int
<1>. DEFINE places ==
              {k \in DOMAIN i.operands : \/ IsA(i.operands[k], "IMM")
                                         \/ IsA(i.operands[k], "LABEL")}
<1>1. i.operands \in Seq(Operand)
  BY DEF ParsedInstruction
<1>2. places # {} /\ places \in SUBSET Nat
  BY <1>1 DEF ExtraOperand
<1>3. Min(places) \in places
  BY <1>2, MinFacts, Zenon
<1>. PICK o : o = i.operands[Min(places)]
  BY Zenon
<1>4. o \in Operand
  <2>1. Min(places) \in DOMAIN i.operands
    BY <1>3, Zenon
  <2>2. i.operands[Min(places)] \in Operand
    BY <1>1, <2>1, MemberOf, Zenon
  <2>. QED
    BY <2>2
<1>5. ExtraOperand(i) = <<o>>
  BY <1>2 DEF ExtraOperand
<1>6. TargetOf(o) \in OptionalName /\ ValueOf(o) \in Int
  BY <1>4 DEF TargetOf, ValueOf, IsA, Operand, OptionalName
<1>. QED
  BY <1>5, <1>6

LEMMA HeadLengthType ==
  ASSUME NEW i \in ParsedInstruction, NEW pattern \in OpcodePattern
  PROVE  HeadLength(i, pattern) \in Nat
<1>1. Len(pattern.baseBytes) \in Nat
  <2>1. pattern.baseBytes \in Seq(0 .. 255)
    BY DEF OpcodePattern
  <2>. QED
    BY <2>1
<1>2. Len(PrefixBytes(i)) \in Nat
  <2>1. PrefixBytes(i) \in Seq(Int)
    BY DEF PrefixBytes
  <2>. QED
    BY <2>1
<1>. PICK memory, x : memory = Memory(i, pattern) /\ x = RMOperand(i, pattern)
  OBVIOUS
<1>3. HeadLength(i, pattern) = Len(PrefixBytes(i)) + Len(pattern.baseBytes)
        + (IF pattern.hasModRM /\ x # <<>> THEN 1 ELSE 0)
        + (IF memory # <<>> /\ memory[1].mem.index # NoName THEN 1 ELSE 0)
  BY DEF HeadLength
<1>. DEFINE a == Len(PrefixBytes(i))
            b == Len(pattern.baseBytes)
            c == IF pattern.hasModRM /\ x # <<>> THEN 1 ELSE 0
            d == IF memory # <<>> /\ memory[1].mem.index # NoName THEN 1 ELSE 0
<1>4. c \in Nat /\ d \in Nat
  <2>1. 0 \in Nat /\ 1 \in Nat
    OBVIOUS
  <2>. QED
    BY <2>1, Zenon
<1>5. HeadLength(i, pattern) = a + b + c + d
  BY <1>3, Zenon
<1>. HIDE DEF a, b, c, d
<1>6. a \in Nat /\ b \in Nat
  BY <1>1, <1>2 DEF a, b
<1>. QED
  BY <1>4, <1>5, <1>6

\* Every instruction the parser builds is one the back end is made for.
LEMMA ViewType ==
  ASSUME NEW i \in ParsedInstruction
  PROVE  view(i) \in Instruction
<1>1. CASE Matching(i) = {}
  <2>1. Unmatched \in Instruction
    <3>1. <<>> \in Seq(SymbolTerm)
      OBVIOUS
    <3>. QED
      BY <3>1 DEF Unmatched, Instruction, ExtraEncoding, OptionalName
  <2>. QED
    BY <1>1, <2>1 DEF view
<1>2. CASE Matching(i) # {}
  <2>. PICK pattern : pattern = FirstMatch(i)
    OBVIOUS
  <2>1. pattern \in OpcodePattern /\ Len(pattern.operands) = Len(i.operands)
    BY <1>2, FirstMatchFacts
  <2>. PICK memory, extra : memory = Memory(i, pattern) /\ extra = ExtraOperand(i)
    OBVIOUS
  <2>. PICK head, disp, terms, ext, target, imm :
         /\ head = HeadLength(i, pattern)
         /\ disp = IF memory = <<>> THEN 0 ELSE memory[1].mem.displacement
         /\ terms = IF memory = <<>> THEN <<>> ELSE memory[1].mem.symbols
         /\ ext = IF extra = <<>> THEN "NONE" ELSE pattern.extra
         /\ target = IF extra = <<>> THEN NoName ELSE TargetOf(extra[1])
         /\ imm = IF extra = <<>> THEN 0 ELSE ValueOf(extra[1])
    OBVIOUS
  <2>2. head \in Nat
    BY <2>1, HeadLengthType
  <2>3. disp \in Int /\ terms \in Seq(SymbolTerm)
    <3>1. memory # <<>> => memory[1].mem \in MemoryOperand
      BY <2>1, MemoryFacts
    <3>. QED
      BY <3>1 DEF MemoryOperand
  <2>4. ext \in ExtraEncoding
    BY <2>1 DEF OpcodePattern, ExtraEncoding
  <2>5. target \in OptionalName /\ imm \in Int
    <3>1. extra # <<>> => TargetOf(extra[1]) \in OptionalName /\ ValueOf(extra[1]) \in Int
      BY ExtraFacts
    <3>. QED
      BY <3>1 DEF OptionalName
  <2>6. view(i) = [kind |-> "INSTR", match |-> TRUE, head |-> head, disp |-> disp, terms |-> terms,
                   extra |-> ext, target |-> target, imm |-> imm]
    BY <1>2 DEF view, MatchedView
  <2>. QED
    BY <2>2, <2>3, <2>4, <2>5, <2>6 DEF Instruction
<1>. QED
  BY <1>1, <1>2

-----------------------------------------------------------------------------
(* From the characters of the source to the statements *)

FrontStages == {"args", "lexer", "tokenize", "parser"}

\* The parser has not begun.
ParserIdle ==
  tokens = <<>> /\ pCurrent = 1 /\ pProgram = <<>> /\ pExtents = <<>> /\ pErrors = <<>>

\* The parser has the tokens of the lexer.
HandedOver ==
  DOMAIN tokens = DOMAIN xTokens /\ \A i \in DOMAIN xTokens : tokens[i].type = xTokens[i].type

\* The lexer and the parser are in states that satisfy their invariants, and what
\* the parser has let pass is free of lexical errors.
SourceRead ==
  /\ source \in Sources
  /\ XP!IInv /\ XP!Delivered
  /\ stage \in FrontStages \ {"parser"} => ParserIdle
  /\ stage = "parser" => PP!IInv /\ HandedOver
  /\ stage \in FrontStages => flat = <<>>
  /\ WellFormed
  /\ stage \notin FrontStages \cup {"exit"} \/ status = "EXIT_SUCCESS" => SourceIsLexed

LEMMA NothingIsWellFormed == ASSUME flat = <<>> PROVE WellFormed
<1>1. <<>> \in Seq(Statement) /\ DOMAIN <<>> = {}
  OBVIOUS
<1>. QED
  BY <1>1 DEF WellFormed

LEMMA SourceStart == Init => SourceRead
<1>. SUFFICES ASSUME Init PROVE SourceRead
  OBVIOUS
<1>1. source \in Sources /\ stage = "args" /\ status = "running" /\ flat = <<>>
  BY DEF Init
<1>2. source \in Seq(Char)
  BY <1>1, SourceAssumption, Zenon
<1>3. XP!Beginning
  BY <1>2 DEF Init, XP!Beginning
<1>4. ParserIdle
  BY DEF Init, ParserIdle
<1>. QED
  BY <1>1, <1>3, <1>4, LexerStart, NothingIsWellFormed DEF SourceRead, FrontStages

\* What the lexer delivers is what the parser is made for: the spellings of its
\* identifiers are names.
LEMMA IdentifiersAreNames ==
  ASSUME source \in Sources, NEW text, XP!IsIdentifier(text, source)
  PROVE  Joined(text) \in Name
<1>1. PICK p, q \in DOMAIN source :
        /\ p <= q
        /\ text = SubSeq(source, p, q)
        /\ source[p] \in Letter \cup {"_"}
        /\ \A x \in p .. q : source[x] \in Lexer!Alnum \cup {"_"}
  BY Zenon
     DEF XP!IsIdentifier, XP!WordChar, XP!Alnum, Lexer!Alnum, XP!Digit, Lexer!Digit,
         XP!HexDigit, Lexer!HexDigit
<1>. QED
  BY <1>1, SourceAssumption, Zenon

LEMMA HandedTokens ==
  ASSUME source \in Sources, XP!IInv, XP!Delivered, NEW i \in DOMAIN xTokens
  PROVE  /\ ParserToken(xTokens[i]) \in PP!Token
         /\ ParserToken(xTokens[i]).type = xTokens[i].type
<1>. PICK token : token = xTokens[i]
  OBVIOUS
<1>1. token \in XP!Token
  BY DEF XP!IInv, XP!TypeOK
<1>2. token.type \in PP!TokenType
  <2>1. XP!TokenType \subseteq PP!TokenType
    BY DEF XP!TokenType, XP!Punctuation, PP!TokenType
  <2>. QED
    BY <1>1, <2>1 DEF XP!Token
<1>3. token.value \in Nat /\ Len(token.text) \in Nat
  BY <1>1, NumberAssumption DEF XP!Token
<1>4. token.type = "IDENTIFIER" => Joined(token.text) \in Name
  BY IdentifiersAreNames DEF XP!Delivered
<1>. PICK word, value :
       /\ word = IF token.type = "IDENTIFIER" THEN Joined(token.text) ELSE NoName
       /\ value = IF token.type = "NUMBER" THEN token.value ELSE Len(token.text)
  BY Zenon
<1>5. ParserToken(token) = [type |-> token.type, word |-> word, value |-> value]
  BY DEF ParserToken
<1>6. value \in Nat
  BY <1>3
<1>7. CASE token.type = "IDENTIFIER"
  <2>1. word \in Name
    BY <1>4, <1>7
  <2>. QED
    BY <1>5, <1>6, <1>7, <2>1 DEF PP!Token
<1>8. CASE token.type # "IDENTIFIER"
  <2>1. word = NoName
    BY <1>8
  <2>. QED
    BY <1>2, <1>5, <1>6, <1>8, <2>1 DEF PP!Token
<1>. QED
  BY <1>7, <1>8

LEMMA HandOver ==
  ASSUME source \in Sources, XP!IInv, XP!Delivered, xStatus = "done",
         NEW handed, handed = [i \in DOMAIN xTokens |-> ParserToken(xTokens[i])]
  PROVE  /\ PP!IsInput(handed)
         /\ DOMAIN handed = DOMAIN xTokens
         /\ \A i \in DOMAIN xTokens : handed[i].type = xTokens[i].type
<1>1. xTokens \in Seq(XP!Token)
  BY DEF XP!IInv, XP!TypeOK
<1>2. PICK n \in Nat : n = Len(xTokens)
  BY <1>1
<1>3. DOMAIN xTokens = 1 .. n
  BY <1>1, <1>2
<1>4. \A i \in 1 .. n : handed[i] \in PP!Token /\ handed[i].type = xTokens[i].type
  BY <1>3, HandedTokens
<1>5. DOMAIN handed = 1 .. n
  BY <1>3
<1>6. handed \in [1 .. n -> PP!Token]
  BY <1>3, HandedTokens, Zenon
<1>7. handed \in Seq(PP!Token) /\ Len(handed) = n
  BY <1>5, <1>6
<1>8. n # 0
  BY <1>1, <1>2 DEF XP!Delivered
<1>9. \A t \in 1 .. n : handed[t].type = "END_OF_FILE" <=> t = n
  BY <1>2, <1>3, <1>4 DEF XP!Delivered
<1>10. handed # <<>>
  BY <1>7, <1>8
<1>11. PP!IsInput(handed)
  BY <1>5, <1>7, <1>9, <1>10 DEF PP!IsInput
<1>. QED
  BY <1>3, <1>4, <1>5, <1>11

LEMMA SameStatements ==
  PP!ParsedStatement = ParsedInstruction \cup (Statement \ Instruction)
<1>1. PP!ParsedInstruction = ParsedInstruction
  BY DEF PP!ParsedInstruction, ParsedInstruction, PP!Operand, Operand, PP!MemoryOperand,
         MemoryOperand, PP!OperandSize, OperandSize, PP!ANY, ANY, PP!SymbolTerm, SymbolTerm,
         PP!Register, Register, PP!RegisterTable, RegisterTable, PP!Opcode, Opcode
<1>2. PP!SymbolTerm = SymbolTerm /\ PP!OptionalName = OptionalName
  BY DEF PP!SymbolTerm, SymbolTerm, PP!OptionalName, OptionalName
<1>3. PP!Instruction = Instruction
  BY <1>2 DEF PP!Instruction, Instruction, PP!ExtraEncoding, ExtraEncoding
<1>4. PP!DataDirective = DataDirective
  BY <1>2 DEF PP!DataDirective, DataDirective, PP!DefineKind, DefineKind, PP!ReserveKind,
              ReserveKind
<1>5. PP!Label = Label
  BY DEF PP!Label, Label
<1>6. PP!SectionDirective = SectionDirective
  BY DEF PP!SectionDirective, SectionDirective, PP!SectionType, SectionType
<1>7. PP!EquDirective = EquDirective /\ PP!GlobalDirective = GlobalDirective
  BY DEF PP!EquDirective, EquDirective, PP!GlobalDirective, GlobalDirective
<1>8. PP!Item = Item
  BY <1>3, <1>4, <1>5 DEF PP!Item, Item
<1>9. PP!Statement = Statement
  BY <1>6, <1>7, <1>8 DEF PP!Statement, Statement
<1>. QED
  BY <1>1, <1>3, <1>9 DEF PP!ParsedStatement

\* What the parser leaves behind is what the back end is made for.
LEMMA ParserLeaves ==
  ASSUME PP!TypeOK,
         NEW handed,
         handed = [i \in DOMAIN pProgram |->
                     IF pProgram[i].kind = "INSTR" THEN view(pProgram[i]) ELSE pProgram[i]]
  PROVE  /\ handed \in Seq(Statement)
         /\ \A i \in DOMAIN handed :
              handed[i].kind = "DATA" /\ handed[i].dir = "ALIGN" => handed[i].count > 0
<1>1. pProgram \in Seq(PP!ParsedStatement)
  BY DEF PP!TypeOK
<1>2. PICK n \in Nat : n = Len(pProgram)
  BY <1>1
<1>3. DOMAIN pProgram = 1 .. n
  BY <1>1, <1>2
<1>4. ASSUME NEW i \in 1 .. n
      PROVE  \/ pProgram[i].kind = "INSTR" /\ view(pProgram[i]) \in Instruction
             \/ pProgram[i].kind # "INSTR" /\ pProgram[i] \in Statement
  <2>. PICK statement : statement = pProgram[i]
    OBVIOUS
  <2>1. statement \in ParsedInstruction \/ statement \in Statement \ Instruction
    BY <1>1, <1>3, SameStatements
  <2>2. CASE statement \in ParsedInstruction
    BY <2>2, ViewType DEF ParsedInstruction
  <2>3. CASE statement \in Statement \ Instruction
    <3>1. statement.kind # "INSTR"
      BY <2>3 DEF Statement, SectionDirective, EquDirective, GlobalDirective, Item, Label,
                  DataDirective
    <3>. QED
      BY <2>3, <3>1
  <2>. QED
    BY <2>1, <2>2, <2>3
<1>5. Instruction \subseteq Statement /\ \A i \in Instruction : i.kind = "INSTR"
  BY DEF Statement, Item, Instruction
<1>6. \A i \in 1 .. n :
        /\ handed[i] \in Statement
        /\ handed[i].kind = "DATA" => handed[i] = pProgram[i]
  BY <1>3, <1>4, <1>5
<1>7. DOMAIN handed = 1 .. n
  BY <1>3
<1>8. handed \in [1 .. n -> Statement]
  BY <1>3, <1>4, <1>5, Zenon
<1>9. handed \in Seq(Statement)
  BY <1>8
<1>10. \A i \in 1 .. n :
         pProgram[i].kind = "DATA" /\ pProgram[i].dir = "ALIGN" => pProgram[i].count > 0
  BY <1>3, Zenon DEF PP!TypeOK
<1>. QED
  BY <1>6, <1>7, <1>9, <1>10, Zenon

\* A source with an INVALID token does not get past the parser.
LEMMA ParserRejects ==
  ASSUME XP!IInv, PP!IInv, PP!Parsed, HandedOver, pErrors = <<>>
  PROVE  SourceIsLexed
<1>1. \A i \in DOMAIN xTokens : xTokens[i].type # "INVALID"
  <2>1. PP!InvalidTokensAreReported
    BY ParserTypes
  <2>. QED
    BY <2>1 DEF PP!InvalidTokensAreReported, HandedOver
<1>2. \A k \in DOMAIN xErrors : XP!IsEscapeError(xErrors[k])
  BY <1>1 DEF XP!IInv, XP!InvalidMarked
<1>3. \A e \in ToSet(xErrors) : XP!IsEscapeError(e)
  BY <1>2 DEF ToSet
<1>. QED
  BY <1>3 DEF SourceIsLexed, XP!IsEscapeError, XP!Backslash, Lexer!Backslash

\* Steps that leave the source, the tokens and the statements alone.
LEMMA SourceKept ==
  ASSUME SourceRead, UNCHANGED <<front, flat>>
  PROVE  /\ source' \in Sources /\ (XP!IInv /\ XP!Delivered)'
         /\ ParserIdle => ParserIdle'
         /\ PP!IInv /\ HandedOver => PP!IInv' /\ HandedOver'
         /\ flat' = flat /\ WellFormed'
         /\ SourceIsLexed => SourceIsLexed'
<1>1. UNCHANGED <<source, xPosition, xLine, xLineStart, xTokens, xErrors, xExtents, xStatus>>
  BY DEF front, lx
<1>2. UNCHANGED <<tokens, pCurrent, pProgram, pExtents, pErrors, flat>>
  BY DEF front, ps
<1>3. source' \in Sources /\ (XP!IInv /\ XP!Delivered)'
  BY <1>1, LexerStep DEF SourceRead, XP!vars
<1>4. PP!IInv => PP!IInv'
  BY <1>2, ParserStep DEF PP!vars
<1>5. (ParserIdle => ParserIdle') /\ (HandedOver => HandedOver')
  BY <1>1, <1>2 DEF ParserIdle, HandedOver
<1>6. flat' = flat /\ WellFormed'
  BY <1>2 DEF SourceRead, WellFormed
<1>7. SourceIsLexed => SourceIsLexed'
  BY <1>1 DEF SourceIsLexed, Lexer!Backslash
<1>. QED
  BY <1>3, <1>4, <1>5, <1>6, <1>7

LEMMA SourceStep == SourceRead /\ StatusOK /\ [Next]_vars => SourceRead'
<1>. SUFFICES ASSUME SourceRead, StatusOK, [Next]_vars PROVE SourceRead'
  OBVIOUS
<1>1. CASE ReadSource \/ CheckLexer \/ TokenizeThrows
  <2>1. /\ UNCHANGED <<front, flat>>
        /\ stage \in FrontStages \ {"parser"} /\ stage' \in {"lexer", "tokenize", "exit"}
        /\ status' # "EXIT_SUCCESS"
    BY <1>1 DEF ReadSource, CheckLexer, TokenizeThrows, Check, Throw, Continue, StatusOK,
                FrontStages
  <2>. QED
    BY <2>1, SourceKept DEF SourceRead, FrontStages
<1>2. CASE Tokenize
  <2>1. /\ stage = "tokenize" /\ stage' = "tokenize" /\ status' # "EXIT_SUCCESS"
        /\ UNCHANGED <<tokens, pCurrent, pProgram, pExtents, pErrors, flat>>
        /\ XP!Next
    BY <1>2, LexerActions DEF Tokenize, StatusOK, ps
  <2>2. (XP!IInv /\ XP!Delivered)'
    BY <2>1, LexerStep DEF SourceRead
  <2>3. source' \in Sources
    BY <1>2, Zenon
       DEF SourceRead, Tokenize, Lexer!tokenize, Lexer!Newline, Lexer!skipComment,
           Lexer!readIdentifier, Lexer!readNumber, Lexer!readInvalidNumber,
           Lexer!NumberOutOfRange, Lexer!readString, Lexer!Punctuate, Lexer!UnknownSymbol,
           Lexer!EndOfFile, Lexer!PushInvalid, Lexer!PushLexeme, Lexer!Push
  <2>4. ParserIdle' /\ flat' = <<>>
    BY <2>1 DEF SourceRead, ParserIdle, FrontStages
  <2>5. WellFormed'
    BY <2>1 DEF SourceRead, WellFormed
  <2>. QED
    BY <2>1, <2>2, <2>3, <2>4, <2>5 DEF SourceRead, FrontStages
<1>3. CASE HandTokensOver
  <2>1. /\ stage = "tokenize" /\ stage' = "parser" /\ status' # "EXIT_SUCCESS"
        /\ xStatus = "done"
        /\ tokens' = [i \in DOMAIN xTokens |-> ParserToken(xTokens[i])]
        /\ UNCHANGED <<source, lx, pCurrent, pProgram, pExtents, pErrors, flat>>
    BY <1>3 DEF HandTokensOver, Continue, StatusOK
  <2>2. /\ source \in Sources /\ XP!IInv /\ XP!Delivered /\ ParserIdle /\ flat = <<>>
        /\ WellFormed
    BY <2>1 DEF SourceRead, FrontStages
  <2>3. UNCHANGED <<source, xPosition, xLine, xLineStart, xTokens, xErrors, xExtents, xStatus>>
    BY <2>1 DEF lx
  <2>4. (XP!IInv /\ XP!Delivered)'
    BY <2>2, <2>3, LexerStep DEF XP!vars
  <2>5. PP!IsInput(tokens') /\ HandedOver'
    <3>1. /\ PP!IsInput(tokens') /\ DOMAIN tokens' = DOMAIN xTokens
          /\ \A i \in DOMAIN xTokens : tokens'[i].type = xTokens[i].type
      BY <2>1, <2>2, HandOver, Zenon
    <3>. QED
      BY <2>3, <3>1 DEF HandedOver
  <2>6. PP!IInv'
    <3>1. (PP!IsInput(tokens) => PP!Parsing(1, <<>>, <<>>, <<>>))'
      BY ParserStart, PTL
    <3>2. /\ pCurrent' = 1 /\ pProgram' = <<>> /\ pExtents' = <<>> /\ pErrors' = <<>>
      BY <2>1, <2>2 DEF ParserIdle
    <3>. QED
      BY <2>5, <3>1, <3>2 DEF PP!IInv
  <2>7. flat' = <<>> /\ WellFormed'
    BY <2>1, <2>2 DEF WellFormed
  <2>. QED
    BY <2>1, <2>2, <2>3, <2>4, <2>5, <2>6, <2>7 DEF SourceRead, FrontStages
<1>4. CASE Parse
  <2>1. /\ stage = "parser" /\ stage' = "parser" /\ status' # "EXIT_SUCCESS"
        /\ UNCHANGED <<source, xPosition, xLine, xLineStart, xTokens, xErrors, xExtents,
                       xStatus, flat>>
        /\ PP!Next
    BY <1>4, ParserActions DEF Parse, StatusOK, lx
  <2>2. tokens' = tokens
    BY <1>4
       DEF Parse, Parser!parse, Parser!SkipNewline, Parser!ParseData, Parser!ParseLabel,
           Parser!ParseGlobal, Parser!ParseSection, Parser!ParseEqu, Parser!ParseInstruction,
           Parser!Unexpected, Parser!Take
  <2>3. (XP!IInv /\ XP!Delivered)' /\ source' \in Sources
    BY <2>1, LexerStep DEF SourceRead, XP!vars
  <2>4. PP!IInv' /\ HandedOver'
    BY <2>1, <2>2, ParserStep DEF SourceRead, HandedOver
  <2>5. flat' = <<>> /\ WellFormed'
    BY <2>1 DEF SourceRead, WellFormed, FrontStages
  <2>. QED
    BY <2>1, <2>3, <2>4, <2>5 DEF SourceRead, FrontStages
<1>5. CASE CheckParser
  <2>1. /\ stage = "parser" /\ stage' \in {"grouper", "exit"} /\ status' # "EXIT_SUCCESS"
        /\ stage' = "grouper" => pErrors = <<>>
        /\ Parser!Parsed
        /\ UNCHANGED <<source, xPosition, xLine, xLineStart, xTokens, xErrors, xExtents,
                       xStatus>>
        /\ flat' = [i \in DOMAIN pProgram |->
                      IF pProgram[i].kind = "INSTR" THEN view(pProgram[i]) ELSE pProgram[i]]
    BY <1>5 DEF CheckParser, Check, Throw, Continue, StatusOK, front, lx
  <2>2. XP!IInv /\ XP!Delivered /\ PP!IInv /\ HandedOver /\ PP!Parsed
    BY <2>1, ParserEnds DEF SourceRead
  <2>3. (XP!IInv /\ XP!Delivered)' /\ source' \in Sources
    BY <2>1, LexerStep DEF SourceRead, XP!vars
  <2>4. WellFormed'
    <3>1. PP!TypeOK
      BY <2>2, ParserTypes
    <3>. QED
      BY <2>1, <3>1, ParserLeaves, Zenon DEF WellFormed
  <2>5. stage' = "grouper" => SourceIsLexed'
    <3>1. pErrors = <<>> => SourceIsLexed
      BY <2>2, ParserRejects
    <3>. QED
      BY <2>1, <3>1 DEF SourceIsLexed, Lexer!Backslash
  <2>. QED
    BY <2>1, <2>3, <2>4, <2>5 DEF SourceRead, FrontStages
<1>6. CASE \/ Group \/ CheckGrouper \/ Resolve \/ CheckResolver \/ AssignAddresses
           \/ CheckLayout \/ Write \/ CheckWriter
  <2>1. /\ UNCHANGED front /\ stage \notin FrontStages \cup {"exit"}
        /\ stage' \notin FrontStages
    BY <1>6 DEF Group, CheckGrouper, Resolve, CheckResolver, AssignAddresses, CheckLayout,
                Write, CheckWriter, Check, Throw, Continue, FrontStages
  <2>2. flat' = flat
    BY <1>6
       DEF Group, CheckGrouper, Resolve, CheckResolver, AssignAddresses, CheckLayout, Write,
           CheckWriter, Grouper!processStatement, Grouper!handleSectionDirective,
           Grouper!handleInstruction, Grouper!handleLabel, Grouper!handleDataDirective,
           Grouper!OutsideAnySection, Grouper!handleEquDirective,
           Grouper!handleGlobalDirective, Grouper!Visit
  <2>. QED
    BY <2>1, <2>2, SourceKept DEF SourceRead, FrontStages
<1>7. CASE UNCHANGED vars
  <2>1. UNCHANGED <<front, flat, stage, status>>
    BY <1>7 DEF vars
  <2>. QED
    BY <2>1, SourceKept DEF SourceRead
<1>. QED
  BY <1>1, <1>2, <1>3, <1>4, <1>5, <1>6, <1>7 DEF Next, run, Exited

\* What reaches the back end is well formed, whatever the source.
LEMMA SourceInvariance == Spec => [](SourceRead /\ StatusOK)
BY SourceStart, SourceStep, StatusStart, StatusStep, PTL DEF Spec

-----------------------------------------------------------------------------
(* The stages of the back end, likewise *)

GP == INSTANCE GrouperProofs WITH
  FlatPrograms <- {}, next <- gNext, current <- gCurrent, errors <- gErrors

RP == INSTANCE SizeResolverProofs WITH
  Programs <- {}, phase <- rPhase, passCount <- rPassCount,
  section <- rSection, statement <- rStatement, place <- rPlace,
  changed <- rChanged, errors <- rErrors

LP == INSTANCE LayoutProofs WITH
  SizedPrograms <- {}, visited <- lVisited, fileOffset <- lFileOffset,
  vaddr <- lVaddr

WP == INSTANCE ElfWriterProofs WITH
  LaidOutPrograms <- {}, phase <- wPhase, section <- wSection,
  outSize <- wOutSize, currentVaddr <- wCurrentVaddr, entry <- wEntry,
  segments <- wSegments, emitted <- wEmitted, errors <- wErrors

LEMMA GrouperStart == GP!Given /\ GP!InitProgress => GP!IInv
<1>1. {} \subseteq Seq(GP!Statement)
  OBVIOUS
<1>. QED
  BY <1>1, GP!InvStart, NameAssumption, WordAssumption

LEMMA GrouperStep == GP!IInv /\ [GP!Next]_(GP!vars) => GP!IInv'
<1>1. {} \subseteq Seq(GP!Statement)
  OBVIOUS
<1>. QED
  BY <1>1, GP!InvStep, NameAssumption, WordAssumption

LEMMA GrouperFewSections == GP!IInv => Len(sections) <= 3
<1>1. {} \subseteq Seq(GP!Statement)
  OBVIOUS
<1>. QED
  BY <1>1, GP!FewSections, NameAssumption, WordAssumption

LEMMA GrouperDropsNothing ==
  ASSUME GP!IInv, GP!Grouped, gErrors = <<>>, NEW i \in DOMAIN flat, GP!IsItem(i)
  PROVE  \E s \in DOMAIN sections : \E j \in DOMAIN sections[s].items :
           sections[s].items[j] = flat[i]
<1>1. {} \subseteq Seq(GP!Statement)
  OBVIOUS
<1>. QED
  BY <1>1, GP!NothingDropped, NameAssumption, WordAssumption

LEMMA ResolverStart == RP!Given /\ RP!InitProgress => RP!IInv /\ RP!EncodedSoFar
<1>1. \A p \in {} : RP!IsProgram(p)
  OBVIOUS
<1>. QED
  BY <1>1, RP!InvStart, RP!EncodedStart, NameAssumption, WordAssumption,
     Rel32Assumption, PassesAssumption

LEMMA ResolverStep ==
  RP!IInv /\ RP!EncodedSoFar /\ [RP!Next]_(RP!vars) => (RP!IInv /\ RP!EncodedSoFar)'
<1>1. \A p \in {} : RP!IsProgram(p)
  OBVIOUS
<1>. QED
  BY <1>1, RP!InvStep, RP!EncodedStep, NameAssumption, WordAssumption,
     Rel32Assumption, PassesAssumption DEF RP!IInv

LEMMA ResolverKeeps ==
  ASSUME RP!TypeOK, [RP!Next]_(RP!vars)
  PROVE  /\ Len(sections') = Len(sections) /\ DOMAIN sections' = DOMAIN sections
         /\ \A s \in DOMAIN sections : sections'[s].items = sections[s].items
         /\ DOMAIN symbols' = DOMAIN symbols
         /\ \A m \in DOMAIN symbols :
              /\ symbols'[m].sectionIndex = symbols[m].sectionIndex
              /\ symbols'[m].statementIndex = symbols[m].statementIndex
<1>1. \A p \in {} : RP!IsProgram(p)
  OBVIOUS
<1>. QED
  BY <1>1, RP!ProgramKept, NameAssumption, WordAssumption, Rel32Assumption,
     PassesAssumption

LEMMA LayoutAssumptions ==
  /\ \A p \in {} : p \in Seq(LP!Section) /\ Len(p) <= 3
  /\ LP!TEXT_BASE + 2 * LP!PAGE_SIZE <= WordSize
BY AddressSpaceAssumption
   DEF Layout!TEXT_BASE, LP!TEXT_BASE, Layout!PAGE_SIZE, LP!PAGE_SIZE

LEMMA LayoutStart == LP!Given /\ LP!InitProgress => LP!IInv
BY LayoutAssumptions, LP!InvStart, NameAssumption, WordAssumption

LEMMA LayoutStep == LP!IInv /\ [LP!Next]_(LP!vars) => LP!IInv'
BY LayoutAssumptions, LP!InvStep, NameAssumption, WordAssumption

LEMMA LayoutKeeps ==
  ASSUME LP!TypeOK, [LP!Next]_(LP!vars)
  PROVE  /\ Len(sections') = Len(sections) /\ DOMAIN sections' = DOMAIN sections
         /\ \A s \in DOMAIN sections :
              /\ sections'[s].items = sections[s].items
              /\ sections'[s].type = sections[s].type
              /\ sections'[s].size = sections[s].size
BY LayoutAssumptions, LP!ContentsKept, NameAssumption, WordAssumption

LEMMA WriterStart == WP!InitProgress /\ WP!LaidOut => WP!IInv
BY WP!InvStart, NameAssumption, WordAssumption, Rel32Assumption

LEMMA WriterStep == WP!IInv /\ [WP!Next]_(WP!vars) => WP!IInv'
BY WP!InvStep, NameAssumption, WordAssumption, Rel32Assumption

LEMMA WriterKeeps == [WP!Next]_(WP!vars) => UNCHANGED <<sections, symbols>>
BY WP!ProgramKept, NameAssumption, WordAssumption, Rel32Assumption

LEMMA WriterProperties ==
  WP!IInv => /\ WP!AlikeMeasuredLabelsLand
             /\ WP!SegmentsHoldTheirSections
             /\ WP!CallsReachTheirLabels
             /\ WP!EntryIsAtStart
BY WP!LabelsLandInv, WP!SegmentsHoldInv, WP!CallsReachInv, WP!EntryAtStartInv,
   NameAssumption, WordAssumption, Rel32Assumption, Zenon

-----------------------------------------------------------------------------

LEMMA GrouperActions == Grouper!processStatement => GP!Next
BY DEF GP!Next, Grouper!processStatement, GP!processStatement,
       Grouper!handleSectionDirective, GP!handleSectionDirective,
       Grouper!handleInstruction, GP!handleInstruction, Grouper!handleLabel,
       GP!handleLabel, Grouper!handleDataDirective, GP!handleDataDirective,
       Grouper!OutsideAnySection, GP!OutsideAnySection,
       Grouper!handleEquDirective, GP!handleEquDirective,
       Grouper!handleGlobalDirective, GP!handleGlobalDirective,
       Grouper!Visit, GP!Visit, Grouper!stmt, GP!stmt, Grouper!AppendItem,
       GP!AppendItem, Grouper!PlacedHere, GP!PlacedHere, Grouper!WithSymbol,
       GP!WithSymbol, Grouper!getOrCreateSymbol, GP!getOrCreateSymbol,
       Grouper!DefaultSymbol, GP!DefaultSymbol, Grouper!NewSection,
       GP!NewSection, Grouper!IndicesOfType, GP!IndicesOfType

LEMMA ResolverLengths ==
  ASSUME NEW i, NEW table
  PROVE  Resolver!EncodedLength(i, table) = RP!EncodedLength(i, table)
BY DEF Resolver!EncodedLength, RP!EncodedLength, Resolver!DispLength,
       RP!DispLength, Resolver!Displacement, RP!Displacement,
       Resolver!ExtraLength, RP!ExtraLength, Resolver!TermValue,
       RP!TermValue, Resolver!Sums, RP!Sums, Resolver!TermValues,
       RP!TermValues

LEMMA ResolverFailures ==
  ASSUME NEW i, NEW table, NEW program, NEW base
  PROVE  Resolver!EncodeFails(i, table, program, base) = RP!EncodeFails(i, table, program, base)
BY ResolverLengths
   DEF Resolver!EncodeFails, RP!EncodeFails, Resolver!UndefinedTerm,
       RP!UndefinedTerm, Resolver!UndefinedTarget, RP!UndefinedTarget,
       Resolver!Rel32Overflows, RP!Rel32Overflows, Resolver!Relative,
       RP!Relative, Resolver!resolveImm, RP!resolveImm

LEMMA ResolverActions == Resolver!resolve => RP!Next
BY ResolverLengths, ResolverFailures, Zenon
   DEF RP!Next, Resolver!resolve, RP!resolve, Resolver!passSection, RP!passSection,
       Resolver!BeginPass, RP!BeginPass, Resolver!EndPass, RP!EndPass,
       Resolver!GiveUp, RP!GiveUp, Resolver!VisitLabel, RP!VisitLabel,
       Resolver!VisitInstruction, RP!VisitInstruction,
       Resolver!VisitInstructionFailing, RP!VisitInstructionFailing,
       Resolver!VisitData, RP!VisitData, Resolver!EndSection, RP!EndSection,
       Resolver!Visiting, RP!Visiting, Resolver!Advance, RP!Advance,
       Resolver!Relocate, RP!Relocate, Resolver!SizingFails, RP!SizingFails,
       Resolver!items, RP!items, Resolver!item, RP!item, Resolver!offset,
       RP!offset, Resolver!Wrap, RP!Wrap, Resolver!estimateDataSize,
       RP!estimateDataSize, Resolver!estimateDataValues,
       RP!estimateDataValues, Resolver!AlignPadding, RP!AlignPadding,
       Resolver!UnitSize, RP!UnitSize, Resolver!ReserveKind, RP!ReserveKind,
       Resolver!DefineKind, RP!DefineKind

LEMMA LayoutActions == Layout!assign => LP!Next
BY DEF LP!Next, Layout!assign, LP!assign, Layout!SkipEmptySection,
       LP!SkipEmptySection, Layout!PlaceSection, LP!PlaceSection,
       Layout!Visit, LP!Visit, Layout!section, LP!section, Layout!PlacedNext,
       LP!PlacedNext, Layout!alignUp, LP!alignUp, Layout!Wrap, LP!Wrap,
       Layout!PAGE_SIZE, LP!PAGE_SIZE

LEMMA WriterLengths ==
  ASSUME NEW i, NEW table
  PROVE  Writer!EncodedLength(i, table) = WP!EncodedLength(i, table)
BY DEF Writer!EncodedLength, WP!EncodedLength, Writer!DispLength,
       WP!DispLength, Writer!Displacement, WP!Displacement,
       Writer!ExtraLength, WP!ExtraLength, Writer!TermValue, WP!TermValue,
       Writer!Sums, WP!Sums, Writer!TermValues,
       WP!TermValues

LEMMA WriterFailures ==
  ASSUME NEW i, NEW table, NEW program, NEW base
  PROVE  /\ Writer!EncodeFails(i, table, program, base) = WP!EncodeFails(i, table, program, base)
         /\ Writer!Relative(i, table, program, base) = WP!Relative(i, table, program, base)
BY WriterLengths
   DEF Writer!EncodeFails, WP!EncodeFails, Writer!UndefinedTerm,
       WP!UndefinedTerm, Writer!UndefinedTarget, WP!UndefinedTarget,
       Writer!Rel32Overflows, WP!Rel32Overflows, Writer!Relative,
       WP!Relative, Writer!resolveImm, WP!resolveImm

LEMMA WriterMeasures ==
  ASSUME NEW d
  PROVE  Writer!DataLength(d) = WP!DataLength(d)
BY DEF Writer!DataLength, WP!DataLength, Writer!UnitSize, WP!UnitSize,
       Writer!ReserveKind, WP!ReserveKind, Writer!DefineKind, WP!DefineKind

\* One step of emitSection() at an item.
LEMMA WriterVisits ==
  Writer!EmitInstruction \/ Writer!EmitInstructionFailing \/ Writer!EmitData \/ Writer!EmitLabel
    => WP!emitSection
<1>1. Writer!items = WP!items /\ Writer!item = WP!item
  BY DEF Writer!items, WP!items, Writer!item, WP!item
<1>2. \A kind : Writer!Visiting(kind) = WP!Visiting(kind)
  BY <1>1 DEF Writer!Visiting, WP!Visiting
<1>3. \A size : Writer!Emit(size) = WP!Emit(size)
  BY DEF Writer!Emit, WP!Emit
<1>4. Writer!EmissionFails = WP!EmissionFails
  BY <1>1, WriterFailures DEF Writer!EmissionFails, WP!EmissionFails
<1>5. \A x : Writer!Wrap(x) = WP!Wrap(x)
  BY DEF Writer!Wrap, WP!Wrap
<1>6. Writer!EmitInstruction => WP!EmitInstruction
  BY <1>1, <1>2, <1>3, <1>4, <1>5, WriterLengths
     DEF Writer!EmitInstruction, WP!EmitInstruction
<1>7. Writer!EmitInstructionFailing => WP!EmitInstructionFailing
  BY <1>2, <1>3, <1>4 DEF Writer!EmitInstructionFailing, WP!EmitInstructionFailing
<1>8. Writer!EmitData => WP!EmitData
  BY <1>1, <1>2, <1>3, WriterMeasures DEF Writer!EmitData, WP!EmitData
<1>9. Writer!EmitLabel => WP!EmitLabel
  BY <1>2, <1>3 DEF Writer!EmitLabel, WP!EmitLabel
<1>. QED
  BY <1>6, <1>7, <1>8, <1>9 DEF WP!emitSection

LEMMA WriterHeaders == Writer!EmitHeaders \/ Writer!NoEntryPoint => WP!write
<1>1. Writer!Cardinality(Writer!NonEmptySections) = WP!Cardinality(WP!NonEmptySections)
  BY DEF Writer!NonEmptySections, WP!NonEmptySections, Writer!Cardinality,
         WP!Cardinality, Writer!IsFiniteSet, WP!IsFiniteSet
<1>2. Writer!HasEntryPoint = WP!HasEntryPoint /\ Writer!findEntryPoint = WP!findEntryPoint
  BY DEF Writer!HasEntryPoint, WP!HasEntryPoint, Writer!findEntryPoint,
         WP!findEntryPoint, Writer!Wrap, WP!Wrap
<1>3. {Writer!ProgramHeader(sections[s]) : s \in Writer!NonEmptySections}
        = {WP!ProgramHeader(sections[s]) : s \in WP!NonEmptySections}
  BY DEF Writer!ProgramHeader, WP!ProgramHeader, Writer!sectionFlags,
         WP!sectionFlags, Writer!NonEmptySections, WP!NonEmptySections
<1>4. Writer!EmitHeaders => WP!EmitHeaders
  BY <1>1, <1>2, <1>3
     DEF Writer!EmitHeaders, WP!EmitHeaders, Writer!ELF_HEADER_SIZE,
         WP!ELF_HEADER_SIZE, Writer!PHDR_SIZE, WP!PHDR_SIZE
<1>5. Writer!NoEntryPoint => WP!NoEntryPoint
  BY <1>2 DEF Writer!NoEntryPoint, WP!NoEntryPoint
<1>. QED
  BY <1>4, <1>5 DEF WP!write

LEMMA WriterActions == Writer!write => WP!Next
<1>1. Writer!LeaveSection => WP!emitSection
  BY DEF WP!emitSection, Writer!LeaveSection, WP!LeaveSection, Writer!items, WP!items
<1>2. \/ Writer!SkipSection \/ Writer!EnterSection \/ Writer!EndImage \/ Writer!CannotOpen
      \/ Writer!OpenFile \/ Writer!WriteFile
      => WP!write
  BY DEF WP!write, Writer!SkipSection, WP!SkipSection, Writer!EnterSection,
         WP!EnterSection, Writer!EndImage, WP!EndImage, Writer!CannotOpen,
         WP!CannotOpen, Writer!OpenFile, WP!OpenFile, Writer!WriteFile,
         WP!WriteFile, Writer!Emits, WP!Emits
<1>. QED
  BY <1>1, <1>2, WriterVisits, WriterHeaders
     DEF WP!Next, WP!write, Writer!write, Writer!emitSection

-----------------------------------------------------------------------------
(* The data that stages hand over *)

LEMMA SameTypes ==
  /\ Statement = GP!Statement
  /\ Section = GP!Section /\ Section = RP!Section /\ Section = LP!Section
  /\ Section = WP!Section
  /\ Word = RP!Word /\ Word = WP!Word
BY DEF Section, GP!Section, RP!Section, LP!Section, WP!Section, SectionType,
       GP!SectionType, RP!SectionType, LP!SectionType, WP!SectionType, Item,
       GP!Item, RP!Item, LP!Item, WP!Item, Instruction, GP!Instruction,
       RP!Instruction, LP!Instruction, WP!Instruction, Label, GP!Label,
       RP!Label, LP!Label, WP!Label, DataDirective, GP!DataDirective,
       RP!DataDirective, LP!DataDirective, WP!DataDirective, OptionalName,
       GP!OptionalName, RP!OptionalName, LP!OptionalName, WP!OptionalName,
       SymbolTerm, GP!SymbolTerm, RP!SymbolTerm, LP!SymbolTerm,
       WP!SymbolTerm, ExtraEncoding, GP!ExtraEncoding, RP!ExtraEncoding,
       LP!ExtraEncoding, WP!ExtraEncoding, DefineKind, GP!DefineKind,
       RP!DefineKind, LP!DefineKind, WP!DefineKind, ReserveKind,
       GP!ReserveKind, RP!ReserveKind, LP!ReserveKind, WP!ReserveKind, Word,
       GP!Word, RP!Word, LP!Word, WP!Word,
       Statement, GP!Statement, SectionDirective, GP!SectionDirective,
       EquDirective, GP!EquDirective, GlobalDirective, GP!GlobalDirective

LEMMA SameSymbolTables ==
  ASSUME NEW table
  PROVE  /\ IsSymbolTable(table) = GP!IsSymbolTable(table)
         /\ IsSymbolTable(table) = RP!IsSymbolTable(table)
         /\ IsSymbolTable(table) = WP!IsSymbolTable(table)
BY SMTT(30)
   DEF IsSymbolTable, GP!IsSymbolTable, RP!IsSymbolTable, WP!IsSymbolTable,
       Symbol, GP!Symbol, RP!Symbol, WP!Symbol, Word, GP!Word, RP!Word,
       WP!Word

\* The resolver and the writer mean the same places.
LEMMA SamePlacement ==
  ASSUME NEW place, NEW s, NEW table
  PROVE  RP!IsPlaced(place, s, table) = WP!IsPlaced(place, s, table)
<1>1. \A i, t : RP!EncodedLength(i, t) = WP!EncodedLength(i, t)
  BY DEF RP!EncodedLength, WP!EncodedLength, RP!DispLength, WP!DispLength,
         RP!Displacement, WP!Displacement, RP!ExtraLength, WP!ExtraLength,
         RP!TermValue, WP!TermValue, RP!Sums, WP!Sums,
         RP!TermValues, WP!TermValues
<1>. QED
  BY <1>1, Zenon
     DEF RP!IsPlaced, WP!IsPlaced, RP!ItemPlaced, WP!ItemPlaced, RP!LabelOf,
         WP!LabelOf, RP!ItemSize, WP!ItemSize, RP!Wrap, WP!Wrap,
         RP!estimateDataSize, WP!estimateDataSize, RP!estimateDataValues,
         WP!estimateDataValues, RP!AlignPadding, WP!AlignPadding,
         RP!UnitSize, WP!UnitSize, RP!ReserveKind, WP!ReserveKind,
         RP!DefineKind, WP!DefineKind

LEMMA SameSoundness ==
  ASSUME NEW it
  PROVE  RP!Sound(it) = (it.match /\ ~UndefinedTerm(it, symbols) /\ ~UndefinedTarget(it, symbols))
BY Zenon DEF RP!Sound, UndefinedTerm, RP!UndefinedTerm, UndefinedTarget, RP!UndefinedTarget

-----------------------------------------------------------------------------
(* The invariant of the pipeline *)

Typed ==
  /\ sections \in Seq(Section)
  /\ IsSymbolTable(symbols)
  /\ encoderFailed \in BOOLEAN

\* Stages that have not begun are as their constructors leave them.
ResolverIdle ==
  /\ rPhase = "top" /\ rPassCount = 0 /\ rSection = 1 /\ rStatement = 1
  /\ rChanged = FALSE /\ rErrors = FALSE /\ encoderFailed = FALSE

WriterIdle ==
  /\ wPhase = "start" /\ wSection = 1 /\ wOutSize = 0 /\ wCurrentVaddr = 0
  /\ wEntry = 0 /\ wSegments = {} /\ wErrors = FALSE /\ file = "old"
  /\ DOMAIN wEmitted = {}

Idle ==
  /\ stage \in FrontStages => GP!InitProgress
  /\ stage \in FrontStages \cup {"grouper"} => ResolverIdle
  /\ stage \in FrontStages \cup {"grouper", "resolver"} => lVisited = 0
  /\ stage \notin {"writer", "exit"} => WriterIdle

\* What Grouper leaves behind, and no stage after it disturbs: at most three
\* sections, labels that point at their definitions, and positive alignments.
GroupedWell ==
  /\ Len(sections) <= 3
  /\ WP!LabelsPoint
  /\ WP!AlignmentsPositive

\* What the resolver leaves behind: rPlace is where the labels say, for the sizes
\* the final symbol table gives the items.
ResolvedWell ==
  \A s \in DOMAIN sections :
    /\ rPlace[s] \in [1 .. Len(sections[s].items) + 1 -> Word]
    /\ WP!IsPlaced(rPlace[s], sections[s], symbols)

\* Every stage that runs is in a state that satisfies the invariant its own module
\* is proved to keep.
Running ==
  /\ stage = "grouper" => GP!IInv
  /\ stage = "resolver" => RP!IInv /\ RP!EncodedSoFar
  /\ stage \in {"resolver", "layout"} => GroupedWell
  /\ stage = "layout" => LP!IInv /\ ResolvedWell
  /\ stage = "writer" => WP!IInv
  /\ stage = "exit" => WriterIdle \/ WP!IInv

PipelineInv == Typed /\ Idle /\ Running

LEMMA PipelineStart == Init => PipelineInv
<1>. SUFFICES ASSUME Init PROVE PipelineInv
  OBVIOUS
<1>1. /\ stage = "args" /\ sections = <<>> /\ symbols = [n \in {} |-> DefaultSymbol]
      /\ encoderFailed = FALSE
  BY DEF Init, Grouper!InitProgress, DefaultSymbol, Grouper!DefaultSymbol
<1>2. GP!InitProgress
  BY DEF Init, Grouper!InitProgress, GP!InitProgress, Grouper!DefaultSymbol,
         GP!DefaultSymbol
<1>3. ResolverIdle /\ lVisited = 0 /\ WriterIdle
  BY <1>1 DEF Init, Resolver!InitProgress, Layout!InitProgress, Writer!InitProgress,
              ResolverIdle, WriterIdle
<1>4. IsSymbolTable(symbols)
  <2>1. symbols \in [{} -> Symbol] /\ DOMAIN symbols = {}
    BY <1>1
  <2>. QED
    BY <2>1 DEF IsSymbolTable
<1>5. Typed
  <2>1. sections = <<>> /\ encoderFailed \in BOOLEAN
    BY <1>1, Zenon
  <2>2. sections \in Seq(Section)
    BY <2>1
  <2>. QED
    BY <1>4, <2>1, <2>2 DEF Typed
<1>6. Idle
  BY <1>1, <1>2, <1>3 DEF Idle
<1>7. Running
  BY <1>1 DEF Running
<1>. QED
  BY <1>5, <1>6, <1>7 DEF PipelineInv

\* Before the program is parsed, no other stage has begun.
LEMMA FrontStep ==
  ASSUME PipelineInv,
         \/ ReadSource \/ CheckLexer \/ Tokenize \/ TokenizeThrows \/ HandTokensOver \/ Parse
  PROVE  PipelineInv'
<1>1. /\ stage \in FrontStages /\ stage' \in FrontStages \cup {"exit"}
      /\ UNCHANGED <<flat, ir, encoderFailed, g, r, l, w>>
  BY DEF ReadSource, CheckLexer, Tokenize, TokenizeThrows, HandTokensOver, Parse, Check,
         Throw, Continue, FrontStages
<1>2. Typed'
  BY <1>1 DEF PipelineInv, Typed, IsSymbolTable, ir
<1>3. GP!InitProgress' /\ ResolverIdle' /\ lVisited' = 0 /\ WriterIdle'
  BY <1>1 DEF PipelineInv, Idle, GP!InitProgress, ResolverIdle, WriterIdle, FrontStages,
              ir, g, r, l, w
<1>. QED
  BY <1>1, <1>2, <1>3 DEF PipelineInv, Idle, Running, FrontStages

LEMMA CheckParserStep ==
  ASSUME PipelineInv, WellFormed', CheckParser
  PROVE  PipelineInv'
<1>1. /\ stage = "parser" /\ stage' \in {"grouper", "exit"}
      /\ UNCHANGED <<ir, encoderFailed, g, r, l, w>>
  BY DEF CheckParser, Check, Throw, Continue
<1>2. Typed'
  BY <1>1 DEF PipelineInv, Typed, IsSymbolTable, ir
<1>3. GP!InitProgress' /\ ResolverIdle' /\ lVisited' = 0 /\ WriterIdle'
  BY <1>1 DEF PipelineInv, Idle, GP!InitProgress, ResolverIdle, WriterIdle, FrontStages,
              ir, g, r, l, w
<1>4. GP!Given'
  BY SameTypes DEF WellFormed, GP!Given
<1>5. (GP!Given /\ GP!InitProgress => GP!IInv)'
  BY GrouperStart, PTL
<1>. QED
  BY <1>1, <1>2, <1>3, <1>4, <1>5 DEF PipelineInv, Idle, Running, FrontStages

LEMMA GroupStep ==
  ASSUME PipelineInv, Group
  PROVE  PipelineInv'
<1>1. /\ stage = "grouper" /\ stage' = "grouper" /\ UNCHANGED <<encoderFailed, r, l, w>>
      /\ GP!Next
  BY GrouperActions DEF Group
<1>2. GP!IInv'
  BY <1>1, GrouperStep DEF PipelineInv, Running
<1>3. Typed'
  BY <1>1, <1>2, SameTypes, SameSymbolTables DEF GP!IInv, GP!TypeOK, PipelineInv, Typed
<1>4. ResolverIdle' /\ lVisited' = 0 /\ WriterIdle'
  BY <1>1 DEF PipelineInv, Idle, ResolverIdle, WriterIdle, FrontStages, r, l, w
<1>. QED
  BY <1>1, <1>2, <1>3, <1>4 DEF PipelineInv, Idle, Running, FrontStages

\* What the grouper is proved of is what the stages after it need.
LEMMA GrouperLeaves ==
  ASSUME GP!IInv, WellFormed
  PROVE  GroupedWell
<1>1. /\ sections \in Seq(GP!Section) /\ GP!SymbolPointsAtDefinition
      /\ GP!ItemsAreStatements
  BY DEF GP!IInv, GP!TypeOK
<1>2. ASSUME NEW s \in DOMAIN sections, NEW i \in DOMAIN sections[s].items
      PROVE  /\ sections[s].items[i] \in Item
             /\ \E j \in DOMAIN flat : sections[s].items[i] = flat[j]
  <2>1. sections[s] \in Section
    BY <1>1, SameTypes
  <2>2. sections[s].items \in Seq(Item)
    BY <2>1 DEF Section
  <2>. QED
    BY <1>1, <2>2 DEF GP!ItemsAreStatements
<1>3. WP!AlignmentsPositive
  BY <1>2, SMTT(30) DEF WellFormed, WP!AlignmentsPositive, WP!PositiveAlignment
<1>4. ASSUME NEW s \in DOMAIN sections, NEW i \in DOMAIN sections[s].items,
             NEW n, n = WP!LabelOf(sections[s].items[i]), n # NoName
      PROVE  WP!PointsAtDefinition(n)
  <2>1. n = GP!LabelOf(sections[s].items[i])
    BY <1>4 DEF GP!LabelOf, WP!LabelOf
  <2>2. n \in Name
    BY <1>2, <1>4 DEF WP!LabelOf, Item, Instruction, Label, DataDirective, OptionalName
  <2>3. GP!HasDefinition(n)
    BY <2>1 DEF GP!HasDefinition
  <2>. QED
    BY <1>1, <2>2, <2>3
       DEF GP!SymbolPointsAtDefinition, WP!PointsAtDefinition, GP!LabelOf, WP!LabelOf
<1>. QED
  BY <1>3, <1>4, GrouperFewSections DEF GroupedWell, WP!LabelsPoint

LEMMA GroupedKept ==
  ASSUME GroupedWell,
         Len(sections') = Len(sections), DOMAIN sections' = DOMAIN sections,
         \A s \in DOMAIN sections : sections'[s].items = sections[s].items,
         DOMAIN symbols' = DOMAIN symbols,
         \A m \in DOMAIN symbols :
           /\ symbols'[m].sectionIndex = symbols[m].sectionIndex
           /\ symbols'[m].statementIndex = symbols[m].statementIndex
  PROVE  GroupedWell'
<1>1. WP!AlignmentsPositive'
  BY DEF GroupedWell, WP!AlignmentsPositive, WP!PositiveAlignment
<1>2. ASSUME NEW n, WP!PointsAtDefinition(n)
      PROVE  WP!PointsAtDefinition(n)'
  BY <1>2 DEF WP!PointsAtDefinition
<1>3. WP!LabelsPoint'
  BY <1>2 DEF GroupedWell, WP!LabelsPoint
<1>. QED
  BY <1>1, <1>3 DEF GroupedWell

LEMMA CheckGrouperStep ==
  ASSUME PipelineInv, WellFormed, CheckGrouper
  PROVE  PipelineInv'
<1>1. /\ stage = "grouper" /\ stage' \in {"resolver", "exit"}
      /\ UNCHANGED <<ir, encoderFailed, rPhase, rPassCount, rSection, rStatement,
                     rChanged, rErrors, l, w>>
      /\ rPlace' = [s \in DOMAIN sections |->
                      [i \in 1 .. Len(sections[s].items) + 1 |-> 0]]
  BY DEF CheckGrouper, Check, Throw, Continue
<1>2. UNCHANGED <<sections, symbols>>
  BY <1>1 DEF ir
<1>3. Typed'
  BY <1>1, <1>2 DEF PipelineInv, Typed, IsSymbolTable
<1>4. ResolverIdle' /\ lVisited' = 0 /\ WriterIdle'
  BY <1>1 DEF PipelineInv, Idle, ResolverIdle, WriterIdle, FrontStages, l, w
<1>5. RP!Given'
  BY <1>3, <1>4, SameTypes, SameSymbolTables DEF Typed, ResolverIdle, RP!Given
<1>6. RP!InitProgress'
  BY <1>1, <1>2, <1>4 DEF ResolverIdle, RP!InitProgress
<1>7. (RP!Given /\ RP!InitProgress => RP!IInv /\ RP!EncodedSoFar)'
  BY ResolverStart, PTL
<1>8. GroupedWell'
  BY <1>1, <1>2, GrouperLeaves, GroupedKept DEF PipelineInv, Running
<1>. QED
  BY <1>1, <1>3, <1>4, <1>5, <1>6, <1>7, <1>8
     DEF PipelineInv, Idle, Running, FrontStages

LEMMA ResolveStep ==
  ASSUME PipelineInv, Resolve
  PROVE  PipelineInv'
<1>1. /\ stage = "resolver" /\ stage' = "resolver" /\ UNCHANGED <<l, w>>
      /\ RP!Next
  BY ResolverActions DEF Resolve
<1>2. RP!IInv /\ RP!EncodedSoFar /\ GroupedWell
  BY <1>1 DEF PipelineInv, Running
<1>3. (RP!IInv /\ RP!EncodedSoFar)'
  BY <1>1, <1>2, ResolverStep
<1>4. Typed'
  BY <1>3, SameTypes, SameSymbolTables DEF RP!IInv, RP!TypeOK, Typed
<1>5. GroupedWell'
  BY <1>1, <1>2, ResolverKeeps, GroupedKept DEF RP!IInv
<1>6. lVisited' = 0 /\ WriterIdle'
  BY <1>1 DEF PipelineInv, Idle, WriterIdle, FrontStages, l, w
<1>. QED
  BY <1>1, <1>3, <1>4, <1>5, <1>6 DEF PipelineInv, Idle, Running, FrontStages

LEMMA CheckResolverStep ==
  ASSUME PipelineInv, CheckResolver
  PROVE  PipelineInv'
<1>1. /\ stage = "resolver" /\ stage' \in {"layout", "exit"}
      /\ stage' = "layout" => ~encoderFailed /\ ~rErrors
      /\ rPhase \in {"stable", "failed"}
      /\ UNCHANGED <<sections, symbols, encoderFailed, rPlace, lVisited, w>>
  BY DEF CheckResolver, Check, Throw, Continue, Resolver!Resolved, ir, r
<1>2. /\ RP!TypeOK /\ RP!StablePlacement /\ RP!EncodedSoFar /\ GroupedWell
      /\ Typed /\ lVisited = 0 /\ WriterIdle
  BY <1>1 DEF PipelineInv, Running, Idle, FrontStages, RP!IInv, RP!FixedPointSoFar
<1>3. Typed' /\ lVisited' = 0
  BY <1>1, <1>2 DEF Typed, IsSymbolTable
<1>4. WriterIdle'
  BY <1>1, <1>2 DEF WriterIdle, w
<1>5. GroupedWell'
  BY <1>1, <1>2, GroupedKept
<1>6. ASSUME stage' = "layout" PROVE LP!IInv'
  <2>1. LP!Given'
    BY <1>3, <1>5, SameTypes DEF Typed, GroupedWell, LP!Given
  <2>2. LP!InitProgress'
    BY <1>1, <1>3
       DEF CheckResolver, LP!InitProgress, Layout!alignUp, LP!alignUp, Layout!headersSize,
           LP!headersSize, Layout!Wrap, LP!Wrap, Layout!PAGE_SIZE, LP!PAGE_SIZE,
           Layout!TEXT_BASE, LP!TEXT_BASE, Layout!ELF_HEADER_SIZE, LP!ELF_HEADER_SIZE,
           Layout!PHDR_SIZE, LP!PHDR_SIZE
  <2>3. (LP!Given /\ LP!InitProgress => LP!IInv)'
    BY LayoutStart, PTL
  <2>. QED
    BY <2>1, <2>2, <2>3
<1>7. ASSUME stage' = "layout" PROVE ResolvedWell'
  <2>1. rPhase = "stable" /\ ~encoderFailed
    BY <1>1, <1>2, <1>7 DEF RP!EncodedSoFar
  <2>2. \A s \in DOMAIN sections :
          /\ RP!IsPlaced(rPlace[s], sections[s], symbols)
          /\ rPlace[s] \in [1 .. Len(sections[s].items) + 1 -> Word]
    BY <1>2, <2>1, SameTypes DEF RP!StablePlacement, RP!SectionPlaced, RP!TypeOK
  <2>. QED
    BY <1>1, <2>2, SamePlacement DEF ResolvedWell
<1>. QED
  BY <1>1, <1>3, <1>4, <1>5, <1>6, <1>7 DEF PipelineInv, Idle, Running, FrontStages

\* A section stays placed when it gets an address.
LEMMA PlacementKept ==
  ASSUME NEW place, NEW s, NEW t, NEW table, WP!IsPlaced(place, s, table),
         t.items = s.items, t.size = s.size
  PROVE  WP!IsPlaced(place, t, table)
BY DEF WP!IsPlaced, WP!ItemPlaced

LEMMA AssignStep ==
  ASSUME PipelineInv, AssignAddresses
  PROVE  PipelineInv'
<1>1. /\ stage = "layout" /\ stage' = "layout"
      /\ UNCHANGED <<symbols, encoderFailed, rPlace, w>>
      /\ LP!Next
  BY LayoutActions DEF AssignAddresses, r
<1>2. LP!IInv /\ GroupedWell /\ ResolvedWell /\ Typed /\ WriterIdle
  BY <1>1 DEF PipelineInv, Running, Idle, FrontStages
<1>3. LP!IInv'
  BY <1>1, <1>2, LayoutStep
<1>4. /\ Len(sections') = Len(sections) /\ DOMAIN sections' = DOMAIN sections
      /\ \A s \in DOMAIN sections :
           sections'[s].items = sections[s].items /\ sections'[s].size = sections[s].size
  BY <1>1, <1>2, LayoutKeeps DEF LP!IInv
<1>5. Typed'
  BY <1>1, <1>2, <1>3, SameTypes DEF LP!IInv, LP!TypeOK, Typed, IsSymbolTable
<1>6. GroupedWell'
  BY <1>1, <1>2, <1>4, GroupedKept
<1>7. ResolvedWell'
  BY <1>1, <1>2, <1>4, PlacementKept DEF ResolvedWell
<1>8. WriterIdle'
  BY <1>1, <1>2 DEF WriterIdle, w
<1>. QED
  BY <1>1, <1>3, <1>5, <1>6, <1>7, <1>8 DEF PipelineInv, Idle, Running, FrontStages

\* What the stages before the writer leave behind is what it is proved to need.
LEMMA LayoutLeaves ==
  ASSUME Typed, GroupedWell, ResolvedWell, LP!IInv, LP!Assigned
  PROVE  WP!LaidOut
<1>1. ASSUME NEW s \in DOMAIN sections
      PROVE  s \in 1 .. Len(sections) /\ sections[s].size \in Nat
  <2>1. s \in 1 .. Len(sections) /\ sections[s] \in Section
    BY DEF Typed
  <2>. QED
    BY <2>1, WordAssumption DEF Section, Word
<1>2. WP!NonEmptySections = LP!Placed
  BY <1>1 DEF Typed, WP!NonEmptySections, LP!Placed, LP!Assigned
<1>3. \A s \in WP!NonEmptySections : sections[s].fileOffset % 4096 = 0
  BY <1>2 DEF LP!IInv, LP!Aligned, LP!PAGE_SIZE
<1>4. ASSUME \A s \in WP!NonEmptySections : WP!EndsInAddressSpace(s)
      PROVE  WP!InOrder
  BY <1>2, <1>4
     DEF LP!IInv, LP!Ordered, LP!EndsInAddressSpace, WP!EndsInAddressSpace, WP!InOrder,
         LP!PAGE_SIZE, LP!headersSize, WP!ELF_HEADER_SIZE, LP!ELF_HEADER_SIZE,
         WP!PHDR_SIZE, LP!PHDR_SIZE
<1>. QED
  BY <1>3, <1>4, SameTypes, SameSymbolTables
     DEF Typed, GroupedWell, ResolvedWell, WP!LaidOut

LEMMA CheckLayoutStep ==
  ASSUME PipelineInv, CheckLayout
  PROVE  PipelineInv'
<1>1. /\ stage = "layout" /\ stage' = "writer" /\ Layout!Assigned
      /\ wEmitted' = [s \in DOMAIN sections |-> <<>>]
      /\ UNCHANGED <<sections, symbols, encoderFailed, wPhase, wSection, wOutSize,
                     wCurrentVaddr, wEntry, wSegments, wErrors, file>>
  BY DEF CheckLayout, Continue, ir
<1>2. LP!IInv /\ GroupedWell /\ ResolvedWell /\ Typed /\ WriterIdle
  BY <1>1 DEF PipelineInv, Running, Idle, FrontStages
<1>3. Typed'
  BY <1>1, <1>2 DEF Typed, IsSymbolTable
<1>4. WP!LaidOut
  BY <1>1, <1>2, LayoutLeaves DEF Layout!Assigned, LP!Assigned
<1>5. WP!LaidOut'
  <2>1. sections' = sections /\ symbols' = symbols
    BY <1>1
  <2>2. WP!LabelsPoint' /\ WP!AlignmentsPositive'
    BY <1>4, <2>1, SMTT(30)
       DEF WP!LaidOut, WP!LabelsPoint, WP!AlignmentsPositive, WP!PointsAtDefinition
  <2>3. /\ WP!NonEmptySections' = WP!NonEmptySections
        /\ WP!InOrder' = WP!InOrder
        /\ \A s : WP!EndsInAddressSpace(s)' = WP!EndsInAddressSpace(s)
    BY <2>1 DEF WP!NonEmptySections, WP!InOrder, WP!EndsInAddressSpace
  <2>. QED
    BY <1>4, <2>1, <2>2, <2>3 DEF WP!LaidOut, WP!IsSymbolTable
<1>6. WP!InitProgress'
  BY <1>1, <1>2 DEF WriterIdle, WP!InitProgress
<1>7. (WP!InitProgress /\ WP!LaidOut => WP!IInv)'
  BY WriterStart, PTL
<1>. QED
  BY <1>1, <1>3, <1>5, <1>6, <1>7 DEF PipelineInv, Idle, Running, FrontStages

LEMMA WriteStep ==
  ASSUME PipelineInv, Write
  PROVE  PipelineInv'
<1>1. stage = "writer" /\ stage' = "writer" /\ WP!Next
  BY WriterActions DEF Write
<1>2. WP!IInv /\ Typed
  BY <1>1 DEF PipelineInv, Running
<1>3. WP!IInv'
  BY <1>1, <1>2, WriterStep
<1>4. encoderFailed' \in {encoderFailed, TRUE}
  BY Zenon DEF Write, Writer!write, Writer!emitSection, Writer!NoEntryPoint, Writer!EmitHeaders,
         Writer!SkipSection, Writer!EnterSection, Writer!LeaveSection, Writer!EndImage,
         Writer!CannotOpen, Writer!OpenFile, Writer!WriteFile, Writer!EmitInstruction,
         Writer!EmitInstructionFailing, Writer!EmitData, Writer!EmitLabel
<1>5. Typed'
  <2>1. encoderFailed' \in BOOLEAN
    BY <1>2, <1>4, Zenon DEF Typed
  <2>2. sections' \in Seq(Section) /\ IsSymbolTable(symbols')
    BY <1>3, SameTypes, SameSymbolTables DEF WP!IInv, WP!TypeOK, WP!LaidOut
  <2>. QED
    BY <2>1, <2>2 DEF Typed
<1>. QED
  BY <1>1, <1>3, <1>5 DEF PipelineInv, Idle, Running, FrontStages

LEMMA CheckWriterStep ==
  ASSUME PipelineInv, CheckWriter
  PROVE  PipelineInv'
<1>1. /\ stage = "writer" /\ stage' = "exit"
      /\ UNCHANGED <<sections, symbols, encoderFailed, w>>
  BY DEF CheckWriter, ir
<1>2. UNCHANGED WP!vars
  BY <1>1 DEF WP!vars, WP!progress, w
<1>3. WP!IInv'
  BY <1>1, <1>2, WriterStep DEF PipelineInv, Running
<1>4. Typed'
  BY <1>1 DEF PipelineInv, Typed, IsSymbolTable
<1>. QED
  BY <1>1, <1>3, <1>4 DEF PipelineInv, Idle, Running, FrontStages

LEMMA PipelineStutters ==
  ASSUME PipelineInv, UNCHANGED vars
  PROVE  PipelineInv'
<1>1. UNCHANGED <<stage, flat, sections, symbols, encoderFailed, g, r, l, w>>
  BY DEF vars, ir
<1>2. UNCHANGED <<GP!vars, RP!vars, LP!vars, WP!vars>>
  BY <1>1 DEF GP!vars, RP!vars, RP!progress, LP!vars, LP!progress, WP!vars, WP!progress,
              g, r, l, w
<1>3. Typed'
  BY <1>1 DEF PipelineInv, Typed, IsSymbolTable
<1>4. Idle'
  BY <1>1 DEF PipelineInv, Idle, GP!InitProgress, ResolverIdle, WriterIdle, FrontStages,
              g, r, l, w
<1>5. GroupedWell => GroupedWell'
  BY <1>1, GroupedKept
<1>6. ResolvedWell => ResolvedWell'
  BY <1>1 DEF ResolvedWell, r
<1>7. WriterIdle => WriterIdle'
  BY <1>1 DEF WriterIdle, w
<1>8. Running'
  BY <1>1, <1>2, <1>5, <1>6, <1>7, GrouperStep, ResolverStep, LayoutStep, WriterStep
     DEF PipelineInv, Running
<1>. QED
  BY <1>3, <1>4, <1>8 DEF PipelineInv

LEMMA PipelineStep ==
  PipelineInv /\ WellFormed /\ WellFormed' /\ [Next]_vars => PipelineInv'
BY FrontStep, CheckParserStep, GroupStep, CheckGrouperStep, ResolveStep, CheckResolverStep,
   AssignStep, CheckLayoutStep, WriteStep, CheckWriterStep, PipelineStutters
   DEF Next, run, Exited

-----------------------------------------------------------------------------
(* The image of the program *)

\* The properties of the image mean the same in both instances.
LEMMA SameMeasure == Writer!AsMeasured = WP!AsMeasured
BY DEF Writer!AsMeasured, WP!AsMeasured, Writer!NothingWraps, WP!NothingWraps,
       Writer!NonEmptySections, WP!NonEmptySections, Writer!AlikeMeasured, WP!AlikeMeasured

LEMMA SameProperties ==
  /\ WP!AlikeMeasuredLabelsLand => AlikeMeasuredLabelsLand
  /\ WP!SegmentsHoldTheirSections => SegmentsHoldTheirSections
  /\ WP!CallsReachTheirLabels => CallsReachTheirLabels
  /\ WP!EntryIsAtStart => EntryIsAtStart
<1>1. /\ Writer!EmittedSections = WP!EmittedSections
      /\ Writer!StartSites = WP!StartSites
      /\ Writer!Built = WP!Built
  BY DEF Writer!EmittedSections, WP!EmittedSections, Writer!StartSites, WP!StartSites,
         Writer!Built, WP!Built, Writer!LabelOf, WP!LabelOf
<1>2. /\ \A s, i : Writer!ImageOffset(s, i) = WP!ImageOffset(s, i)
      /\ \A s : Writer!CodeBeforeData(s) = WP!CodeBeforeData(s)
      /\ \A s : Writer!InstructionsIn(s) = WP!InstructionsIn(s)
      /\ \A it : Writer!LabelOf(it) = WP!LabelOf(it)
  BY DEF Writer!ImageOffset, WP!ImageOffset, Writer!CodeBeforeData, WP!CodeBeforeData,
         Writer!InstructionsIn, WP!InstructionsIn, Writer!LabelOf, WP!LabelOf
<1>3. WP!AlikeMeasuredLabelsLand => AlikeMeasuredLabelsLand
  BY <1>1, <1>2, SameMeasure
     DEF AlikeMeasuredLabelsLand, Writer!AlikeMeasuredLabelsLand,
         WP!AlikeMeasuredLabelsLand, Writer!LabelsLandWhereResolved,
         WP!LabelsLandWhereResolved
<1>4. WP!SegmentsHoldTheirSections => SegmentsHoldTheirSections
  BY <1>1, SameMeasure
     DEF SegmentsHoldTheirSections, Writer!SegmentsHoldTheirSections,
         WP!SegmentsHoldTheirSections, Writer!items, WP!items
<1>5. WP!CallsReachTheirLabels => CallsReachTheirLabels
  BY <1>1, <1>2, SameMeasure, WriterLengths, WriterFailures
     DEF CallsReachTheirLabels, Writer!CallsReachTheirLabels, WP!CallsReachTheirLabels
<1>6. WP!EntryIsAtStart => EntryIsAtStart
  BY <1>1, <1>2, SameMeasure
     DEF EntryIsAtStart, Writer!EntryIsAtStart, WP!EntryIsAtStart
<1>. QED
  BY <1>3, <1>4, <1>5, <1>6

LEMMA PipelineProperties ==
  PipelineInv => /\ AlikeMeasuredLabelsLand
                 /\ SegmentsHoldTheirSections
                 /\ CallsReachTheirLabels
                 /\ EntryIsAtStart
<1>1. WP!IInv => /\ AlikeMeasuredLabelsLand /\ SegmentsHoldTheirSections
                 /\ CallsReachTheirLabels /\ EntryIsAtStart
  BY WriterProperties, SameProperties
<1>2. WriterIdle => /\ WP!AlikeMeasuredLabelsLand /\ WP!SegmentsHoldTheirSections
                    /\ WP!CallsReachTheirLabels /\ WP!EntryIsAtStart
  BY DEF WriterIdle, WP!AlikeMeasuredLabelsLand, WP!LabelsLandWhereResolved,
         WP!SegmentsHoldTheirSections, WP!CallsReachTheirLabels, WP!EntryIsAtStart,
         WP!EmittedSections, WP!Built
<1>3. PipelineInv => WriterIdle \/ WP!IInv
  BY DEF PipelineInv, Idle, Running
<1>. QED
  BY <1>1, <1>2, <1>3, SameProperties

LEMMA PipelineInvariance == Spec => []PipelineInv
<1>1. SourceRead => WellFormed
  BY DEF SourceRead
<1>. QED
  BY <1>1, PipelineStart, PipelineStep, SourceInvariance, PTL DEF Spec

\* The next four theorems are about images in which the resolver and the writer have
\* measured all items alike, without an error and without wrapped arithmetic
\* (AsMeasured), which a string in dw, an alignment beyond the page or a huge
\* reservation prevents.

\* In the image of any source that is AsMeasured, labels are where the symbol
\* table says.
THEOREM LabelsLandInImage == Spec => []AlikeMeasuredLabelsLand
BY PipelineProperties, PipelineInvariance, PTL

\* In such an image, each section is as long as its segment, and the file
\* as long as its program headers say.
THEOREM SegmentsHoldInImage == Spec => []SegmentsHoldTheirSections
BY PipelineProperties, PipelineInvariance, PTL

\* In such an image, the calls of sections that have no data before an instruction
\* (CodeBeforeData) reach the bytes of their labels.
THEOREM CallsReachInImage == Spec => []CallsReachTheirLabels
BY PipelineProperties, PipelineInvariance, PTL

\* Such an image is entered where _start is, if exactly one item defines it, in a
\* section that is emitted.
THEOREM ImageEnteredAtStart == Spec => []EntryIsAtStart
BY PipelineProperties, PipelineInvariance, PTL

-----------------------------------------------------------------------------
(* Types *)

LEMMA EmittedType ==
  ASSUME PipelineInv, NEW s \in DOMAIN wEmitted
  PROVE  wEmitted[s] \in Seq([at : Nat, base : Nat])
<1>. DEFINE T == [at : Nat, base : Word]  U == [at : Nat, base : Nat]
<1>1. WP!IInv
  BY DEF PipelineInv, Idle, Running, WriterIdle
<1>2. wEmitted[s] \in Seq(T)
  BY <1>1, SameTypes, Zenon DEF WP!IInv, WP!TypeOK
<1>3. T \subseteq U
  BY WordAssumption DEF Word
<1>. HIDE DEF T, U
<1>4. wEmitted[s] \in Seq(U)
  BY <1>2, <1>3
<1>. QED
  BY <1>4 DEF U

\* The pipeline keeps its state well formed, from one stage to the next: at every
\* time there is a program of typed sections and a symbol table, whoever works on it.
THEOREM TypeCorrect == Spec => []TypeOK
<1>1. PipelineInv /\ StatusOK /\ WellFormed => TypeOK
  BY EmittedType DEF PipelineInv, Typed, StatusOK, TypeOK
<1>2. SourceRead => WellFormed
  BY DEF SourceRead
<1>. QED
  BY <1>1, <1>2, SourceInvariance, PipelineInvariance, PTL

-----------------------------------------------------------------------------
(* No error is missed *)

\* Every instruction of the program stands in some section.
InstructionsPlaced ==
  \A i \in DOMAIN flat : flat[i].kind = "INSTR" =>
    \E s \in DOMAIN sections : \E j \in DOMAIN sections[s].items :
      sections[s].items[j] = flat[i]

SoundSoFar ==
  /\ stage = "resolver" => InstructionsPlaced
  /\ stage \in {"layout", "writer"} => InstructionsAreSound
  /\ status = "EXIT_SUCCESS" => InstructionsAreSound

LEMMA SoundStart == Init => SoundSoFar
BY DEF Init, SoundSoFar

LEMMA SoundStep ==
  PipelineInv /\ StatusOK /\ SoundSoFar /\ [Next]_vars => SoundSoFar'
<1>. SUFFICES ASSUME PipelineInv, StatusOK, SoundSoFar, [Next]_vars PROVE SoundSoFar'
  OBVIOUS
<1>1. CASE \/ ReadSource \/ CheckLexer \/ Tokenize \/ TokenizeThrows \/ HandTokensOver
           \/ Parse \/ CheckParser \/ Group
  <2>1. stage' \notin {"resolver", "layout", "writer"} /\ status' # "EXIT_SUCCESS"
    BY <1>1 DEF ReadSource, CheckLexer, Tokenize, TokenizeThrows, HandTokensOver, Parse,
                CheckParser, Group, Check, Throw, Continue, StatusOK
  <2>. QED
    BY <2>1 DEF SoundSoFar
<1>2. CASE CheckGrouper
  <2>1. /\ stage = "grouper" /\ stage' \in {"resolver", "exit"} /\ status' # "EXIT_SUCCESS"
        /\ Grouper!Grouped /\ (stage' = "resolver" => gErrors = <<>>)
        /\ UNCHANGED <<flat, sections, symbols>>
    BY <1>2 DEF CheckGrouper, Check, Throw, Continue, StatusOK, ir
  <2>2. GP!IInv /\ GP!Grouped
    BY <2>1 DEF PipelineInv, Running, Grouper!Grouped, GP!Grouped
  <2>3. gErrors = <<>> => InstructionsPlaced
    BY <2>2, GrouperDropsNothing DEF InstructionsPlaced, GP!IsItem
  <2>. QED
    BY <2>1, <2>3 DEF SoundSoFar, InstructionsPlaced
<1>3. CASE Resolve
  <2>1. stage = "resolver" /\ UNCHANGED <<stage, status, flat>> /\ RP!Next
    BY <1>3, ResolverActions DEF Resolve
  <2>2. RP!TypeOK /\ InstructionsPlaced /\ status = "running"
    BY <2>1 DEF PipelineInv, Running, RP!IInv, SoundSoFar, StatusOK
  <2>3. InstructionsPlaced'
    BY <2>1, <2>2, ResolverKeeps DEF InstructionsPlaced
  <2>. QED
    BY <2>1, <2>2, <2>3 DEF SoundSoFar
<1>4. CASE CheckResolver
  <2>1. /\ stage = "resolver" /\ stage' \in {"layout", "exit"} /\ status' # "EXIT_SUCCESS"
        /\ stage' = "layout" => ~encoderFailed /\ ~rErrors
        /\ rPhase \in {"stable", "failed"}
        /\ UNCHANGED <<flat, symbols>>
    BY <1>4 DEF CheckResolver, Check, Throw, Continue, Resolver!Resolved, StatusOK, ir
  <2>2. RP!EncodedSoFar /\ InstructionsPlaced
    BY <2>1 DEF PipelineInv, Running, SoundSoFar
  <2>3. ASSUME stage' = "layout" PROVE InstructionsAreSound
    <3>1. rPhase = "stable" /\ ~encoderFailed
      BY <2>1, <2>2, <2>3 DEF RP!EncodedSoFar
    <3>2. \A s \in DOMAIN sections : \A j \in DOMAIN sections[s].items :
            sections[s].items[j].kind = "INSTR" => RP!Sound(sections[s].items[j])
      BY <2>2, <3>1 DEF RP!EncodedSoFar
    <3>. QED
      BY <2>2, <3>2, SameSoundness, ZenonT(30) DEF InstructionsPlaced, InstructionsAreSound
  <2>. QED
    BY <2>1, <2>3 DEF SoundSoFar, InstructionsAreSound, UndefinedTerm, UndefinedTarget
<1>5. CASE AssignAddresses \/ CheckLayout \/ Write \/ CheckWriter
  <2>1. stage \in {"layout", "writer"} /\ stage' \in {"layout", "writer", "exit"}
    BY <1>5 DEF AssignAddresses, CheckLayout, Write, CheckWriter, Continue
  <2>2. UNCHANGED <<flat, symbols>>
    BY <1>5, WriterActions, WriterKeeps
       DEF AssignAddresses, CheckLayout, Write, CheckWriter, ir
  <2>. QED
    BY <2>1, <2>2 DEF SoundSoFar, InstructionsAreSound, UndefinedTerm, UndefinedTarget
<1>6. CASE UNCHANGED vars
  <2>1. UNCHANGED <<stage, status, flat, sections, symbols>>
    BY <1>6 DEF vars, ir
  <2>. QED
    BY <2>1 DEF SoundSoFar, InstructionsPlaced, InstructionsAreSound, UndefinedTerm,
                UndefinedTarget
<1>. QED
  BY <1>1, <1>2, <1>3, <1>4, <1>5, <1>6 DEF Next, run, Exited

\* A run that succeeds has found no error in the source but unknown escapes, although
\* nobody looks at the lexer's errors after it has run; and it has encoded every
\* instruction: each has a pattern, and the symbols it names are defined.
THEOREM NoErrorIsMissed == Spec => []AcceptedSourcesAreSound
<1>1. SourceRead /\ SoundSoFar => AcceptedSourcesAreSound
  BY DEF SourceRead, SoundSoFar, AcceptedSourcesAreSound
<1>2. Spec => []SoundSoFar
  BY SoundStart, SoundStep, SourceInvariance, PipelineInvariance, PTL DEF Spec
<1>. QED
  BY <1>1, <1>2, SourceInvariance, PTL

=============================================================================
