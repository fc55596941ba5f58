--------------------------- MODULE PatternEncoder ---------------------------
(***************************************************************************)
(* InstructionEncoder::encode(): the bytes of one instruction. Matching a  *)
(* pattern, then one action per part of the instruction, in the order in   *)
(* which emitPattern() appends them to the buffer.                         *)
(*                                                                         *)
(* Bytes have 256 values. The wider words are scaled down to what TLC can  *)
(* count: a 32-bit word has 2 * Rel32Limit values, a 64-bit one WordSize.  *)
(***************************************************************************)
EXTENDS PatternMatcher

CONSTANT Requests  \* calls of encode(): [instruction, symbols, sections, baseVaddr]

VARIABLES
  instruction, symbols, sections, baseVaddr,  \* the arguments
  phase,
  pattern,  \* the pattern that matched, <<>> if none has
  buffer,
  errors    \* what addError() was called for

arguments == <<instruction, symbols, sections, baseVaddr>>
vars == <<instruction, symbols, sections, baseVaddr, phase, pattern, buffer, errors>>

Byte == 0 .. 255

Init ==
  /\ \E r \in Requests :
       /\ instruction = r.instruction /\ symbols = r.symbols
       /\ sections = r.sections /\ baseVaddr = r.baseVaddr
  /\ phase = "match"
  /\ pattern = <<>>
  /\ buffer = <<>>
  /\ errors = <<>>

Phase == {"match", "prefix", "opcode", "modrm", "extra", "done"}

TypeOK ==
  /\ instruction \in ParsedInstruction
  /\ IsSymbolTable(symbols)
  /\ sections \in Seq(Section)
  /\ baseVaddr \in Word
  /\ phase \in Phase
  /\ pattern = <<>> \/ pattern \in OpcodePattern
  /\ (pattern = <<>>) => buffer = <<>>
  /\ buffer \in Seq(Byte)
  /\ errors \in Seq({"pattern", "symbol", "label", "range"})

-----------------------------------------------------------------------------
(* Bytes *)

modRM(mod, reg, rmField) == mod * 64 + reg * 8 + rmField

sibByte(scale, index, base) ==
  (CASE scale = 8 -> 3 [] scale = 4 -> 2 [] scale = 2 -> 1 [] OTHER -> 0) * 64
    + index * 8 + base

LittleEndian[value \in Int, count \in Nat] ==
  IF count = 0 THEN <<>> ELSE <<value % 256>> \o LittleEndian[value \div 256, count - 1]

DwordSize == 2 * Rel32Limit

\* Mutant: the value is not cut to a byte.
emitUncut(value, extra) ==
  CASE extra = "IMM8"  -> <<value>>
    [] extra = "IMM16" -> LittleEndian[value, 2]
    [] extra = "IMM32" -> LittleEndian[value % DwordSize, 4]
    [] extra = "IMM64" -> LittleEndian[value % WordSize, 8]
    [] OTHER -> <<>>

emitImm(value, extra) ==
  CASE extra = "IMM8"  -> LittleEndian[value, 1]
    [] extra = "IMM16" -> LittleEndian[value, 2]
    [] extra = "IMM32" -> LittleEndian[value % DwordSize, 4]
    [] extra = "IMM64" -> LittleEndian[value % WordSize, 8]
    [] OTHER -> <<>>

\* Mutant: 128 is taken for a signed byte.
emitWideMem(mem, disp, regField) ==
  LET mod  == IF disp = 0 THEN 0 ELSE IF disp \in -128 .. 128 THEN 1 ELSE 2
      base == IF mem.base = NoName THEN 0 ELSE RegisterCode[mem.base]
  IN (IF mem.index = NoName THEN <<modRM(mod, regField, base)>>
      ELSE <<modRM(mod, regField, 4), sibByte(mem.scale, RegisterCode[mem.index], base)>>)
       \o emitImm(disp, CASE mod = 1 -> "IMM8" [] mod = 2 -> "IMM32" [] OTHER -> "NONE")

\* ModRM, SIB and displacement. An operand without a base is encoded with base 0.
emitMem(mem, disp, regField) ==
  LET mod  == IF disp = 0 THEN 0 ELSE IF disp \in -128 .. 127 THEN 1 ELSE 2
      base == IF mem.base = NoName THEN 0 ELSE RegisterCode[mem.base]
  IN (IF mem.index = NoName THEN <<modRM(mod, regField, base)>>
      ELSE <<modRM(mod, regField, 4), sibByte(mem.scale, RegisterCode[mem.index], base)>>)
       \o emitImm(disp, CASE mod = 1 -> "IMM8" [] mod = 2 -> "IMM32" [] OTHER -> "NONE")

-----------------------------------------------------------------------------
(* encode() *)

Continue(from, to) == phase = from /\ phase' = to /\ UNCHANGED arguments

matchPattern ==
  /\ Continue("match", "prefix")
  /\ Matching(instruction) # {}
  /\ pattern' = FirstMatch(instruction)
  /\ UNCHANGED <<buffer, errors>>

NoPattern ==
  /\ Continue("match", "done")
  /\ Matching(instruction) = {}
  /\ errors' = Append(errors, "pattern")
  /\ UNCHANGED <<pattern, buffer>>

EmitPrefixes ==
  /\ Continue("prefix", "opcode")
  /\ buffer' = PrefixBytes(instruction)
  /\ UNCHANGED <<pattern, errors>>

FirstRegister ==
  LET places == {k \in DOMAIN instruction.operands : IsA(instruction.operands[k], "REG")}
  IN instruction.operands[Min(places)].reg

EmitOpcode ==
  /\ Continue("opcode", "modrm")
  /\ LET bytes == pattern.baseBytes
     IN buffer' = buffer \o IF pattern.regInOpcode
                              THEN [bytes EXCEPT ![Len(bytes)] = @ + RegisterCode[FirstRegister]]
                              ELSE bytes
  /\ UNCHANGED <<pattern, errors>>

RM == IF pattern.hasModRM THEN RMOperand(instruction, pattern) ELSE <<>>

NoModRM ==
  /\ Continue("modrm", "extra")
  /\ RM = <<>>
  /\ UNCHANGED <<pattern, buffer, errors>>

EmitRegister ==
  /\ Continue("modrm", "extra")
  /\ RM # <<>> /\ IsA(RM[1], "REG")
  /\ buffer' = Append(buffer, modRM(3, RegField(instruction, pattern), RegisterCode[RM[1].reg]))
  /\ UNCHANGED <<pattern, errors>>

Undefined(mem) ==
  \E k \in DOMAIN mem.symbols : mem.symbols[k].name \notin DOMAIN symbols

DisplacementOf(mem) ==
  FoldLeft(LAMBDA sum, term : sum + term.sign * TermValue(term.name, symbols),
           mem.displacement, mem.symbols)

emitMemOperand ==
  /\ Continue("modrm", "extra")
  /\ RM # <<>> /\ IsA(RM[1], "MEM")
  /\ ~Undefined(RM[1].mem)
  /\ buffer' = buffer \o emitMem(RM[1].mem, DisplacementOf(RM[1].mem),
                                 RegField(instruction, pattern))
  /\ UNCHANGED <<pattern, errors>>

\* Nothing is emitted, but what follows is.
UndefinedSymbol ==
  /\ Continue("modrm", "extra")
  /\ RM # <<>> /\ IsA(RM[1], "MEM")
  /\ Undefined(RM[1].mem)
  /\ errors' = Append(errors, "symbol")
  /\ UNCHANGED <<pattern, buffer>>

Extra == IF pattern.extra = "NONE" THEN <<>> ELSE ExtraOperand(instruction)

NoExtra ==
  /\ Continue("extra", "done")
  /\ Extra = <<>>
  /\ UNCHANGED <<pattern, buffer, errors>>

\* resolveImm() of the operand, and the error it may add.
Resolved ==
  resolveImm([target |-> TargetOf(Extra[1]), imm |-> ValueOf(Extra[1])], symbols, sections)

LabelErrors ==
  IF IsA(Extra[1], "LABEL") /\ Extra[1].label \notin DOMAIN symbols THEN <<"label">> ELSE <<>>

EmitImmediate ==
  /\ Continue("extra", "done")
  /\ Extra # <<>> /\ pattern.extra \notin {"REL8", "REL32"}
  /\ buffer' = buffer \o emitImm(Resolved, pattern.extra)
  /\ errors' = errors \o LabelErrors
  /\ UNCHANGED pattern

\* Mutant: measured from the relative operand instead of its end.
EmitShortFromStart ==
  /\ Continue("extra", "done")
  /\ Extra # <<>> /\ pattern.extra = "REL8"
  /\ buffer' = buffer \o emitImm(Resolved - (baseVaddr + Len(buffer)), "IMM8")
  /\ errors' = errors \o LabelErrors
  /\ UNCHANGED pattern

\* Cut to a byte.
EmitShort ==
  /\ Continue("extra", "done")
  /\ Extra # <<>> /\ pattern.extra = "REL8"
  /\ buffer' = buffer \o emitImm(Resolved - (baseVaddr + Len(buffer) + 1), "IMM8")
  /\ errors' = errors \o LabelErrors
  /\ UNCHANGED pattern

calcRel32 == Resolved - (baseVaddr + Len(buffer) + 4)

EmitNear ==
  /\ Continue("extra", "done")
  /\ Extra # <<>> /\ pattern.extra = "REL32"
  /\ IF calcRel32 \in -Rel32Limit .. Rel32Limit - 1
       THEN buffer' = buffer \o emitImm(calcRel32, "IMM32") /\ errors' = errors \o LabelErrors
       ELSE buffer' = buffer \o emitImm(0, "IMM32") /\ errors' = errors \o LabelErrors \o <<"range">>
  /\ UNCHANGED pattern

encode ==
  \/ matchPattern
  \/ NoPattern
  \/ EmitPrefixes
  \/ EmitOpcode
  \/ NoModRM
  \/ EmitRegister
  \/ emitMemOperand
  \/ UndefinedSymbol
  \/ NoExtra
  \/ EmitImmediate
  \/ EmitShort
  \/ EmitNear

Next == encode

Spec == Init /\ [][Next]_vars

-----------------------------------------------------------------------------
(* Properties *)

Done    == phase = "done"
Encoded == Done /\ errors = <<>>

\* SizeResolver and ElfWriter are checked with InstructionEncoder, which knows
\* only lengths and error conditions of an abstract instruction: these are the
\* ones of the bytes.
AbstractionAgrees ==
  LET i == view(instruction) IN
  Done => /\ errors # <<>> <=> EncodeFails(i, symbols, sections, baseVaddr)
          /\ errors = <<>> => Len(buffer) = EncodedLength(i, symbols)

=============================================================================
