------------------------------ MODULE Listing ------------------------------
(***************************************************************************)
(* A notation for statements, used by the MC modules to write programs.    *)
(***************************************************************************)
EXTENDS AsmProgram

instr(head, disp, terms, extra, target) ==
  [kind |-> "INSTR", match |-> TRUE, head |-> head, disp |-> disp,
   terms |-> terms, extra |-> extra, target |-> target, imm |-> 0]

plus(n)  == [sign |-> 1, name |-> n]
minus(n) == [sign |-> -1, name |-> n]

nop     == instr(1, 0, <<>>, "NONE", NoName)
call(n) == instr(1, 0, <<>>, "REL32", n)
jmp(n)  == instr(1, 0, <<>>, "REL8", n)

\* mov rax, n
load(n) == instr(2, 0, <<>>, "IMM64", n)

\* mov rax, [rbx + disp + terms]: REX, opcode, ModRM and the displacement
access(disp, terms) == instr(3, disp, terms, "NONE", NoName)

\* An instruction whose operands fit no pattern of the opcode table.
unknown == [nop EXCEPT !.match = FALSE]

label(n) == [kind |-> "LABEL", label |-> n]

data(n, dir, nums, count) ==
  [kind |-> "DATA", label |-> n, dir |-> dir, nums |-> nums, chars |-> 0,
   count |-> count]

string(n, dir, chars) == [data(n, dir, 0, 1) EXCEPT !.chars = chars]

reserve(bytes) == data(NoName, "RESB", 0, bytes)
align(bytes)   == data(NoName, "ALIGN", 0, bytes)

directive(type) == [kind |-> "SECTION", type |-> type]
equ(n, v)       == [kind |-> "EQU", name |-> n, value |-> v]
global(n)       == [kind |-> "GLOBAL", name |-> n]

=============================================================================
