------------------------------ MODULE MCLayout ------------------------------
(***************************************************************************)
(* Layout on every list of up to three sections whose sizes are around     *)
(* page boundaries, or so large that the 64-bit sums wrap around (the word *)
(* is scaled down to WordSize).                                            *)
(***************************************************************************)
EXTENDS Layout

CONSTANT start

MCName == {start}

Sizes == {0, 1, 4095, 4096, 4097, 9000, WordSize - TEXT_BASE - 8192, WordSize - 1}

Sized(type, size) ==
  [type |-> type, items |-> <<>>, size |-> size, fileOffset |-> 0, virtualAddr |-> 0]

Types == <<"DATA", "TEXT", "BSS">>

MCSizedPrograms ==
  { [s \in DOMAIN sizes |-> Sized(Types[s], sizes[s])] :
      sizes \in UNION { [1 .. n -> Sizes] : n \in 0 .. 3 } }

=============================================================================
