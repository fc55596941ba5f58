------------------------- MODULE AssemblerContract -------------------------
(***************************************************************************)
(* What a run of the assembler promises to whoever started it, in terms of *)
(* the exit status and the output file alone: a run that fails leaves the  *)
(* output file as it was; a run that succeeds has opened it and handed the *)
(* whole image to the file system. That the file is complete it does not   *)
(* promise: what is lost while it is written is lost unnoticed, and an     *)
(* action of its own (SucceedUnaware) says so.                             *)
(***************************************************************************)
VARIABLES
  status,  \* running, EXIT_SUCCESS or EXIT_FAILURE
  file     \* the output file: old, truncated, partial or complete

vars == <<status, file>>

Init == status = "running" /\ file = "old"

Fail ==
  /\ status = "running"
  /\ file = "old"
  /\ status' = "EXIT_FAILURE"
  /\ UNCHANGED file

OpenOutput ==
  /\ status = "running"
  /\ file = "old"
  /\ file' = "truncated"
  /\ UNCHANGED status

WriteOutput ==
  /\ status = "running"
  /\ file = "truncated"
  /\ file' = "complete"
  /\ UNCHANGED status

\* A fault of the file system: a full disk, say.
LoseOutput ==
  /\ status = "running"
  /\ file = "truncated"
  /\ file' = "partial"
  /\ UNCHANGED status

Succeed ==
  /\ status = "running"
  /\ file = "complete"
  /\ status' = "EXIT_SUCCESS"
  /\ UNCHANGED file

\* ElfWriter::write() does not look at the stream it has written to.
SucceedUnaware ==
  /\ status = "running"
  /\ file = "partial"
  /\ status' = "EXIT_SUCCESS"
  /\ UNCHANGED file

Next == Fail \/ OpenOutput \/ WriteOutput \/ LoseOutput \/ Succeed \/ SucceedUnaware

Spec == Init /\ [][Next]_vars

\* A run ends, with one of the two exit statuses.
Ends == <>(status # "running")

=============================================================================
