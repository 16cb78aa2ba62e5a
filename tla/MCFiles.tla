------------------------------- MODULE MCFiles -------------------------------
(***************************************************************************)
(* Files with the snapshot's table of main(): stdin, stdout and stderr      *)
(* (Emulator::new); the snapshot is taken at the guest's first open().     *)
(***************************************************************************)
EXTENDS Files

MCGoldenFiles == <<File("Stdin", 0), File("Stdout", 0), File("Stderr", 0)>>

\* lseek offsets: negative (clamped to 0), small, past the end.
MCOffsets == {-1, 1, 4}
=============================================================================
