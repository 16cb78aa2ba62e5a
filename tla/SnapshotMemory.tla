--------------------------- MODULE SnapshotMemory ---------------------------
(***************************************************************************)
(* What a forked emulator's memory promises the fuzzing loop: a fuzz case  *)
(* starts from exactly the snapshot's bytes and permissions, and while it  *)
(* runs a byte's value changes only if the byte was writable.              *)
(* (spec sections 3, invariants 1 and 2, and 8, property 2.)              *)
(***************************************************************************)
CONSTANTS
  Addr,         \* guest addresses
  Vals,         \* byte values
  PermBits,     \* the permission flags
  W,            \* the WRITE flag
  GoldenMem,    \* the snapshot's bytes
  GoldenPerms   \* the snapshot's permissions

VARIABLES amem, aperms, aphase

avars == <<amem, aperms, aphase>>

Init ==
  /\ amem   = GoldenMem
  /\ aperms = GoldenPerms
  /\ aphase = "idle"

\* A new case: memory is the snapshot again.
Restore ==
  /\ aphase  = "idle"
  /\ amem'   = GoldenMem
  /\ aperms' = GoldenPerms
  /\ aphase' = "running"

\* A step of a running case: a byte's value changes only if it is writable
\* before or after the step (one host callback may allocate a range and
\* fill it); permissions may change (allocation, free, first write).
Mutate ==
  /\ aphase = "running"
  /\ amem'   \in [Addr -> Vals]
  /\ aperms' \in [Addr -> SUBSET PermBits]
  /\ \A a \in Addr : amem'[a] /= amem[a] => W \in aperms[a] \cup aperms'[a]
  /\ UNCHANGED aphase

\* The case ends.
Finish ==
  /\ aphase  = "running"
  /\ aphase' = "idle"
  /\ UNCHANGED <<amem, aperms>>

Next == Restore \/ Mutate \/ Finish

Spec == Init /\ [][Next]_avars
=============================================================================
