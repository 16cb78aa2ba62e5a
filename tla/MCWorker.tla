------------------------------ MODULE MCWorker ------------------------------
(***************************************************************************)
(* A small instance of Worker: 5 blocks of 2 bytes.                        *)
(*   block 0  null guard, no permissions                                   *)
(*   block 1  code, READ|EXEC                                              *)
(*   block 2  data, READ|WRITE                                             *)
(*   block 3  the snapshot's own allocation (the stack main() allocates    *)
(*            and pushes argv onto): WRITE|RAW promoted to READ            *)
(*   block 4  free heap; the snapshot's bump pointer is at its start       *)
(* Heap room for exactly one new 2-byte allocation per case, so that       *)
(* allocation, out-of-memory, realloc with a copy and free all happen.     *)
(***************************************************************************)
EXTENDS Worker

MCGolden ==
  [mem      |-> [a \in Addr |-> IF a \in 2 .. 3 THEN 1 ELSE 0],
   perms    |-> [a \in Addr |->
                   CASE a \in 2 .. 3 -> {R, X}
                     [] a \in 4 .. 5 -> {R, W}
                     [] a \in 6 .. 7 -> {R, W, RAW}
                     [] OTHER        -> {}],
   dirty    |-> [i \in Slots |-> NoBlock],
   dirtyLen |-> 0,
   bitmap   |-> [b \in Blocks |-> FALSE],
   curAlc   |-> 8,
   alcs     |-> [a \in Addr |-> IF a = 6 THEN 2 ELSE NoAlc]]
=============================================================================
