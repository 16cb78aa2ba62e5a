------------------------------- MODULE MCExec -------------------------------
(***************************************************************************)
(* A guest with every kind of control transfer the JIT handles:           *)
(*   0  a load or store             6  ret (jalr zero, 0(ra))               *)
(*   1  auipc ra   (ra := 6)        7  free: a fallible shim, then ret      *)
(*   2  jalr ra, 0(ra)  far call    8  ecall                                *)
(*   3  branch back to 0            9  ebreak                               *)
(*   4  branch to 8                10  j 0                                  *)
(*   5  jal ra, 7   call free                                              *)
(* Slot 11 is not executable.  Every loop passes a coverage event.          *)
(***************************************************************************)
EXTENDS Exec, TLC

Op(k)        == [k |-> k]
Br(t)        == [k |-> "br", t |-> t]
J(t, link)   == [k |-> "jal", t |-> t, link |-> link]
Jr(off, link) == [k |-> "jalr", off |-> off, link |-> link]

MCProg ==
  (0 :> Op("mem")) @@ (1 :> [k |-> "auipc", v |-> 6]) @@ (2 :> Jr(0, TRUE))
  @@ (3 :> Br(0)) @@ (4 :> Br(8)) @@ (5 :> J(7, TRUE)) @@ (6 :> Jr(0, FALSE))
  @@ (7 :> Jr(0, FALSE)) @@ (8 :> Op("ecall")) @@ (9 :> Op("ebreak"))
  @@ (10 :> J(0, FALSE))
=============================================================================
