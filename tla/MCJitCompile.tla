----------------------------- MODULE MCJitCompile -----------------------------
(***************************************************************************)
(* Instances of JitCompile: one or two processes, two thread ids, two      *)
(* translation units.                                                      *)
(***************************************************************************)
EXTENDS JitCompile

CONSTANTS procA, procB, t1, t2, p1, p2

OneProc  == {procA}
TwoProcs == {procA, procB}
MCThreads == {t1, t2}
MCProgs   == {p1, p2}
=============================================================================
