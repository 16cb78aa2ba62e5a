------------------------------ MODULE MCCoverage ------------------------------
(***************************************************************************)
(* Two threads, three edges: e1 and e2 hash to different bits of one word  *)
(* (the lost-update case), and e3 to the same bit as e1 (a hash            *)
(* collision).                                                             *)
(***************************************************************************)
EXTENDS Coverage, TLC

CONSTANTS w1, w2, e1, e2, e3, i1, i2, k1

MCWorkers == {w1, w2}
MCEdges   == {e1, e2, e3}
MCBit     == (e1 :> 0) @@ (e2 :> 1) @@ (e3 :> 0)
MCWordOf  == (0 :> 0) @@ (1 :> 0)
MCInputs  == {i1, i2}
MCInitCorpus == <<i1, i1>>
MCCrashKeys  == {k1}
=============================================================================
