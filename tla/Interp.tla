------------------------------- MODULE Interp -------------------------------
(***************************************************************************)
(* The control flow of a guest as run_emu executes it (emulator.rs), with   *)
(* the worker's case loop around it (main.rs worker()).  This is the        *)
(* abstract specification the JIT's exit loop (module Exec) implements.    *)
(*                                                                         *)
(* The guest program is a constant: instruction slots 0 .. N-1 stand for   *)
(* the 4-byte-aligned executable words; N stands for the first address     *)
(* without EXEC permission.  Data is abstracted: an instruction is one of   *)
(*   op     any instruction that only falls through (ALU, stores, FENCE)    *)
(*   mem    a load or store that may fault                                  *)
(*   auipc  `auipc ra, imm`: ra := v (its value, computed at decode)        *)
(*   br     a conditional branch to t; the condition is a free choice       *)
(*   jal    JAL to t, linking ra when link                                  *)
(*   jalr   JALR to ra + off, linking ra when link                          *)
(*   ecall, ebreak                                                          *)
(* Of the registers only pc and ra are kept: ra is the register the        *)
(* allocator shims return through and the far-call sequence                 *)
(* auipc ra / jalr ra, off(ra) both reads and writes.                       *)
(***************************************************************************)
EXTENDS Naturals, FiniteSets

CONSTANTS
  Prog,          \* slot -> instruction record
  Breakpoints,   \* slots with an allocator shim (Emulator::add_breakpoint)
  FallibleBps,   \* shims that may return Err (free_bp, realloc_bp)
  Entry,         \* the snapshot's PC
  InitRa         \* the snapshot's ra

Code  == DOMAIN Prog
N     == Cardinality(Code)
Addrs == 0 .. N
NoCrash == "none"

ASSUME /\ Code = 0 .. N - 1
       /\ Breakpoints \subseteq Code /\ FallibleBps \subseteq Breakpoints
       /\ Entry \in Code /\ InitRa \in Addrs

VARIABLES
  pc,      \* Register::Pc
  ra,      \* Register::Ra
  at,      \* "idle" between cases, "run" in emu.run, "sys" in handle_syscall
  last     \* the crash key <<fault type, pc>> of the last case, or NoCrash

vars == <<pc, ra, at, last>>

\* The branch and jump target of a JALR at the current ra.
JalrTarget(i) == ra + i.off
\* The ra a linking jump leaves: the address of the next instruction.
Link(i, p) == IF i.link THEN p + 1 ELSE ra

Init ==
  /\ pc = Entry
  /\ ra = InitRa
  /\ at = "idle"
  /\ last = NoCrash

\* worker(): emu.reset(&original) restores the snapshot's registers.
StartCase ==
  /\ at = "idle"
  /\ at' = "run" /\ pc' = Entry /\ ra' = InitRa
  /\ UNCHANGED last

\* The case ends; a crash exit is recorded under its key.
End(key) == at' = "idle" /\ last' = key /\ UNCHANGED <<pc, ra>>

\* Fetch: `read_perms(pc, PERM_EXEC)` fails outside the code.
FetchFault ==
  /\ at = "run" /\ pc \notin Code
  /\ End(<<"Exec", pc>>)

(***************************************************************************)
(* A registered callback runs before the instruction.  Every shim ends     *)
(* with `set_reg(Pc, reg(Ra))`; run_emu restarts the fetch if PC changed.  *)
(* A shim's Err (InvalidFree) ends the case as a crash.                    *)
(***************************************************************************)
Callback ==
  /\ at = "run" /\ pc \in Breakpoints /\ ra /= pc
  /\ pc' = ra
  /\ UNCHANGED <<ra, at, last>>

CallbackFails ==
  /\ at = "run" /\ pc \in FallibleBps
  /\ End(<<"Free", pc>>)

\* The instruction at pc is executed: no callback, or one that left PC.
Executes == pc \in Code /\ (pc \in Breakpoints => ra = pc)

Execute ==
  LET i == Prog[pc] IN
  /\ at = "run" /\ Executes
  /\ CASE i.k \in {"op", "mem"} -> pc' = pc + 1 /\ UNCHANGED <<ra, at, last>>
       [] i.k = "auipc" -> ra' = i.v /\ pc' = pc + 1 /\ UNCHANGED <<at, last>>
       [] i.k = "br"    -> pc' \in {i.t, pc + 1} /\ UNCHANGED <<ra, at, last>>
       [] i.k = "jal"   -> ra' = Link(i, pc) /\ pc' = i.t /\ UNCHANGED <<at, last>>
       [] i.k = "jalr"  -> ra' = Link(i, pc) /\ pc' = JalrTarget(i) /\ UNCHANGED <<at, last>>
       [] i.k = "ecall" -> at' = "sys" /\ UNCHANGED <<pc, ra, last>>
       [] i.k = "ebreak" -> End(NoCrash)   \* VmExit::Ebreak, as the spec has it

\* A load or store the MMU refuses.
MemFault ==
  /\ at = "run" /\ Executes /\ Prog[pc].k = "mem"
  /\ End(<<"Mem", pc>>)

\* worker(): handle_syscall Ok advances PC past the ECALL; Err ends the case.
Syscall ==
  /\ at = "sys"
  /\ \/ pc' = pc + 1 /\ at' = "run" /\ UNCHANGED <<ra, last>>
     \/ End(NoCrash)

\* The instruction budget is not counted here: a case may time out anywhere.
Timeout == at = "run" /\ End(NoCrash)

Next ==
  \/ StartCase \/ FetchFault \/ Callback \/ CallbackFails \/ Execute
  \/ MemFault \/ Syscall \/ Timeout

Spec == Init /\ [][Next]_vars
=============================================================================
