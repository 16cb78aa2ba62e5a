-------------------------------- MODULE Exec --------------------------------
(***************************************************************************)
(* One worker running guest code through the JIT (emulator.rs run_jit and   *)
(* the code compile_jit emits), inside the worker's case loop (main.rs).    *)
(* The program, breakpoints and registers are those of module Interp,      *)
(* whose specification this one implements.                                *)
(*                                                                         *)
(* The worker is "host" at the top of run_jit's loop, "native" inside the  *)
(* compiled function at label npc, "exited" when the function has         *)
(* returned with exit_reason/reenter_pc, "sys" in handle_syscall, "idle"   *)
(* between cases and "panic" after the breakpoint arm's panic!("WAT").     *)
(* The JitCache mapping and the coverage bitmap outlive cases; the         *)
(* bitmap is a set of edges (its hash collisions are Coverage's concern),  *)
(* and compilation is one step (its file protocol is JitCompile's).        *)
(***************************************************************************)
EXTENDS Naturals, Sequences, FiniteSets

CONSTANTS
  Prog, Breakpoints, FallibleBps, Entry, InitRa,
  Timeout,      \* GuestState.timeout
  MaxInstrs     \* saturation bound of the instruction counter

VARIABLES
  pc, ra, at, last,
  npc,          \* the label the native code is at
  reason,       \* state.exit_reason
  reenter,      \* state.reenter_pc
  instrs,       \* run_instrs, copied in and out as state.instrs_execed
  cache,        \* PCs with a JitCache mapping
  bitmap,       \* coverage edges whose bit is set
  retired,      \* history: guest instructions of this case that completed
  redone        \* history: labels of this case left by a Coverage or
                \* Breakpoint exit, whose instruction runs again or is
                \* replaced by a shim; both saturate at MaxInstrs, as
                \* instrs does, so a case without a budget stays finite

vars == <<pc, ra, at, last, npc, reason, reenter, instrs, cache, bitmap,
          retired, redone>>

I == INSTANCE Interp WITH pc <- pc, at <- at

Inc(x) == IF x < MaxInstrs THEN x + 1 ELSE x

(***************************************************************************)
(* compile_jit's worklist: pop a PC, skip it if visited, fail with         *)
(* ExecFault on the first PC that cannot be fetched, emit it and queue its  *)
(* static successors: the fall-through of every instruction that does not  *)
(* return, the target of a branch and of a non-linking JAL.  Returns the   *)
(* address that fails as a singleton, or {} when the region compiles.     *)
(***************************************************************************)
Succs(p) ==
  LET i == Prog[p] IN
  CASE i.k = "br"                -> <<i.t, p + 1>>
    [] i.k = "jal" /\ ~i.link    -> <<i.t>>
    [] i.k \in {"jal", "jalr"}   -> <<>>
    [] OTHER                     -> <<p + 1>>

RECURSIVE CompileFault(_, _)
CompileFault(queued, visited) ==
  IF queued = <<>> THEN {}
  ELSE LET p == Head(queued) IN
       IF p \in visited THEN CompileFault(Tail(queued), visited)
       ELSE IF p \notin I!Code THEN {p}
       ELSE CompileFault(Tail(queued) \o Succs(p), visited \cup {p})

Init ==
  /\ I!Init
  /\ npc = Entry /\ reason = "None" /\ reenter = Entry
  /\ instrs = 0 /\ cache = {} /\ bitmap = {}
  /\ retired = 0 /\ redone = 0

\* worker(): reset, run_instrs = 0, then emu.run.
StartCase ==
  /\ at = "idle"
  /\ at' = "host" /\ pc' = Entry /\ ra' = InitRa /\ instrs' = 0
  /\ retired' = 0 /\ redone' = 0
  /\ UNCHANGED <<last, npc, reason, reenter, cache, bitmap>>

EndCase(key) == at' = "idle" /\ last' = key

(***************************************************************************)
(* run_jit's loop: look the PC up in the JitCache; on a miss compile the   *)
(* region and add the mapping, or return compile_jit's ExecFault.  Then    *)
(* load the state and call the function.                                   *)
(***************************************************************************)
Enter ==
  /\ at = "host"
  /\ IF pc \in cache \/ CompileFault(<<pc>>, {}) = {}
       THEN /\ cache' = cache \cup {pc} /\ at' = "native" /\ npc' = pc
            /\ UNCHANGED last
       ELSE EndCase(<<"Exec", pc>>) /\ UNCHANGED <<cache, npc>>
  /\ UNCHANGED <<pc, ra, reason, reenter, instrs, bitmap, retired, redone>>

Exit(r, p) == at' = "exited" /\ reason' = r /\ reenter' = p

(***************************************************************************)
(* coverage_event!(npc, to): past the budget, exit Timeout at npc; on a    *)
(* clear bit set it and exit Coverage at npc, so the instruction runs      *)
(* again; on a set bit go on with Then.  cnt is the counter after this     *)
(* instruction's increment.                                                *)
(***************************************************************************)
\* Mutation: no instruction budget check.
CoverageEventNoTimeout(cnt, to, Then) ==
  IF <<npc, to>> \notin bitmap
    THEN bitmap' = bitmap \cup {<<npc, to>>} /\ Exit("Coverage", npc)
         /\ redone' = Inc(redone) /\ UNCHANGED <<ra, npc, retired>>
    ELSE UNCHANGED <<bitmap, redone>> /\ retired' = Inc(retired) /\ Then

\* Mutation: the budget check is `>=` instead of `>`.
CoverageEventEarly(cnt, to, Then) ==
  CASE cnt >= Timeout ->
         Exit("Timeout", npc) /\ UNCHANGED <<ra, npc, bitmap, retired, redone>>
    [] <<npc, to>> \notin bitmap ->
         bitmap' = bitmap \cup {<<npc, to>>} /\ Exit("Coverage", npc)
         /\ redone' = Inc(redone) /\ UNCHANGED <<ra, npc, retired>>
    [] OTHER -> UNCHANGED <<bitmap, redone>> /\ retired' = Inc(retired) /\ Then

CoverageEvent(cnt, to, Then) ==
  CASE cnt > Timeout ->
         Exit("Timeout", npc) /\ UNCHANGED <<ra, npc, bitmap, retired, redone>>
    [] <<npc, to>> \notin bitmap ->
         bitmap' = bitmap \cup {<<npc, to>>} /\ Exit("Coverage", npc)
         /\ redone' = Inc(redone) /\ UNCHANGED <<ra, npc, retired>>
    [] OTHER -> UNCHANGED <<bitmap, redone>> /\ retired' = Inc(retired) /\ Then

\* Go on at label p inside the function.
Goto(p) == npc' = p /\ UNCHANGED <<at, reason, reenter>>

(***************************************************************************)
(* The label of an instruction: `instrs_execed += 1`, then the breakpoint  *)
(* exit if a callback is registered, then the instruction's code.          *)
(***************************************************************************)
BreakpointExit ==
  /\ at = "native" /\ npc \in Breakpoints
  /\ instrs' = Inc(instrs) /\ Exit("Breakpoint", npc)
  /\ redone' = Inc(redone)
  /\ UNCHANGED <<pc, ra, last, npc, cache, bitmap, retired>>

Label(k) == at = "native" /\ npc \notin Breakpoints /\ Prog[npc].k \in k

\* Instructions without control flow, and LUI/AUIPC's constant.
FallThrough ==
  /\ Label({"op", "mem", "auipc"})
  /\ instrs' = Inc(instrs)
  /\ ra' = IF Prog[npc].k = "auipc" THEN Prog[npc].v ELSE ra
  /\ Goto(npc + 1)
  /\ retired' = Inc(retired)
  /\ UNCHANGED <<pc, last, cache, bitmap, redone>>

\* A load or store whose check fails: exit ReadFault/WriteFault at npc.
MemFaultExit ==
  /\ Label({"mem"})
  /\ instrs' = Inc(instrs) /\ Exit("MemFault", npc)
  /\ UNCHANGED <<pc, ra, last, npc, cache, bitmap, retired, redone>>

Branch ==
  LET i == Prog[npc] IN
  /\ Label({"br"})
  /\ instrs' = Inc(instrs)
  /\ \E to \in {i.t, npc + 1} : CoverageEvent(instrs', to, Goto(to) /\ UNCHANGED ra)
  /\ UNCHANGED <<pc, last, cache>>

\* JAL: coverage, link, then goto (rd = zero) or an IndirectBranch exit.
Jal ==
  LET i == Prog[npc] IN
  /\ Label({"jal"})
  /\ instrs' = Inc(instrs)
  /\ CoverageEvent(instrs', i.t,
       IF i.link THEN ra' = npc + 1 /\ Exit("IndirectBranch", i.t) /\ UNCHANGED npc
       ELSE UNCHANGED ra /\ Goto(i.t))
  /\ UNCHANGED <<pc, last, cache>>

\* Mutation: the link register is written before the coverage event.
JalrLinkFirst ==
  LET i == Prog[npc]
      target == ra + i.off
  IN
  /\ Label({"jalr"})
  /\ instrs' = Inc(instrs)
  /\ ra' = I!Link(i, npc)
  /\ IF instrs' > Timeout
       THEN Exit("Timeout", npc) /\ UNCHANGED <<npc, bitmap, retired, redone>>
     ELSE IF <<npc, target>> \notin bitmap
       THEN bitmap' = bitmap \cup {<<npc, target>>} /\ Exit("Coverage", npc)
            /\ redone' = Inc(redone) /\ UNCHANGED <<npc, retired>>
       ELSE Exit("IndirectBranch", target) /\ retired' = Inc(retired)
            /\ UNCHANGED <<npc, bitmap, redone>>
  /\ UNCHANGED <<pc, last, cache>>

\* JALR: `auto target = rs1 + imm`, coverage, link, IndirectBranch exit.
Jalr ==
  LET i == Prog[npc]
      target == ra + i.off
  IN
  /\ Label({"jalr"})
  /\ instrs' = Inc(instrs)
  /\ CoverageEvent(instrs', target,
       ra' = I!Link(i, npc) /\ Exit("IndirectBranch", target) /\ UNCHANGED npc)
  /\ UNCHANGED <<pc, last, cache>>

\* ECALL and EBREAK exit at their own PC.
Trap ==
  /\ Label({"ecall", "ebreak"})
  /\ instrs' = Inc(instrs)
  /\ Exit(IF Prog[npc].k = "ecall" THEN "Ecall" ELSE "Ebreak", npc)
  /\ retired' = Inc(retired)
  /\ UNCHANGED <<pc, ra, last, npc, cache, bitmap, redone>>

Native == BreakpointExit \/ FallThrough \/ MemFaultExit \/ Branch \/ Jal \/ Jalr \/ Trap
(***************************************************************************)
(* run_jit after the function returns.  An IndirectBranch to a PC the      *)
(* cache knows re-enters at once ('quick_reenter), without touching PC.    *)
(* Otherwise PC := reenter_pc and the exit reason decides.                 *)
(***************************************************************************)
QuickReenter ==
  /\ at = "exited" /\ reason = "IndirectBranch" /\ reenter \in cache
  /\ at' = "native" /\ npc' = reenter
  /\ UNCHANGED <<pc, ra, last, reason, reenter, instrs, cache, bitmap,
                 retired, redone>>

\* Every shim ends with emu.set_reg(Register::Pc, emu.reg(Register::Ra)).
ShimReturn(p) == ra

Return ==
  /\ at = "exited"
  /\ ~(reason = "IndirectBranch" /\ reenter \in cache)
  /\ CASE reason \in {"Coverage", "IndirectBranch"} ->
            pc' = reenter /\ at' = "host" /\ UNCHANGED last
       [] reason = "Ecall" -> pc' = reenter /\ at' = "sys" /\ UNCHANGED last
       [] reason \in {"Ebreak", "Timeout"} -> pc' = reenter /\ EndCase(I!NoCrash)
       \* run_emu re-executes the access and returns its fault.
       [] reason = "MemFault" -> pc' = reenter /\ EndCase(<<"Mem", reenter>>)
       [] reason = "Breakpoint" ->
            \/ reenter \in FallibleBps /\ pc' = reenter
               /\ EndCase(<<"Free", reenter>>)
            \/ LET new == ShimReturn(reenter) IN
               /\ pc' = new
               /\ at' = IF new = reenter THEN "panic" ELSE "host"
               /\ UNCHANGED last
  /\ UNCHANGED <<ra, npc, reason, reenter, instrs, cache, bitmap, retired, redone>>

\* worker(): handle_syscall; Ok advances PC past the ECALL.
Syscall ==
  /\ at = "sys"
  /\ \/ pc' = pc + 1 /\ at' = "host" /\ UNCHANGED last
     \/ EndCase(I!NoCrash) /\ UNCHANGED pc
  /\ UNCHANGED <<ra, npc, reason, reenter, instrs, cache, bitmap, retired, redone>>

Next == StartCase \/ Enter \/ Native \/ QuickReenter \/ Return \/ Syscall

(***************************************************************************)
(* The worker thread never waits in these steps: native code is straight-  *)
(* line, run_jit's arms and handle_syscall return, and the case loop       *)
(* starts the next case at once.                                           *)
(***************************************************************************)
Spec == Init /\ [][Next]_vars /\ WF_vars(Next)

(***************************************************************************)
(* Properties.                                                             *)
(***************************************************************************)
\* The abstract guest position: the label in native code, the re-entry PC
\* after an exit, Register::Pc otherwise.
AbsPc == CASE at = "native" -> npc [] at = "exited" -> reenter [] OTHER -> pc
AbsAt == CASE at \in {"host", "native", "exited", "panic"} -> "run"
           [] OTHER -> at

Guest == INSTANCE Interp WITH pc <- AbsPc, at <- AbsAt

(***************************************************************************)
(* The JIT runs the guest as run_emu does: every native step, exit and     *)
(* re-entry is a step of run_emu's control flow or leaves it unchanged,    *)
(* including the re-execution after a Coverage exit and the return of the  *)
(* allocator shims, and a case crashes with the key run_emu gives it.      *)
(***************************************************************************)
ExecRefinesInterp == Guest!Spec

(***************************************************************************)
(* Every case ends: the budget checked at each coverage event stops any    *)
(* loop of the guest, however its branches go.                             *)
(***************************************************************************)
CaseEnds == at = "host" ~> at = "idle"

(***************************************************************************)
(* The budget is meant in retired guest instructions (GuestState.timeout), *)
(* but every label adds one to instrs_execed before its breakpoint and     *)
(* coverage exits, and the instruction then runs again or is replaced by   *)
(* a shim.  The Timeout exit may therefore come early, but never by more   *)
(* than one instruction per such exit of the case: the count in run_instrs *)
(* survives every exit, re-entry and syscall of the case, and is compared  *)
(* only after this label's own increment.                                  *)
(***************************************************************************)
TimeoutCountsRedone ==
  at = "exited" /\ reason = "Timeout" => retired + redone >= Timeout
=============================================================================
