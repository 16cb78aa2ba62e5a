------------------------------- MODULE Worker -------------------------------
(***************************************************************************)
(* One fuzzing worker's emulator memory over its lifetime (main.rs worker  *)
(* and the code it calls): the emulator is forked from the golden snapshot *)
(* and then, case after case, reset against it (Emulator::reset) and run.  *)
(* A running case changes guest memory through                              *)
(*   - interpreter stores (run_emu) and syscall buffers (handle_syscall),  *)
(*     both through the MMU's write path;                                  *)
(*   - stores of translated code (compile_jit's store template), which     *)
(*     write memory, perms, the dirty buffer and the dirty bitmap through  *)
(*     raw pointers, with the log's length held in GuestState.dirty_idx    *)
(*     and copied back into the MMU only when native code returns          *)
(*     (run_jit);                                                          *)
(*   - the malloc/calloc/realloc/free breakpoint callbacks, which run on   *)
(*     the host between two entries into native code.                      *)
(* Registers, the fuzz input and the file table are left out: they do not  *)
(* decide which bytes change or which blocks are logged.                   *)
(***************************************************************************)
EXTENDS Integers, Mmu

CONSTANTS
  Golden,       \* the snapshot emulator's MMU (a record of MmuType)
  Widths,       \* store widths in bytes (SB/SH/SW/SD, scaled down)
  Sizes,        \* allocation sizes requested by the guest
  Ptrs,         \* pointers the guest passes to free/realloc
  AlignedOnly   \* stores are naturally aligned (addr % width = 0)

ASSUME Golden \in MmuType /\ Golden.dirtyLen = 0
ASSUME Widths \subseteq 1 .. BlockSize /\ Ptrs \subseteq {0} \union Addr
ASSUME AlignedOnly \in BOOLEAN

VARIABLES
  mmu,      \* the worker's Mmu
  phase,    \* "idle": the last case has ended, "running": a case runs
  jit,      \* native code is executing (inside run_jit's call of `func`)
  jitIdx,   \* GuestState.dirty_idx, the log length native code works with
  useJit,   \* the emulator has a JitCache (enable_jit before fork)
  inited    \* history: bytes the guest initialised since the case's reset

vars == <<mmu, phase, jit, jitIdx, useJit, inited>>

\* Addresses a store of width w may target.
StoreAddrs(w) == {a \in Addr : AlignedOnly => a % w = 0}

Host == phase = "running" /\ ~jit

\* The history variable inited, kept only for the bytes the snapshot does
\* not let the guest read (the only ones UninitReadsCaught asks about).
Initialise(S) == inited \cup {i \in S : R \notin Golden.perms[i]}

Init ==
  /\ mmu    = Fork(Golden)
  /\ phase  = "idle"
  /\ jit    = FALSE
  /\ jitIdx = 0
  /\ useJit \in BOOLEAN
  /\ inited = {}

(***************************************************************************)
(* worker(): top of a fuzz case.  emu.reset(&original) resets the MMU      *)
(* (and registers and files, not modelled) against the snapshot.           *)
(***************************************************************************)
ResetCase ==
  /\ phase  = "idle"
  /\ mmu'   = Reset(mmu, Golden)
  /\ phase' = "running"
  /\ inited' = {}
  /\ UNCHANGED <<jit, jitIdx, useJit>>

(***************************************************************************)
(* run_emu, SB/SH/SW/SD: the store goes through Mmu::write.  A refused     *)
(* store is surfaced as a crash and ends the case.                         *)
(***************************************************************************)
InterpStore(a, w, v) ==
  /\ Host /\ ~useJit
  /\ CanWrite(mmu, a, w)
  /\ mmu' = Write(mmu, a, w, v)
  /\ inited' = Initialise(Range(a, w))
  /\ UNCHANGED <<phase, jit, jitIdx, useJit>>

InterpStoreFault(a, w) ==
  /\ Host /\ ~useJit
  /\ ~CanWrite(mmu, a, w)
  /\ phase' = "idle"
  /\ UNCHANGED <<mmu, jit, jitIdx, useJit, inited>>

(***************************************************************************)
(* run_emu, LB/LH/LW/LD/LBU/LHU/LWU: read_into needs READ on every byte;   *)
(* a refused load is a crash that ends the case.  The loaded value goes to *)
(* rd, which is not modelled.                                              *)
(***************************************************************************)
ReadOk(m, a, w) == InBounds(a, w) /\ \A i \in Range(a, w) : R \in m.perms[i]

InterpLoad(a, w) ==
  /\ Host /\ ~useJit
  /\ IF ReadOk(mmu, a, w) THEN UNCHANGED vars
     ELSE phase' = "idle" /\ UNCHANGED <<mmu, jit, jitIdx, useJit, inited>>

(***************************************************************************)
(* run_jit, before calling native code: publish the MMU's dirty length.    *)
(***************************************************************************)
\* Mutation: dirty_idx is not re-read after host callbacks appended to
\* the log (kept from the previous native run).
EnterJitStaleIdx ==
  /\ Host /\ useJit
  /\ jit' = TRUE
  /\ UNCHANGED <<mmu, phase, useJit, jitIdx, inited>>

EnterJit ==
  /\ Host /\ useJit
  /\ jitIdx' = mmu.dirtyLen
  /\ jit'    = TRUE
  /\ UNCHANGED <<mmu, phase, useJit, inited>>

(***************************************************************************)
(* The store template of compile_jit: bounds and WRITE check over all      *)
(* bytes, RAW -> READ on them, the block of `addr` appended at dirty_idx   *)
(* unless its bitmap bit is set, then the store.                           *)
(***************************************************************************)
\* Mutation: the permission mask covers the first byte only.
JitCanStoreFirstByte(a, w) ==
  /\ a + w <= MemSize
  /\ W \in mmu.perms[a]

JitCanStore(a, w) ==
  /\ a + w <= MemSize
  /\ \A i \in Range(a, w) : W \in mmu.perms[i]

\* Mutation: the block is appended without testing its bitmap bit.
JitStoreNoBitmapTest(a, w, v) ==
  LET b == BlockOf(a)
  IN
  /\ jit
  /\ JitCanStore(a, w)
  /\ mmu' = [mmu EXCEPT
               !.perms  = [i \in Addr |-> IF i \in Range(a, w) THEN Promote(@[i]) ELSE @[i]],
               !.dirty  = [@ EXCEPT ![jitIdx] = b],
               !.bitmap = [@ EXCEPT ![b] = TRUE],
               !.mem    = [i \in Addr |-> IF i \in Range(a, w) THEN v ELSE @[i]]]
  /\ jitIdx' = jitIdx + 1
  /\ inited' = Initialise(Range(a, w))
  /\ UNCHANGED <<phase, jit, useJit>>

JitStore(a, w, v) ==
  LET b     == BlockOf(a)
      fresh == ~mmu.bitmap[b]
  IN
  /\ jit
  /\ JitCanStore(a, w)
  /\ mmu' = [mmu EXCEPT
               !.perms  = [i \in Addr |-> IF i \in Range(a, w) THEN Promote(@[i]) ELSE @[i]],
               !.dirty  = IF fresh THEN [@ EXCEPT ![jitIdx] = b] ELSE @,
               !.bitmap = [@ EXCEPT ![b] = TRUE],
               !.mem    = [i \in Addr |-> IF i \in Range(a, w) THEN v ELSE @[i]]]
  /\ jitIdx' = IF fresh THEN jitIdx + 1 ELSE jitIdx
  /\ inited' = Initialise(Range(a, w))
  /\ UNCHANGED <<phase, jit, useJit>>

(***************************************************************************)
(* The load template of compile_jit: bounds and a READ mask over all bytes *)
(* of the access.  A refused load exits with ReadFault; run_jit copies     *)
(* dirty_idx back and re-runs the load in run_emu, whose read_into checks  *)
(* the same bytes against the same perms and crashes.                      *)
(***************************************************************************)
\* set_dirty_len(state.dirty_idx) after native code returns.
SyncDirty == mmu' = [mmu EXCEPT !.dirtyLen = jitIdx]

\* Mutation: the bounds test is `addr >= len - sizeof(T)`.
JitCanLoadOffByOne(a, w) ==
  /\ a + w < MemSize
  /\ \A i \in Range(a, w) : R \in mmu.perms[i]

JitCanLoad(a, w) ==
  /\ a + w <= MemSize
  /\ \A i \in Range(a, w) : R \in mmu.perms[i]

JitLoad(a, w) ==
  /\ jit
  /\ IF JitCanLoad(a, w) THEN UNCHANGED vars
     ELSE /\ SyncDirty
          /\ jit'   = FALSE
          /\ phase' = "idle"
          /\ UNCHANGED <<jitIdx, useJit, inited>>

(***************************************************************************)
(* Native code returns.  run_jit copies dirty_idx back (set_dirty_len).    *)
(* JitExit: Coverage, IndirectBranch, Ecall, Ebreak, Timeout, Breakpoint,  *)
(* InvalidOpcode, after which the host carries on (or ends the case with   *)
(* EndCase).  JitStoreFault: a WriteFault exit; run_emu re-executes the    *)
(* store through the MMU, which refuses it the same way, and the crash     *)
(* ends the case.                                                          *)
(***************************************************************************)
JitExit ==
  /\ jit
  /\ SyncDirty
  /\ jit' = FALSE
  /\ UNCHANGED <<phase, jitIdx, useJit, inited>>

JitStoreFault(a, w) ==
  /\ jit
  /\ ~JitCanStore(a, w)
  /\ SyncDirty
  /\ jit'   = FALSE
  /\ phase' = "idle"
  /\ UNCHANGED <<jitIdx, useJit, inited>>

(***************************************************************************)
(* Breakpoint callbacks (main.rs), run by run_emu or on a Breakpoint exit. *)
(***************************************************************************)
\* Mutation: the shim zero-fills the allocation through Mmu::write.
MallocBpZeroed(n) ==
  /\ Host
  /\ mmu' = IF CanAllocate(mmu, n) THEN Write(Allocate(mmu, n), mmu.curAlc, n, 0) ELSE mmu
  /\ UNCHANGED <<phase, jit, jitIdx, useJit, inited>>

MallocBp(n) ==
  /\ Host
  /\ mmu' = IF CanAllocate(mmu, n) THEN Allocate(mmu, n) ELSE mmu
  /\ UNCHANGED <<phase, jit, jitIdx, useJit, inited>>

CallocBp(n) ==
  /\ Host
  /\ mmu' = IF CanAllocate(mmu, n)
              THEN PeekZero(Allocate(mmu, n), mmu.curAlc, n)
              ELSE mmu
  /\ inited' = IF CanAllocate(mmu, n) THEN Initialise(Range(mmu.curAlc, n)) ELSE inited
  /\ UNCHANGED <<phase, jit, jitIdx, useJit>>

FreeBp(p) ==
  /\ Host
  /\ p = 0 \/ HasAlc(mmu, p)
  /\ mmu' = IF p = 0 THEN mmu ELSE Free(mmu, p)
  /\ UNCHANGED <<phase, jit, jitIdx, useJit, inited>>

\* free(p) of a pointer that is no allocation base: InvalidFree, a crash.
FreeBpInvalid(p) ==
  /\ Host
  /\ p /= 0 /\ ~HasAlc(mmu, p)
  /\ phase' = "idle"
  /\ UNCHANGED <<mmu, jit, jitIdx, useJit, inited>>

\* realloc's copy loop: byte ii is copied only if read::<u8> succeeds.
RECURSIVE CopyReadable(_, _, _, _)
CopyReadable(m, src, dst, n) ==
  IF n = 0 THEN m
  ELSE CopyReadable(IF CanRead(m, src) THEN Write(m, dst, 1, m.mem[src]) ELSE m,
                    src + 1, dst + 1, n - 1)

ReallocBp(p, n) ==
  LET oldSize == IF p = 0 THEN 0 ELSE mmu.alcs[p]
      toCopy  == IF n < oldSize THEN n ELSE oldSize
      new     == mmu.curAlc
      copied  == CopyReadable(Allocate(mmu, n), p, new, toCopy)
  IN
  /\ Host
  /\ p = 0 \/ HasAlc(mmu, p)
  /\ mmu' = IF ~CanAllocate(mmu, n) THEN mmu
            ELSE IF p = 0 THEN copied
            ELSE Free(copied, p)
  /\ inited' = IF CanAllocate(mmu, n)
                THEN Initialise({new + i : i \in {i \in 0 .. toCopy - 1 : CanRead(mmu, p + i)}})
                ELSE inited
  /\ UNCHANGED <<phase, jit, jitIdx, useJit>>

\* realloc(p, n) of a pointer that is no allocation base: InvalidFree.
ReallocBpInvalid(p) ==
  /\ Host
  /\ p /= 0 /\ ~HasAlc(mmu, p)
  /\ phase' = "idle"
  /\ UNCHANGED <<mmu, jit, jitIdx, useJit, inited>>

(***************************************************************************)
(* handle_syscall, read(): the input bytes go into the guest buffer with   *)
(* write_from; a refused write returns the fault out of handle_syscall and *)
(* the worker records it as a crash.                                       *)
(***************************************************************************)
SyscallRead(a, n, v) ==
  /\ Host
  /\ CanWrite(mmu, a, n)
  /\ mmu' = Write(mmu, a, n, v)
  /\ inited' = Initialise(Range(a, n))
  /\ UNCHANGED <<phase, jit, jitIdx, useJit>>

SyscallReadFault(a, n) ==
  /\ Host
  /\ ~CanWrite(mmu, a, n)
  /\ phase' = "idle"
  /\ UNCHANGED <<mmu, jit, jitIdx, useJit, inited>>

\* The case ends: exit(), Timeout, Ebreak or any other crash exit.
EndCase ==
  /\ Host
  /\ phase' = "idle"
  /\ UNCHANGED <<mmu, jit, jitIdx, useJit, inited>>

Next ==
  \/ ResetCase
  \/ EnterJit
  \/ JitExit
  \/ EndCase
  \/ \E w \in Widths, a \in Addr :
       \/ a \in StoreAddrs(w) /\ \E v \in Vals : InterpStore(a, w, v) \/ JitStore(a, w, v)
       \/ a \in StoreAddrs(w) /\ (InterpStoreFault(a, w) \/ JitStoreFault(a, w))
       \/ \E v \in Vals : SyscallRead(a, w, v)
       \/ SyscallReadFault(a, w)
  \/ \E w \in Widths, a \in Addr : InterpLoad(a, w) \/ JitLoad(a, w)
  \/ \E n \in Sizes : MallocBp(n) \/ CallocBp(n)
  \/ \E p \in Ptrs :
       \/ FreeBp(p) \/ FreeBpInvalid(p) \/ ReallocBpInvalid(p)
       \/ \E n \in Sizes : ReallocBp(p, n)

Spec == Init /\ [][Next]_vars

(***************************************************************************)
(* Properties.                                                             *)
(***************************************************************************)
TypeOK ==
  /\ mmu \in MmuType
  /\ phase \in {"idle", "running"}
  /\ jit \in BOOLEAN
  /\ jitIdx \in 0 .. NBlocks + 1
  /\ useJit \in BOOLEAN

\* The log as it stands: while native code runs its length is dirty_idx.
LiveLen == IF jit THEN jitIdx ELSE mmu.dirtyLen
LiveLog == {mmu.dirty[i] : i \in 0 .. LiveLen - 1}

\* A block whose bytes or permissions differ from the snapshot's.
Diverged(b) ==
  \E a \in Addr : BlockOf(a) = b /\ (mmu.mem[a] /= Golden.mem[a] \/ mmu.perms[a] /= Golden.perms[a])

(***************************************************************************)
(* Reset is O(dirty): it restores only logged blocks, so every block that  *)
(* differs from the snapshot, by a store of the interpreter, of translated *)
(* code, of a syscall or by an allocator callback, must be in the dirty    *)
(* log, across native entries and exits and across cases.                 *)
(***************************************************************************)
DirtyCoversDivergence == \A b \in Blocks : Diverged(b) => b \in LiveLog

(***************************************************************************)
(* Translated code appends to the raw dirty buffer at dirty_idx with no    *)
(* bounds check; it relies on the bitmap to keep the log free of          *)
(* duplicates and hence no longer than the number of blocks.  The bitmap  *)
(* mirrors the log exactly, whichever side (MMU or native code) last      *)
(* appended to it.                                                         *)
(***************************************************************************)
DirtyLogBounded ==
  /\ LiveLen <= NBlocks
  /\ \A i, j \in 0 .. LiveLen - 1 : i /= j => mmu.dirty[i] /= mmu.dirty[j]
  /\ \A b \in Blocks : mmu.bitmap[b] <=> b \in LiveLog

\* The bytes the allocator handed out for the allocation recorded at p.
AlcSpan(p) == Range(p, AlignUp(mmu.alcs[p]))
Recorded == {p \in Addr : mmu.alcs[p] /= NoAlc}

(***************************************************************************)
(* Allocator output is disjoint from every live allocation (spec, MMU      *)
(* invariant 4): the allocations table that free_bp and realloc_bp consult *)
(* never holds two entries whose spans overlap, across the allocations of  *)
(* malloc_bp, calloc_bp and realloc_bp and across Emulator::reset.         *)
(***************************************************************************)
AllocationsDisjoint ==
  \A p, q \in Recorded : p /= q => AlcSpan(p) \cap AlcSpan(q) = {}

(***************************************************************************)
(* Uninitialised reads are caught (spec 4.B, RAW): a byte is readable, and *)
(* a load of it succeeds, only if it was readable in the snapshot or the   *)
(* guest initialised it in this case.  Promotions by the interpreter, by   *)
(* translated code and by syscalls, the allocator shims, free, and the     *)
(* restoring of perms by reset across cases all bear on it.               *)
(***************************************************************************)
UninitReadsCaught ==
  \A a \in Addr : R \in mmu.perms[a] => R \in Golden.perms[a] \/ a \in inited

(***************************************************************************)
(* run_jit hands every ReadFault and WriteFault exit to run_emu, which     *)
(* re-executes the access at reenter_pc and, if the MMU allowed it, would  *)
(* go on running the guest in the interpreter, which has no timeout and    *)
(* panics on EBREAK.  It never does: whenever translated code refuses a    *)
(* load or a store, the MMU refuses it too, so run_emu returns the fault.  *)
(***************************************************************************)
FallbackRefaults ==
  jit => \A w \in Widths, a \in Addr :
           /\ ~JitCanLoad(a, w) => ~ReadOk(mmu, a, w)
           /\ a \in StoreAddrs(w) /\ ~JitCanStore(a, w) => ~CanWrite(mmu, a, w)

(***************************************************************************)
(* Refinement: the worker's memory implements SnapshotMemory, i.e. every   *)
(* case starts from exactly the snapshot's bytes and permissions and only  *)
(* writable bytes change while it runs.                                    *)
(***************************************************************************)
Snapshot == INSTANCE SnapshotMemory WITH
  Addr <- Addr, Vals <- Vals, PermBits <- PermBits, W <- W,
  GoldenMem <- Golden.mem, GoldenPerms <- Golden.perms,
  amem <- mmu.mem, aperms <- mmu.perms, aphase <- phase

SnapshotRefined == Snapshot!Spec
=============================================================================
