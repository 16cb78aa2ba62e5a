# TLA+ model of fuzz_with_emus

A snapshot fuzzer for RISC-V (RV64I) binaries. `main.rs` builds one golden
emulator, loads the target, and spawns 192 worker threads. Each worker runs
`worker()`, which forks the emulator once and then loops over fuzz cases:
reset against the golden snapshot, pick and mutate an input, run, record
crashes and coverage in the shared `Corpus`.

## The system's parts

| Part | Code | State | Operations |
|---|---|---|---|
| MMU (`crate::mmu`, not in the sources) | spec §3, §4.B | memory, byte permissions (R/W/X/RAW), dirty log (Vec + bitmap), bump pointer `cur_alc`, allocations table | fork, reset, read, write/write_from, allocate, free, peek |
| Emulator | `emulator.rs` | registers, MMU, files, fuzz input, `GuestState` shared with native code | `fork`, `reset`, `run_emu` (interpreter), `run_jit` (native code), `compile_jit` |
| JIT store template | `emulator.rs` 1587-1642 | writes memory, perms, dirty buffer and bitmap through raw pointers | one store |
| Breakpoint shims | `main.rs` 554-632 | the MMU allocator | malloc/calloc/realloc/free |
| Syscalls | `main.rs` 76-420 | file table, input cursor, MMU | read/write/open/close/lseek/fstat/exit |
| Corpus | `main.rs` 515-550 | inputs, input and crash hash tables, code coverage, coverage bitmap, compile jobs | shared by all workers |

They interact like this. Native code and the host hand the dirty log back
and forth: `run_jit` publishes `dirty_idx = memory.dirty_len()` (line 1120).
Native code then appends to the raw buffer. The host copies `dirty_idx` back
with `set_dirty_len` (line 1169). Breakpoint callbacks and syscalls run on
the host between two native runs and append through the MMU. Reset restores
only the blocks in the log. So every path that changes memory must log the
blocks it touches, or the next case does not start from the snapshot.

## Modules

- **`Mmu.tla`**. The MMU as pure operators over one record:
  `mem, perms, dirty, dirtyLen, bitmap, curAlc, alcs`. `mmu.rs` is not in
  the repository, so all of these are spec-modelled from spec §3 and §4.B.
  - `Write` is `write_from`: WRITE checked on every byte, RAW->READ, every
    touched block logged.
  - `Reset` restores logged blocks and `cur_alc`, and nothing else, as the
    spec says.
  - `Allocate` rounds up to the block size and grants WRITE|RAW.
  - `Free` clears R and W.
- **`SnapshotMemory.tla`**. The abstract promise of a forked memory:
  - `Restore`: a case starts from the snapshot's bytes and permissions.
  - `Mutate`: while it runs, a byte changes only if it is writable before or
    after the step.
  - `Finish`: the case ends.
- **`Worker.tla`**. One worker across many cases. Variables:
  - `mmu`
  - `phase`: `idle` or `running`
  - `jit`: native code is running
  - `jitIdx`: `GuestState.dirty_idx`
  - `useJit`: `enable_jit` was called; `main` always calls it, and the model
    also covers the interpreter-only emulator
  - `inited`: a history variable, the bytes the guest initialised since the
    case's reset (kept only for bytes the snapshot does not let it read)

  Actions:

  | Action | Code |
  |---|---|
  | `ResetCase` | `emu.reset(&original)` |
  | `InterpStore`, `InterpStoreFault` | run_emu S-type |
  | `InterpLoad` | run_emu loads (read_into, crash on refusal) |
  | `JitLoad` | the generated load (`JitCanLoad`), and the ReadFault exit that re-runs the load in run_emu and crashes |
  | `EnterJit` | run_jit publishes dirty_idx |
  | `JitStore`, `JitStoreFault` | the generated store, and the WriteFault exit that re-runs the store in run_emu and crashes |
  | `JitExit` | native return with set_dirty_len |
  | `MallocBp`, `CallocBp`, `FreeBp`, `FreeBpInvalid`, `ReallocBp`, `ReallocBpInvalid` | the shims, every branch |
  | `SyscallRead`, `SyscallReadFault` | read() |
  | `EndCase` | any exit that ends the case |

  Registers and the input's bytes are abstracted: an address, a width and a
  value from small sets stand for what a store or a read() writes.
  Properties:
  - `DirtyCoversDivergence`: every block that differs from the snapshot is
    in the live log. While native code runs, the log's length is `jitIdx`.
  - `DirtyLogBounded`: the log has no duplicates and is mirrored exactly by
    the bitmap. This is what keeps native code's unchecked
    `dirty[dirty_idx++]` in bounds.
  - `SnapshotRefined`: the memory refines `SnapshotMemory`, via
    `INSTANCE ... WITH amem <- mmu.mem, aperms <- mmu.perms, aphase <- phase`.
  - `AllocationsDisjoint`: spec MMU invariant 4.
  - `UninitReadsCaught`: a byte is readable only if the snapshot let the
    guest read it or the guest initialised it in this case (spec 4.B, RAW).
  - `FallbackRefaults`: while native code runs, every load or store that
    its inline check refuses is refused by the MMU as well. So run_emu,
    which the fault exits call, only re-executes the faulting access and
    returns the fault. It never runs guest code, where it would have no
    timeout and would panic on EBREAK.
- **`Files.tla`**. The open-file table and every syscall of
  `handle_syscall`, over the cases of one worker.
  - Variables: `files` (the `Vec<Option<EmuFile>>` as a sequence of
    `[kind, cursor]`), `inputLen`, `status` (idle, running, aborted),
    `ret` (A0) and `panicAt` (which panic killed the worker).
  - Actions: `NewCase` (reset copies the snapshot's table; an input of any
    corpus length), `Brk`, `Write`, `Read`, `Lseek`, `Open` (with
    `AllocFd` = `alloc_file`), `Stat`, `Fstat`, `Close`, `EndCase` (exit),
    `Unhandled`.
  - Guest memory is abstracted to a boolean per access: a refused
    `write_from`/`peek`/`read` is the `?` that ends the case (`Crash`); a
    panic is `Abort`, after which this worker thread runs nothing more.
  - Properties: `CursorInBounds` (the slice in read() cannot panic) and
    `StdStreamBranchUnreachable` (the `unreachable!()` of read/lseek).
- **`Isa.tla`**. The integer ALU and branch conditions (OP, OP-IMM, OP-32,
  OP-IMM-32, BRANCH) as the two engines compute them, at a reduced width:
  XLEN = 8 stands for 64, WLEN = 4 for 32, 4-bit immediates for 12-bit
  ones, and the shift masks 0x3f/0x1f become XLEN-1/WLEN-1.
  - `InterpOpImm`, `InterpOp`, `InterpOpW`, `InterpOpImmW`, `InterpBranch`
    follow the arms of `run_emu` with Rust's casts (`as u32`,
    `as i32 as i64 as u64`, wrapping add/sub).
  - `JitOpImm`, `JitOp`, `JitOpW`, `JitOpImmW`, `JitBranch` follow the C++
    that `compile_jit` prints, with C++'s conversions: `CLt` (a comparison
    with an unsigned operand is unsigned), `LitSigned` (a hex `LL` literal
    that does not fit `long long` is unsigned), `SetRegW` (`set_regw!`).
  - `Reference` is RV64I from the RISC-V specification.
  - The state is one instruction with operand values chosen by `Init`;
    `Execute` records the value each engine writes to rd; `Retired` ends the
    behaviour. x0 and the field decoders are left out.
  - Properties: `InterpMatchesISA` and `JitMatchesInterp`.
- **`Coverage.tla`**. The coverage bridge between worker threads.
  - Variables: `bitmap` (`corpus.coverage_bitmap`, word -> set bits), per
    thread `pc`, `edge`, `local` (the word it loaded) and `input`, and the
    corpus stores `coverage` (`code_coverage` keys), `inputHashes`,
    `inputs` (the `AtomicVec`), `crashes`.
  - Actions: `StartCase` (pick and mutate an input), `TestBit` (the
    generated `(cov_bitmap[idx] & bit) == 0`), `LoadWord` and `StoreWord`
    (the unsynchronised `|=`, whose load may reuse the tested value),
    `Report` (run_jit's Coverage arm: `code_coverage.entry_or_insert`, whose
    closure calls `SaveInput`), `EndCase` (any other exit, with the
    `unique_crashes` record of a crash).
  - `Aht` is not in the sources; `entry_or_insert` is one set-once step.
  - Property: `BitsAccounted`. Deduplication of the corpus is not
    checked: with `entry_or_insert` and its closure one atomic step, it
    would only restate that step's guard.
  - Two threads that test the same clear bit before either sets it both
    take a Coverage exit for the edge, against the spec's "reported at most
    once" (section 8, property 6). `code_coverage`'s set-once insertion
    keeps the record unique, so the cost is one extra exit and
    re-execution; no run checks this.
- **`JitCompile.tla`**. The end of `compile_jit` (emulator.rs 1929-2002),
  in every thread of one or two fuzzer processes on a host.
  - Variables: `jobs` (each process's `compile_jobs`), `cache` (each
    process's `jitcache/<hash>` files), `cpp`, `lunk`, `bin` (the
    `fwetmp_ThreadId(n).*` files of the host-wide temp directory, keyed by
    thread id alone), and per thread `st`, `want` (the hash) and `loaded`.
  - Actions: `Claim` (`compile_jobs.lock().insert`), `Wait` (the poll of
    the cache file), `Check` (the `cachename.exists()` test), `WriteCpp`,
    `Clang` and `Objcopy` (success, or a panic of the thread when
    `ToolsFail`), `Rename` (panics when the .bin is gone), `Read`.
  - A block's C++ is identified with its hash, and a file with the program
    its code came from; clang++ compiles what the .cpp holds when it runs.
  - Properties: `CacheCorrect`, `WaitersFinish` (liveness). The election
    itself is one atomic insertion under the mutex into a set that is never
    cleared, so no property restates it.
- **`Interp.tla`**. The guest's control flow as run_emu executes it, with
  the worker's syscall loop: the abstract specification for `Exec`.
  - The program is a constant over slots 0 .. N-1 (the executable words);
    slot N has no EXEC permission. An instruction is `op`, `mem` (may
    fault), `auipc` (sets ra), `br` (the condition is a free choice),
    `jal`/`jalr` (with or without linking ra), `ecall` or `ebreak`. Of the
    registers only pc and ra are kept.
  - Variables: `pc`, `ra`, `at` (`idle`, `run`, `sys`), `last` (the crash
    key `<<fault type, pc>>` of the last case).
  - Actions: `StartCase`, `FetchFault`, `Callback` (a shim returns to ra),
    `CallbackFails` (free_bp's InvalidFree), `Execute`, `MemFault`,
    `Syscall`, `Timeout` (anywhere: run_emu counts no budget).
  - EBREAK ends the case with `VmExit::Ebreak`, as the spec says; run_emu
    itself panics there, but it only ever re-runs a faulting access in
    this build (see `FallbackRefaults`).
- **`Exec.tla`**. One worker running that program through the JIT.
  - Variables: Interp's, plus `npc` (the label native code is at),
    `reason` and `reenter` (`exit_reason`, `reenter_pc`), `instrs`
    (`instrs_execed`), `cache` (PCs with a JitCache mapping) and `bitmap`
    (the coverage edges already seen). The last two outlive cases.
    Two history variables, reset with each case, are not in the code:
    `retired` counts completed guest instructions, and `redone` counts
    labels left by a Coverage or Breakpoint exit.
  - Actions, one per part of run_jit or of the generated code: `Enter`
    (lookup, `compile_jit`'s worklist `CompileFault`, add_mapping),
    `BreakpointExit`, `FallThrough`, `MemFaultExit`, `Branch`, `Jal`,
    `Jalr`, `Trap` (ECALL/EBREAK), `QuickReenter`, `Return` (every exit
    arm, the shims' `PC := RA` and the WAT test), `Syscall`, `StartCase`.
    `CoverageEvent` is `coverage_event!`: the budget check, then the bit.
  - `Guest` is `INSTANCE Interp` under the mapping "the label in native
    code, the re-entry PC after an exit, Register::Pc otherwise".
  - Properties: `ExecRefinesInterp` (refinement), `TimeoutCountsRedone`,
    `CaseEnds` (liveness).
- **`MCExec.tla`**. The guest program of the `exec_core` run.
- **`MCJitCompile.tla`**. Processes procA (and procB), thread ids t1, t2,
  programs p1, p2.
- **`MCCoverage.tla`**. Two threads; e1 and e2 on different bits of one
  word, e3 colliding with e1's bit; inputs i1, i2; one crash key.
- **`MCIsa.tla`**. rs1 ranges over all 256 values; rs2 over 18 values at the
  sign and width edges of both halves, and past the shift masks.
- **`MCFiles.tla`**. The snapshot's table: stdin, stdout, stderr (the
  snapshot is taken at the guest's first `open`).
- **`MCWorker.tla`**. The snapshot: 5 blocks of 2 bytes, laid out as follows.

  | Block | Role |
  |---|---|
  | 0 | null guard |
  | 1 | code R|X |
  | 2 | data R|W |
  | 3 | the snapshot's own allocation (the stack and argv of main) R|W|RAW |
  | 4 | free heap |

## Runs

| Run | cfg | Result | What it shows |
|---|---|---|---|
| worker_core | MCWorker.cfg | pass (124,344 states, about 1 min) | With aligned stores, all six properties hold over every interleaving of interpreter or JIT loads and stores, native entries and exits, callbacks and syscalls, across case boundaries. |
| worker_misaligned_store | MCWorkerMisaligned.cfg | violation of SnapshotRefined | **Code bug.** At emulator.rs:1628 the JIT logs only `addr / DIRTY_BLOCK_SIZE`. An SH at address 5 writes blocks 2 and 3 but logs 2. After the store faults, the next `ResetCase` leaves block 3 modified. RISC-V allows misaligned stores, and run_emu handles them correctly, so only the JIT is wrong. |
| files_core | MCFiles.cfg | pass (292,640 states) | Cursors stay within the current input across read/lseek/open/close and resets to inputs of lengths 0, 2 and 3. Deadlock is not checked: a panic really stops the worker thread. |
| files_std_stream_read | MCFilesAbort.cfg | violation of StdStreamBranchUnreachable | **Code bug.** After the snapshot's open, a guest read(0, ...) reaches `unreachable!()` at main.rs:183 (lseek: 229). The panic kills that worker thread; the workers are detached threads (main.rs:847), so the others go on, one fewer each time. |
| isa_alu | MCIsa.cfg | pass (261,120 states) | run_emu computes the RV64I result for every ALU and branch instruction, and the JIT's C++ agrees with it, for all instructions but SLTI. |
| isa_slti_negative_imm | MCIsaSlti.cfg | violation of JitMatchesInterp | **Code bug.** compile_jit prints SLTI's immediate with `{:#x}LL` of `inst.imm as i64` (emulator.rs:1659). A negative immediate prints as two's-complement hex, which does not fit `long long`, so the literal is `unsigned long long` and the comparison is unsigned. `SLTI rd, x0, -8` gives 1 in the JIT and 0 in run_emu. (If clang warns on the sign mismatch under `-Wall -Werror`, the compile fails and the fuzzer panics instead.) |
| coverage_core | MCCoverage.cfg | pass (61,873 states) | Under every interleaving of two threads on one bitmap word, including lost updates, every set bit has a recorded or pending edge. |
| exec_core | MCExec.cfg | pass (3,279 states, under 2 min) | The JIT's exit loop implements run_emu's control flow (`ExecRefinesInterp`), a timeout comes early by at most one instruction per Coverage or Breakpoint exit of the case (`TimeoutCountsRedone`), and every case ends (`CaseEnds`), over every branch outcome, syscall result, shim failure and memory fault of the guest below. |
| jit_compile_core | MCJitCompile.cfg | pass (1,389 states) | In one process whose tools succeed, every cache file holds its hash's code, and every waiter eventually reads the code. |
| jit_cache_two_processes | MCJitCompileHosts.cfg | violation of CacheCorrect | **Code bug.** The temporary files are named `fwetmp_ThreadId(n)` in `std::env::temp_dir()` (emulator.rs:1961). Two fuzzer processes on one host have the same ThreadIds. In the trace, thread t1 of procA writes p2's C++ to `fwetmp_ThreadId(1).cpp`. Then thread t1 of procB overwrites that file with p1's C++. procA's clang++ compiles p1, and procA renames the result into `jitcache/p2`. The cache is persistent, so later runs load it too. |
| jit_waiter_starves | MCJitCompileStarve.cfg | violation of WaitersFinish | **Spec/code divergence.** Spec section 5 bounds a compile wait by the peer's compilation. When the elected thread's clang++ fails (the `assert!` at emulator.rs:1988), only that thread panics; the hash stays in `compile_jobs` and the other thread polls for `jitcache/<hash>` forever. |
| worker_stale_allocations | MCWorkerHeap.cfg (6 blocks) | violation of AllocationsDisjoint | **Spec gap.** Reset rewinds `cur_alc` but keeps `allocations`. Case 1 runs malloc(1) at 8, then malloc(1) at 10. Case 2 runs malloc(3) at 8, which spans 8..11 and overlaps the stale entry at 10. A later `free(10)` would succeed and revoke WRITE on the live allocation. |

Each property of the passing runs has a mutant that TLC catches:
- `EnterJitStaleIdx`: dirty_idx is not re-published after callbacks. It breaks `DirtyCoversDivergence`.
- `JitStoreNoBitmapTest`: the bitmap test is dropped. It breaks `DirtyLogBounded`, and `TypeOK` through the overrun of `dirty_idx`.
- `JitCanStoreFirstByte`: the permission mask covers only the first byte. It breaks `SnapshotRefined`.
- `MallocBpZeroed` (malloc zero-fills through `Mmu::write`) breaks
  `UninitReadsCaught`; so does `EnterJitStaleIdx`, one case later.
- `JitCanLoadOffByOne` (the load's bounds test `>=` for `>`) breaks
  `FallbackRefaults`.
- `ClampNoLower` (lseek without `max(0, _)`) breaks Files' `TypeOK`.
- `NewCaseKeepFiles` (reset without restoring the table) breaks `CursorInBounds`.
- `ReportNoRecord` (the Coverage exit handled like IndirectBranch) breaks `BitsAccounted`.
- `TidShared` (temporary files not named by thread) breaks `CacheCorrect`.
- `WaitForJob` (waiters poll for the hash to leave `compile_jobs`) breaks
  `WaitersFinish`.
- `InterpOpWNoSext` (SRLW without `as i32`) breaks `InterpMatchesISA`.
- `JitOpSraUnsigned` (SRA printed without the `(int64_t)` cast) breaks `JitMatchesInterp`.
- `JalrLinkFirst` (JALR writes rd before its coverage event) breaks
  `ExecRefinesInterp`: the far call `auipc ra; jalr ra, 0(ra)` re-executes
  with the linked ra.
- `CoverageEventNoTimeout` (no budget check) breaks `CaseEnds`.
- `CoverageEventEarly` (the budget check `>=` for `>`) breaks
  `TimeoutCountsRedone`.

### Bounds

- **Blocks and widths.** Two-byte blocks and widths {1, 2} give both aligned
  stores and stores that cross a block.
- **Heap.** The heap has room for one 2-byte allocation per case, so
  out-of-memory, realloc with a copy, and free of fresh, golden and invalid
  pointers all happen.
- **Pointers.** `Ptrs` = {0, 6, 7, 8} holds:
  - null;
  - the golden allocation;
  - an interior pointer;
  - the fresh heap base.
- **Values.** Two values tell a change from no change.
- **Depth.** Depth reaches 13, which covers two and more cases in sequence.
- **Files.** Input lengths {0, 2, 3} include the empty input and a shorter
  input after a longer one. lseek offsets {-1, 1, 4} fall below zero, inside
  and past the end, and whence 3 is invalid. `MaxFiles` = 5 lets the guest
  open two fuzz handles, close one and get its slot back.
- **Coverage.** Two threads and one shared word are enough for both races
  (both testing a clear bit; a stale `|=` dropping the other's bit). The
  colliding edge shows that a bit can stand for an edge other than the one
  recorded.
- **Exec.** The guest of `MCExec.tla` has eleven slots and uses every
  control transfer the JIT distinguishes: a branch back (a loop), a branch
  forward, `jal zero` (a goto), `jal ra` to a shim, the far call
  `auipc ra` / `jalr ra, 0(ra)`, a `ret`, ECALL, EBREAK and a faulting
  load. `Timeout` = 9 is large enough for a case to pass every slot once
  the bitmap has its edges, and small enough that loops time out.
  `MaxInstrs` = 16 is above the largest count a check can see (the budget
  plus the longest straight run between checks), so the saturation only
  matters when the check is missing. The history counters `retired` and
  `redone` saturate at the same bound. Neither is above `instrs`, so with
  the check in place they never reach it.
- **JitCompile.** Two thread ids and two programs are enough for both a
  waiter and two different programs on the same temporary files; two
  processes are what make those files collide. Every thread can run
  `compile_jit` again and again: the state space is finite because the
  files hold programs and the sets only grow.
- **Isa.** At 8 bits every conversion the code makes has an edge the
  operand sets reach: the sign bit of the word and of the low half, -1 of
  both, shift counts at and past both masks, and negative and positive
  immediates. rs1 is exhaustive.

### Fairness

Worker, Files, Isa and Coverage check safety only, and a fuzz case may end
at any step (timeout, crash, exit).

Exec assumes weak fairness of the worker's next-state relation. One thread
runs straight-line native code, run_jit's arms and handle_syscall, and the
case loop starts the next case at once; none of it waits. Branch outcomes
stay free choices: fairness does not force a loop to exit, only the budget
does.

JitCompile assumes weak fairness of every step of a thread inside
`compile_jit` after the election. The steps are file operations, tool runs
and the 100 ms poll, and none of them waits for anything but the file it
polls. `Claim` is not fair: a thread need not meet another new block.

## Not modelled yet, and the plan

1. **Exec**: the remaining hazards of run_jit's exit loop.
   - Each label adds to `instrs_execed` before its exits
     (emulator.rs:1404). An instruction re-executed after a Coverage exit,
     or replaced by a shim, is therefore counted twice.
     `TimeoutCountsRedone` bounds the effect. The spec says the budget is
     measured in retired instructions, and that claim fails on `MCExec`:
     with `Timeout = 9`, the Timeout exit comes after 7 retired
     instructions and 3 redone labels. The run limit leaves no room for a
     violation run on it.
   - `compile_jit` compiles statically reachable successors eagerly, and a
     `?` on any of them fails the whole region (emulator.rs:1398). TLC
     shows the resulting false ExecFault crash on a variant of `MCProg`:
     make slot 10 an `ebreak` so that slot 11 (no EXEC) is queued. The
     refinement is then violated in 17 states with the crash key
     `<<"Exec", 3>>`. The run limit leaves no room for a violation run on
     it, so the hazard's note records it.
   - The `panic!("WAT")` of a breakpoint whose shim leaves PC unchanged
     (emulator.rs:1232). Every shim sets PC := RA, so the panic needs ra to
     hold the shim's own address, e.g. a corrupted saved return address.
     `MCExec`'s guest never does that, and a check in a guest that cannot
     do it would only restate PC := RA. A guest that did would fail
     `ExecRefinesInterp` at once, since run_emu then executes the
     instruction at that PC.
   - Not covered either: calloc'd memory that stays RAW-only (main.rs:571).
     It is the converse of `UninitReadsCaught`, and it fails in one step.
   - run_emu's lack of a timeout and its EBREAK panic are not hazards of
     this build. `main` always enables the JIT, so run_emu only re-executes
     a faulting access, and `FallbackRefaults` shows that access faults
     again.
   - PROJECT.json's hazards say why each one is left out.
2. **JALR**: neither engine clears bit 0 of a JALR target (emulator.rs:665,
   1487), so an odd target faults at fetch instead of jumping. Isa leaves
   JALR out because both engines compute it with the same wrapping addition.

The following are outside TLC's reach:
- JitCache's lock-free lookup and `add_mapping` (jitcache.rs is not among
  the sources);
- clang/objcopy themselves (only their success or failure is modelled);
- ELF loading;
- the statistics thread;
- the RNG and mutator.
