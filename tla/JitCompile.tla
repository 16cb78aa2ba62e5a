------------------------------ MODULE JitCompile ------------------------------
(***************************************************************************)
(* The compile step at the end of Emulator::compile_jit (emulator.rs):     *)
(* the generated C++ is hashed, corpus.compile_jobs (a Mutex<BTreeSet>)    *)
(* elects the first thread for that hash, the others poll for the file     *)
(* jitcache/<hash>; the first thread writes the source to a temporary file *)
(* named after its ThreadId, runs clang++ and objcopy into temporary files *)
(* named the same way, renames the binary into the cache and reads it.     *)
(*                                                                         *)
(* Several fuzzer processes may run on one host: each has its own          *)
(* compile_jobs and cache directory, but std::env::temp_dir() is shared    *)
(* and ThreadIds are numbered from 1 in every process, so a temporary file *)
(* is named by the thread id alone.  A program is identified with its      *)
(* hash; a file holds the program whose code it contains.                  *)
(*                                                                         *)
(* A failing clang++/objcopy (an assert!) or a failing rename (an          *)
(* expect) panics the thread; main's threads are detached, so the others   *)
(* go on.                                                                  *)
(***************************************************************************)
EXTENDS Naturals, FiniteSets

CONSTANTS
  Procs,     \* fuzzer processes on the host
  Threads,   \* ThreadIds of worker threads (the same in every process)
  Progs,     \* translation units, identified with their content hash
  ToolsFail  \* whether clang++/objcopy may fail

None == "none"
Actors == Procs \X Threads

VARIABLES
  jobs,      \* proc -> corpus.compile_jobs
  cache,     \* proc -> hash -> contents of jitcache/<hash>, or None
  cpp,       \* thread id -> contents of fwetmp_ThreadId(t).cpp, or None
  lunk,      \* thread id -> contents of fwetmp_ThreadId(t).lunk, or None
  bin,       \* thread id -> contents of fwetmp_ThreadId(t).bin, or None
  st,        \* actor -> where the thread is in compile_jit
  want,      \* actor -> the hash it is getting code for
  loaded     \* actor -> what the code it read was compiled from

vars == <<jobs, cache, cpp, lunk, bin, st, want, loaded>>

Steps == {"idle", "wait", "check", "write", "clang", "objcopy", "rename",
          "read", "panicked"}

Init ==
  /\ jobs   = [pr \in Procs |-> {}]
  /\ cache  = [pr \in Procs |-> [p \in Progs |-> None]]
  /\ cpp    = [t \in Threads |-> None]
  /\ lunk   = [t \in Threads |-> None]
  /\ bin    = [t \in Threads |-> None]
  /\ st     = [a \in Actors |-> "idle"]
  /\ want   = [a \in Actors |-> None]
  /\ loaded = [a \in Actors |-> None]

Goto(a, s) == st' = [st EXCEPT ![a] = s]
\* Mutation: the temporary files do not carry the thread id.
TidShared(a) == CHOOSE t \in Threads : TRUE

\* The ThreadId in the temporary file names.
Tid(a) == a[2]

(***************************************************************************)
(* `let first = jobs.lock().insert(proghash)`: one atomic step under the   *)
(* mutex.  The set is never cleared.                                       *)
(***************************************************************************)
Claim(a, p) ==
  /\ st[a] = "idle"
  /\ jobs' = [jobs EXCEPT ![a[1]] = @ \cup {p}]
  /\ want' = [want EXCEPT ![a] = p]
  /\ Goto(a, IF p \in jobs[a[1]] THEN "wait" ELSE "check")
  /\ UNCHANGED <<cache, cpp, lunk, bin, loaded>>

\* Mutation: a waiter polls for its hash to leave compile_jobs.
WaitForJob(a) ==
  /\ st[a] = "wait"
  /\ want[a] \notin jobs[a[1]]
  /\ Goto(a, "read")
  /\ UNCHANGED <<jobs, cache, cpp, lunk, bin, want, loaded>>

\* `while !cachename.exists() { sleep }`: leaves once the file exists.
Wait(a) ==
  /\ st[a] = "wait"
  /\ cache[a[1]][want[a]] /= None
  /\ Goto(a, "read")
  /\ UNCHANGED <<jobs, cache, cpp, lunk, bin, want, loaded>>

\* `if cachename.exists()`: read it, else compile.
Check(a) ==
  /\ st[a] = "check"
  /\ Goto(a, IF cache[a[1]][want[a]] /= None THEN "read" ELSE "write")
  /\ UNCHANGED <<jobs, cache, cpp, lunk, bin, want, loaded>>

\* std::fs::write(&cppfn, program)
WriteCpp(a) ==
  /\ st[a] = "write"
  /\ cpp' = [cpp EXCEPT ![Tid(a)] = want[a]]
  /\ Goto(a, "clang")
  /\ UNCHANGED <<jobs, cache, lunk, bin, want, loaded>>

\* clang++ compiles whatever cppfn holds now into linkfn, or fails.
Clang(a, ok) ==
  /\ st[a] = "clang"
  /\ ok \/ ToolsFail
  /\ IF ok THEN lunk' = [lunk EXCEPT ![Tid(a)] = cpp[Tid(a)]] /\ Goto(a, "objcopy")
           ELSE UNCHANGED lunk /\ Goto(a, "panicked")
  /\ UNCHANGED <<jobs, cache, cpp, bin, want, loaded>>

\* objcopy converts linkfn into binfn, or fails.
Objcopy(a, ok) ==
  /\ st[a] = "objcopy"
  /\ ok \/ ToolsFail
  /\ IF ok THEN bin' = [bin EXCEPT ![Tid(a)] = lunk[Tid(a)]] /\ Goto(a, "rename")
           ELSE UNCHANGED bin /\ Goto(a, "panicked")
  /\ UNCHANGED <<jobs, cache, cpp, lunk, want, loaded>>

\* std::fs::rename(&binfn, &cachename): moves binfn, or panics if it is gone.
Rename(a) ==
  /\ st[a] = "rename"
  /\ IF bin[Tid(a)] /= None
       THEN /\ cache' = [cache EXCEPT ![a[1]][want[a]] = bin[Tid(a)]]
            /\ bin'   = [bin EXCEPT ![Tid(a)] = None]
            /\ Goto(a, "read")
       ELSE UNCHANGED <<cache, bin>> /\ Goto(a, "panicked")
  /\ UNCHANGED <<jobs, cpp, lunk, want, loaded>>

(***************************************************************************)
(* std::fs::read(&cachename): the code returned to run_jit, which installs *)
(* it with add_mapping and runs it; the thread then lifts something else.  *)
(***************************************************************************)
Read(a) ==
  /\ st[a] = "read"
  /\ loaded' = [loaded EXCEPT ![a] = cache[a[1]][want[a]]]
  /\ Goto(a, "idle")
  /\ UNCHANGED <<jobs, cache, cpp, lunk, bin, want>>

Next ==
  \E a \in Actors :
    \/ \E p \in Progs : Claim(a, p)
    \/ Wait(a) \/ Check(a) \/ WriteCpp(a) \/ Rename(a) \/ Read(a)
    \/ \E ok \in BOOLEAN : Clang(a, ok) \/ Objcopy(a, ok)

(***************************************************************************)
(* Once a thread is inside compile_jit it runs to the end: its steps are   *)
(* weakly fair.  Starting to lift a block (Claim) is not.                  *)
(***************************************************************************)
Fairness ==
  \A a \in Actors :
    /\ WF_vars(Wait(a)) /\ WF_vars(Check(a)) /\ WF_vars(WriteCpp(a))
    /\ WF_vars(\E ok \in BOOLEAN : Clang(a, ok))
    /\ WF_vars(\E ok \in BOOLEAN : Objcopy(a, ok))
    /\ WF_vars(Rename(a)) /\ WF_vars(Read(a))

Spec == Init /\ [][Next]_vars /\ Fairness

(***************************************************************************)
(* Properties.                                                             *)
(***************************************************************************)
(***************************************************************************)
(* Every file of a process's jit cache holds the code compiled from the    *)
(* source whose hash names it, whatever the threads of all processes on    *)
(* the host do with their temporary files.  A wrong file is loaded by      *)
(* every later lookup of that hash, in this run and in later runs.         *)
(***************************************************************************)
CacheCorrect == \A pr \in Procs, p \in Progs : cache[pr][p] \in {None, p}

(***************************************************************************)
(* Spec 5: a thread waiting for another thread's compilation of the same   *)
(* hash waits only as long as that compilation: it eventually reads the    *)
(* code.                                                                   *)
(***************************************************************************)
WaitersFinish == \A a \in Actors : st[a] = "wait" ~> st[a] = "read"
=============================================================================
