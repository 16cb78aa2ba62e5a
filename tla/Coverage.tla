------------------------------- MODULE Coverage -------------------------------
(***************************************************************************)
(* The coverage bridge shared by all worker threads: the coverage bitmap   *)
(* that JIT code tests and sets (compile_jit's coverage_event!), the       *)
(* Coverage exit that run_jit answers by recording the edge in             *)
(* corpus.code_coverage, and the corpus stores the records feed            *)
(* (input_hashes, inputs, unique_crashes) in main.rs.                      *)
(*                                                                         *)
(* A worker's guest execution is abstracted to the coverage events it      *)
(* meets: it may reach any edge, and its case may end at any point, with   *)
(* or without a crash.  The generated test of a bit, the load and the      *)
(* store of `cov_bitmap[idx] |= bit` are separate steps: the bitmap is a   *)
(* plain uint64_t array written by every thread without atomics.  The      *)
(* compiler may reuse the value the test loaded for the |= (the race is   *)
(* undefined behaviour) or load again; both are allowed.                   *)
(*                                                                         *)
(* Aht (crate aht) is not in the sources: entry_or_insert is taken to be   *)
(* the set-once insertion the specification describes, one atomic step     *)
(* including its closure.  An input is identified with its FalkHasher      *)
(* hash.                                                                   *)
(***************************************************************************)
EXTENDS Naturals, Sequences, FiniteSets

CONSTANTS
  Workers,      \* worker threads
  Edges,        \* (from, to) coverage edges the target can take
  Bit,          \* Edges -> bit index: the hash of coverage_event!
  WordOf,       \* bit index -> index of its u64 word
  Inputs,       \* fuzz inputs (identified with their hash)
  InitCorpus,   \* inputs loaded from the inputs directory, in order
  CrashKeys     \* (pc, fault type, address type) keys of crashes

ASSUME InitCorpus /= <<>>

NoEdge  == "none"
NoInput == "none"
NoCrash == "none"
Bits    == {Bit[e] : e \in Edges}
Words   == {WordOf[b] : b \in Bits}

VARIABLES
  bitmap,       \* corpus.coverage_bitmap: word -> set bits
  pc,           \* worker -> where its thread is
  edge,         \* worker -> the edge of its current coverage event
  local,        \* worker -> the bitmap word it loaded
  input,        \* worker -> emu.fuzz_input
  coverage,     \* keys of corpus.code_coverage
  inputHashes,  \* keys of corpus.input_hashes
  inputs,       \* corpus.inputs (AtomicVec)
  crashes       \* keys of corpus.unique_crashes

vars == <<bitmap, pc, edge, local, input, coverage, inputHashes, inputs,
          crashes>>

Places == {"idle", "run", "set", "store", "exit"}

\* The bit and word of an edge.
BitOf(e)  == Bit[e]
WordIx(e) == WordOf[Bit[e]]

\* main(): every file of the inputs directory through input_hashes.
RECURSIVE LoadCorpus(_, _)
LoadCorpus(s, seen) ==
  IF s = <<>> THEN <<>>
  ELSE IF Head(s) \in seen THEN LoadCorpus(Tail(s), seen)
  ELSE <<Head(s)>> \o LoadCorpus(Tail(s), seen \cup {Head(s)})

Init ==
  /\ bitmap      = [wd \in Words |-> {}]
  /\ pc          = [w \in Workers |-> "idle"]
  /\ edge        = [w \in Workers |-> NoEdge]
  /\ local       = [w \in Workers |-> {}]
  /\ input       = [w \in Workers |-> NoInput]
  /\ coverage    = {}
  /\ inputs      = LoadCorpus(InitCorpus, {})
  /\ inputHashes = {InitCorpus[i] : i \in DOMAIN InitCorpus}
  /\ crashes     = {}

(***************************************************************************)
(* The closure both the coverage and the crash record run: hash the input  *)
(* and, if input_hashes does not know the hash, push a copy onto inputs.   *)
(* Returns the pair <<inputHashes', inputs'>>.                             *)
(***************************************************************************)
SaveInput(i) ==
  IF i \in inputHashes THEN <<inputHashes, inputs>>
  ELSE <<inputHashes \cup {i}, Append(inputs, i)>>

(***************************************************************************)
(* worker(): reset, pick corpus.inputs[rand % len] and mutate it.  The     *)
(* modulo panics on an empty corpus; InitCorpus is not empty and the       *)
(* corpus only grows, so the guard always holds.                           *)
(***************************************************************************)
\* i is the mutator's output from some corpus input: any input.
StartCase(w, i) ==
  /\ pc[w] = "idle"
  /\ Len(inputs) > 0
  /\ pc'    = [pc EXCEPT ![w] = "run"]
  /\ input' = [input EXCEPT ![w] = i]
  /\ UNCHANGED <<bitmap, edge, local, coverage, inputHashes, inputs, crashes>>

(***************************************************************************)
(* coverage_event!: `if ((cov_bitmap[idx] & bit) == 0)`.  A set bit lets   *)
(* the code go on with no state change; a clear one enters the report.     *)
(***************************************************************************)
TestBit(w, e) ==
  /\ pc[w] = "run"
  /\ BitOf(e) \notin bitmap[WordIx(e)]
  /\ pc'    = [pc EXCEPT ![w] = "set"]
  /\ edge'  = [edge EXCEPT ![w] = e]
  /\ local' = [local EXCEPT ![w] = bitmap[WordIx(e)]]
  /\ UNCHANGED <<bitmap, input, coverage, inputHashes, inputs, crashes>>

\* The load of `cov_bitmap[idx] |= bit`: the value tested, or a fresh one.
LoadWord(w) ==
  /\ pc[w] = "set"
  /\ \E v \in {local[w], bitmap[WordIx(edge[w])]} : local' = [local EXCEPT ![w] = v]
  /\ pc' = [pc EXCEPT ![w] = "store"]
  /\ UNCHANGED <<bitmap, edge, input, coverage, inputHashes, inputs, crashes>>

\* The store of |=, then exit_reason = Coverage, cov_from/cov_to, return.
StoreWord(w) ==
  /\ pc[w] = "store"
  /\ bitmap' = [bitmap EXCEPT ![WordIx(edge[w])] = local[w] \cup {BitOf(edge[w])}]
  /\ pc'     = [pc EXCEPT ![w] = "exit"]
  /\ UNCHANGED <<edge, local, input, coverage, inputHashes, inputs, crashes>>

(***************************************************************************)
(* run_jit, ExitReason::Coverage: code_coverage.entry_or_insert((from,     *)
(* to)) whose closure saves the input; then fall through and re-enter at   *)
(* the same instruction.                                                   *)
(***************************************************************************)
\* Mutation: the Coverage exit is handled like IndirectBranch (no record).
ReportNoRecord(w) ==
  /\ pc[w] = "exit"
  /\ pc'      = [pc EXCEPT ![w] = "run"]
  /\ UNCHANGED <<bitmap, edge, local, input, coverage, inputHashes, inputs, crashes>>

Report(w) ==
  LET e == edge[w]
      saved == IF e \in coverage THEN <<inputHashes, inputs>> ELSE SaveInput(input[w])
  IN
  /\ pc[w] = "exit"
  /\ coverage'    = coverage \cup {e}
  /\ inputHashes' = saved[1]
  /\ inputs'      = saved[2]
  /\ pc'          = [pc EXCEPT ![w] = "run"]
  /\ UNCHANGED <<bitmap, edge, local, input, crashes>>

(***************************************************************************)
(* The case ends on any other exit (exit(), timeout, fault).  A crash      *)
(* with key k goes through unique_crashes.entry_or_insert, whose closure   *)
(* saves the input and writes the crash file.                              *)
(***************************************************************************)
EndCase(w, k) ==
  LET saved == IF k = NoCrash \/ k \in crashes THEN <<inputHashes, inputs>>
               ELSE SaveInput(input[w])
  IN
  /\ pc[w] = "run"
  /\ crashes'     = IF k = NoCrash THEN crashes ELSE crashes \cup {k}
  /\ inputHashes' = saved[1]
  /\ inputs'      = saved[2]
  /\ pc'          = [pc EXCEPT ![w] = "idle"]
  /\ UNCHANGED <<bitmap, edge, local, input, coverage>>

Next ==
  \E w \in Workers :
    \/ \E i \in Inputs : StartCase(w, i)
    \/ \E e \in Edges : TestBit(w, e)
    \/ LoadWord(w) \/ StoreWord(w) \/ Report(w)
    \/ \E k \in CrashKeys \cup {NoCrash} : EndCase(w, k)

Spec == Init /\ [][Next]_vars

(***************************************************************************)
(* Properties.                                                             *)
(***************************************************************************)
(***************************************************************************)
(* Every set bit of the coverage bitmap stands for an edge that is in      *)
(* code_coverage or that a thread is about to report: no bit is set        *)
(* without its edge being recorded, even when the unsynchronised |= of one *)
(* thread writes back a stale word over another's.                         *)
(***************************************************************************)
BitsAccounted ==
  \A wd \in Words : \A b \in bitmap[wd] :
    \E e \in Edges : /\ BitOf(e) = b
                    /\ \/ e \in coverage
                       \/ \E w \in Workers : pc[w] = "exit" /\ edge[w] = e
=============================================================================
