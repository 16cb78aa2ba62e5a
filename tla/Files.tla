-------------------------------- MODULE Files --------------------------------
(***************************************************************************)
(* The guest's open-file table and the syscalls that use it (main.rs       *)
(* handle_syscall, emulator.rs Files/EmuFile/alloc_file/reset), over the   *)
(* fuzz cases of one worker.                                               *)
(*                                                                         *)
(* The table is Emulator::files, a Vec<Option<EmuFile>>: here a sequence   *)
(* of records [kind, cursor], kind "None" for a closed slot.  Guest memory *)
(* is abstracted to whether each access the handler makes succeeds: a      *)
(* buffer that write_from/peek refuses, or a file name that read::<u8>     *)
(* faults on, is a crash that ends the case (the `?` in the handler).      *)
(* A panic or failed assertion in the handler kills this worker's thread  *)
(* (a detached std::thread); the other workers go on.                    *)
(***************************************************************************)
EXTENDS Integers, Sequences

CONSTANTS
  GoldenFiles,  \* the snapshot's file table (a sequence of files)
  InputLens,    \* lengths of the corpus inputs (the mutator keeps lengths)
  ReadLens,     \* lengths a guest passes to read()
  Offsets,      \* offsets a guest passes to lseek()
  Whences,      \* whence values a guest passes to lseek()
  MaxFiles      \* bound on the table's length (alloc_file pushes a slot)

Kinds == {"Stdin", "Stdout", "Stderr", "Fuzz", "None"}
File(k, c) == [kind |-> k, cursor |-> c]
Closed == File("None", 0)
NoRet == -1     \* A0 = !0, the error return

SEEK_SET == 0
SEEK_CUR == 1
SEEK_END == 2

VARIABLES
  files,     \* Emulator::files
  inputLen,  \* emu.fuzz_input.len()
  status,    \* "idle" (between cases), "running", "aborted" (worker panicked)
  ret,       \* the value the last syscall put in A0
  panicAt    \* which panic of handle_syscall killed the worker, or "none"

vars == <<files, inputLen, status, ret, panicAt>>

Fds == 0 .. MaxFiles      \* descriptors a guest may pass, one past the end

\* Files::get_file(fd) is Some(slot) and the slot is Some(file).
IsOpen(fd) == fd < Len(files) /\ files[fd + 1].kind /= "None"
FileAt(fd) == files[fd + 1]

Init ==
  /\ files    = GoldenFiles
  /\ inputLen \in InputLens
  /\ status   = "idle"
  /\ ret      = 0
  /\ panicAt  = "none"

(***************************************************************************)
(* worker(): emu.reset(&original) copies the snapshot's file table back,   *)
(* and the case gets a corpus input whose bytes the mutator changes.       *)
(***************************************************************************)
\* Mutation: reset leaves the previous case's file table.
NewCaseKeepFiles(len) ==
  /\ status    = "idle"
  /\ inputLen' = len
  /\ status'   = "running"
  /\ UNCHANGED <<files, ret, panicAt>>

NewCase(len) ==
  /\ status    = "idle"
  /\ files'    = GoldenFiles
  /\ inputLen' = len
  /\ status'   = "running"
  /\ UNCHANGED <<ret, panicAt>>

Running == status = "running"

\* A syscall returns Ok with A0 = r.
Return(r) == ret' = r /\ UNCHANGED <<inputLen, status, panicAt>>

\* The handler returns Err: the worker records a crash and the case ends.
Crash == status' = "idle" /\ UNCHANGED <<files, inputLen, ret, panicAt>>

\* The handler panics: the worker thread dies and runs no more cases.
Abort(where) ==
  /\ status'  = "aborted"
  /\ panicAt' = where
  /\ UNCHANGED <<files, inputLen, ret>>

\* brk(): brk(0) returns 0; any other request panics ("Not expecting brk").
Brk(zero) ==
  /\ Running
  /\ IF zero THEN Return(0) /\ UNCHANGED files ELSE Abort("brk")

\* write(): stdout/stderr take the bytes (peek with READ); any other open
\* file panics; an unknown descriptor returns !0.
Write(fd, len, readable) ==
  /\ Running
  /\ CASE ~IsOpen(fd)                                 -> Return(NoRet) /\ UNCHANGED files
       [] FileAt(fd).kind \in {"Stdout", "Stderr"} /\ readable -> Return(len) /\ UNCHANGED files
       [] FileAt(fd).kind \in {"Stdout", "Stderr"}    -> Crash
       [] OTHER                                       -> Abort("write")

(***************************************************************************)
(* read(): the bytes [cursor, min(cursor+len, input length)) go into the   *)
(* guest buffer through write_from, then the cursor moves.  A refused      *)
(* write returns before the cursor is updated.  A standard stream hits     *)
(* unreachable!(); a cursor past the input's end makes the slice           *)
(* fuzz_input[cursor..end] panic.                                          *)
(***************************************************************************)
Read(fd, len, writable) ==
  LET c   == FileAt(fd).cursor
      end == IF c + len < inputLen THEN c + len ELSE inputLen
  IN
  /\ Running
  /\ CASE ~IsOpen(fd)                          -> Return(NoRet) /\ UNCHANGED files
       [] FileAt(fd).kind = "Fuzz" /\ c > end   -> Abort("slice")
       [] FileAt(fd).kind = "Fuzz" /\ writable ->
            /\ files' = [files EXCEPT ![fd + 1].cursor = end]
            /\ Return(end - c)
       [] FileAt(fd).kind = "Fuzz"             -> Crash
       [] OTHER                                -> Abort("read")

(***************************************************************************)
(* lseek(): the new cursor from SEEK_SET/CUR/END, clamped to [0, length];  *)
(* an unknown whence returns !0 and leaves the cursor.  A standard stream  *)
(* hits unreachable!().                                                    *)
(***************************************************************************)
\* Mutation: the max(0, _) of the clamp is missing.
ClampNoLower(x) == IF x > inputLen THEN inputLen ELSE x

Clamp(x) == IF x < 0 THEN 0 ELSE IF x > inputLen THEN inputLen ELSE x

Lseek(fd, off, whence) ==
  LET c   == FileAt(fd).cursor
      raw == CASE whence = SEEK_SET -> off
               [] whence = SEEK_CUR -> c + off
               [] OTHER             -> inputLen + off
  IN
  /\ Running
  /\ CASE ~IsOpen(fd) -> Return(NoRet) /\ UNCHANGED files
       [] FileAt(fd).kind = "Fuzz" /\ whence \in {SEEK_SET, SEEK_CUR, SEEK_END} ->
            /\ files' = [files EXCEPT ![fd + 1].cursor = Clamp(raw)]
            /\ Return(Clamp(raw))
       [] FileAt(fd).kind = "Fuzz" -> Return(NoRet) /\ UNCHANGED files
       [] OTHER                    -> Abort("lseek")

\* Emulator::alloc_file: the lowest closed slot, else a new slot at the end.
FreeSlots == {fd \in 0 .. Len(files) - 1 : files[fd + 1].kind = "None"}
AllocFd ==
  IF FreeSlots /= {} THEN CHOOSE fd \in FreeSlots : \A g \in FreeSlots : fd <= g
  ELSE Len(files)

(***************************************************************************)
(* open(): only O_RDONLY (an assertion otherwise); the name is read byte   *)
(* by byte until NUL (a fault crashes); "testfn" gets a descriptor from    *)
(* alloc_file backed by the input at cursor 0; any other name returns !0.  *)
(***************************************************************************)
Open(rdonly, nameOk, testfn) ==
  LET fd == AllocFd
      grown == IF fd = Len(files) THEN Append(files, Closed) ELSE files
  IN
  /\ Running
  /\ CASE ~rdonly -> Abort("open")
       [] ~nameOk -> Crash
       [] testfn  -> /\ Len(files) < MaxFiles \/ FreeSlots /= {}
                     /\ files' = [grown EXCEPT ![fd + 1] = File("Fuzz", 0)]
                     /\ Return(fd)
       [] OTHER   -> Return(NoRet) /\ UNCHANGED files

\* stat(): name read as for open(); "testfn" writes the stat buffer.
Stat(nameOk, testfn, writable) ==
  /\ Running
  /\ CASE ~nameOk              -> Crash
       [] testfn /\ writable   -> Return(0) /\ UNCHANGED files
       [] testfn               -> Crash
       [] OTHER                -> Return(NoRet) /\ UNCHANGED files

\* fstat(): the input's stat for a fuzz-input descriptor, !0 otherwise.
Fstat(fd, writable) ==
  /\ Running
  /\ CASE IsOpen(fd) /\ FileAt(fd).kind = "Fuzz" /\ writable -> Return(0) /\ UNCHANGED files
       [] IsOpen(fd) /\ FileAt(fd).kind = "Fuzz"             -> Crash
       [] OTHER                                              -> Return(NoRet) /\ UNCHANGED files

\* close(): an open slot becomes None; a closed or absent one returns !0.
Close(fd) ==
  /\ Running
  /\ IF IsOpen(fd)
       THEN files' = [files EXCEPT ![fd + 1] = Closed] /\ Return(0)
       ELSE Return(NoRet) /\ UNCHANGED files

\* exit() (Err(VmExit::Exit)) or any other exit of emu.run ends the case.
EndCase == Running /\ Crash

\* A syscall number handle_syscall does not know panics.
Unhandled == Running /\ Abort("unhandled")

Next ==
  \/ \E len \in InputLens : NewCase(len)
  \/ EndCase \/ Unhandled
  \/ \E b \in BOOLEAN : Brk(b)
  \/ \E fd \in Fds, ok \in BOOLEAN :
       \/ Fstat(fd, ok)
       \/ \E len \in ReadLens : Write(fd, len, ok) \/ Read(fd, len, ok)
  \/ \E fd \in Fds, off \in Offsets, whence \in Whences : Lseek(fd, off, whence)
  \/ \E fd \in Fds : Close(fd)
  \/ \E rdonly, nameOk, testfn \in BOOLEAN : Open(rdonly, nameOk, testfn)
  \/ \E nameOk, testfn, ok \in BOOLEAN : Stat(nameOk, testfn, ok)

Spec == Init /\ [][Next]_vars

(***************************************************************************)
(* Properties.                                                             *)
(***************************************************************************)
TypeOK ==
  /\ files \in Seq([kind : Kinds, cursor : Nat])
  /\ Len(files) <= MaxFiles
  /\ inputLen \in InputLens
  /\ status \in {"idle", "running", "aborted"}
  /\ ret \in Int
  /\ panicAt \in {"none", "brk", "write", "read", "lseek", "slice", "open", "unhandled"}
  /\ (status = "aborted") <=> (panicAt /= "none")

(***************************************************************************)
(* read() slices fuzz_input[cursor..min(cursor+len, length)], which panics *)
(* if the cursor is past the end: every fuzz-input descriptor's cursor     *)
(* stays within the current case's input, whatever read/lseek/open/close   *)
(* sequence the guest makes and across resets to inputs of other lengths.  *)
(***************************************************************************)
CursorInBounds ==
  \A i \in 1 .. Len(files) : files[i].kind = "Fuzz" => files[i].cursor <= inputLen

(***************************************************************************)
(* read() and lseek() mark the branch for a descriptor that is open but    *)
(* not the fuzz input unreachable!(): no sequence of guest syscalls leads  *)
(* there.  (Their slice of the input is covered by CursorInBounds.)        *)
(***************************************************************************)
StdStreamBranchUnreachable == panicAt \notin {"read", "lseek"}
=============================================================================
