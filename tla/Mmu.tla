-------------------------------- MODULE Mmu ---------------------------------
(***************************************************************************)
(* The guest memory unit (crate::mmu), as pure operators over a record     *)
(* holding one MMU instance:                                               *)
(*                                                                         *)
(*   mem      byte values, one per guest address                           *)
(*   perms    permission bits, one set per guest address                   *)
(*   dirty    the backing buffer of the dirty-block log (slots 0..NBlocks) *)
(*   dirtyLen the log's length (Vec::len of `dirty`)                       *)
(*   bitmap   the dirty bitmap, one bit per block                          *)
(*   curAlc   the bump pointer of the allocator                            *)
(*   alcs     base -> size of live allocations (NoAlc where none)          *)
(*                                                                         *)
(* mmu.rs is not part of this repository's sources; every operator here    *)
(* is modelled from the specification (sections 3 and 4.B) and is only     *)
(* used by the modules that model the code that calls it.                  *)
(***************************************************************************)
LOCAL INSTANCE Naturals
LOCAL INSTANCE Integers

CONSTANTS
  NBlocks,    \* number of dirty blocks of guest memory
  BlockSize,  \* DIRTY_BLOCK_SIZE, in bytes
  Vals        \* byte values a guest can store

ASSUME NBlocks \in Nat \ {0} /\ BlockSize \in Nat \ {0} /\ 0 \in Vals

MemSize == NBlocks * BlockSize
Addr    == 0 .. MemSize - 1
Blocks  == 0 .. NBlocks - 1
Slots   == 0 .. NBlocks       \* the log's backing buffer
NoBlock == -1                 \* an unused slot of the buffer
NoAlc   == -1                 \* no allocation has this base

\* PERM_READ, PERM_WRITE, PERM_EXEC, PERM_RAW
R   == "R"
W   == "W"
X   == "X"
RAW == "RAW"
PermBits == {R, W, X, RAW}

BlockOf(a) == a \div BlockSize

\* The bytes [a, a+n).
Range(a, n)       == a .. a + n - 1
InBounds(a, n)    == a >= 0 /\ a + n <= MemSize

\* The blocks in the dirty log.
Logged(m) == {m.dirty[i] : i \in 0 .. m.dirtyLen - 1}

\* A size rounded up to the dirty-block size (allocate's alignment).
AlignUp(n) == ((n + BlockSize - 1) \div BlockSize) * BlockSize

(***************************************************************************)
(* Dirty tracking of an MMU write: every block touched is appended to the  *)
(* log once, its bit set in the bitmap; blocks in ascending order.         *)
(***************************************************************************)
MarkDirty(m, b) ==
  IF m.bitmap[b] THEN m
  ELSE [m EXCEPT !.dirty[m.dirtyLen] = b,
                 !.dirtyLen = @ + 1,
                 !.bitmap[b] = TRUE]

RECURSIVE MarkBlocks(_, _, _)
MarkBlocks(m, lo, hi) ==
  IF lo > hi THEN m ELSE MarkBlocks(MarkDirty(m, lo), lo + 1, hi)

MarkRange(m, a, n) ==
  IF n = 0 THEN m ELSE MarkBlocks(m, BlockOf(a), BlockOf(a + n - 1))

\* Set the permissions of [a, a+n) to (old \cap keep) \cup add and log
\* the blocks.
SetPerms(m, a, n, keep, add) ==
  MarkRange([m EXCEPT !.perms = [i \in Addr |->
                         IF i \in Range(a, n) THEN (@[i] \cap keep) \cup add ELSE @[i]]],
            a, n)

\* RAW -> READ promotion of a written byte.
Promote(p) == IF RAW \in p THEN p \union {R} ELSE p

(***************************************************************************)
(* Mmu::new / fork: an MMU whose memory and perms are copies of g and      *)
(* whose dirty log is empty.                                               *)
(***************************************************************************)
Fork(g) ==
  [mem      |-> g.mem,
   perms    |-> g.perms,
   dirty    |-> [i \in Slots |-> NoBlock],
   dirtyLen |-> 0,
   bitmap   |-> [b \in Blocks |-> FALSE],
   curAlc   |-> g.curAlc,
   alcs     |-> g.alcs]

(***************************************************************************)
(* Mmu::reset(other): copy memory and perms of every logged block back     *)
(* from the snapshot, clear its bit, truncate the log, restore the bump    *)
(* pointer.  The spec restores nothing else (allocations stay as they      *)
(* are).  Slots past the log's length hold stale block numbers in the      *)
(* code; they are never read before written and are abstracted to NoBlock.*)
(***************************************************************************)
Reset(m, g) ==
  LET L == Logged(m)
      Restored(i) == BlockOf(i) \in L
  IN [m EXCEPT !.mem      = [i \in Addr |-> IF Restored(i) THEN g.mem[i]   ELSE @[i]],
               !.perms    = [i \in Addr |-> IF Restored(i) THEN g.perms[i] ELSE @[i]],
               !.bitmap   = [b \in Blocks |-> IF b \in L THEN FALSE ELSE @[b]],
               !.dirty    = [i \in Slots |-> NoBlock],
               !.dirtyLen = 0,
               !.curAlc   = g.curAlc]

(***************************************************************************)
(* write_from(addr, buf): bounds check (AddressMiss), then WRITE on every  *)
(* byte (WriteFault); on success the bytes are stored, RAW bytes gain READ *)
(* and every touched block is logged.  Nothing changes on failure.        *)
(***************************************************************************)
CanWrite(m, a, n) ==
  InBounds(a, n) /\ \A i \in Range(a, n) : W \in m.perms[i]

Write(m, a, n, v) ==
  MarkRange([m EXCEPT !.mem   = [i \in Addr |-> IF i \in Range(a, n) THEN v ELSE @[i]],
                      !.perms = [i \in Addr |-> IF i \in Range(a, n) THEN Promote(@[i]) ELSE @[i]]],
            a, n)

\* read::<u8>(addr) succeeds iff the byte is in bounds and readable.
CanRead(m, a) == InBounds(a, 1) /\ R \in m.perms[a]

(***************************************************************************)
(* allocate(size): round up to the block size, bump curAlc, grant          *)
(* WRITE|RAW on the requested bytes, record base -> size.  None when the   *)
(* bumped pointer would pass the end of memory.                            *)
(***************************************************************************)
CanAllocate(m, n) == m.curAlc + AlignUp(n) <= MemSize

Allocate(m, n) ==
  LET base == m.curAlc
  IN SetPerms([m EXCEPT !.curAlc = @ + AlignUp(n), !.alcs[base] = n],
              base, n, {}, {W, RAW})

\* get_alc(base): the size of the live allocation at base, if any.
HasAlc(m, base) == base \in Addr /\ m.alcs[base] /= NoAlc

(***************************************************************************)
(* free(base): InvalidFree unless base is a recorded allocation base; on   *)
(* success clear READ and WRITE on its bytes and forget it.                *)
(***************************************************************************)
Free(m, base) ==
  SetPerms([m EXCEPT !.alcs[base] = NoAlc], base, m.alcs[base],
           PermBits \ {R, W}, {})

(***************************************************************************)
(* peek(addr, n, PERM_WRITE) followed by a host store of zeros through the *)
(* returned slice: the bytes change, perms and the dirty log do not.       *)
(***************************************************************************)
PeekZero(m, a, n) ==
  [m EXCEPT !.mem = [i \in Addr |-> IF i \in Range(a, n) THEN 0 ELSE @[i]]]

\* The set of MMU records over these constants.
MmuType ==
  [mem      : [Addr -> Vals],
   perms    : [Addr -> SUBSET PermBits],
   dirty    : [Slots -> Blocks \union {NoBlock}],
   dirtyLen : 0 .. NBlocks + 1,
   bitmap   : [Blocks -> BOOLEAN],
   curAlc   : 0 .. MemSize,
   alcs     : [Addr -> {NoAlc} \union 0 .. MemSize]]
=============================================================================
