--------------------------------- MODULE Isa ---------------------------------
(***************************************************************************)
(* The integer ALU and branch conditions of RV64I as the two engines of    *)
(* emulator.rs compute them: run_emu evaluates them in Rust, compile_jit   *)
(* prints C++ expressions that clang++ compiles.  Each engine is modelled  *)
(* by the arithmetic its language gives the code: Rust's `as` casts and    *)
(* wrapping operations, and C++'s conversions of operands and literals.    *)
(* A reference definition from the RISC-V specification judges both.      *)
(*                                                                         *)
(* The width is reduced: XLEN stands for 64 (u64/int64_t), WLEN for 32     *)
(* (u32/int32_t), ImmBits for the 12 bits of an I-type immediate.  Shift   *)
(* masks 0b111111 and 0b11111 become XLEN-1 and WLEN-1.                     *)
(*                                                                         *)
(* The state is one instruction with its operand values and the result    *)
(* each engine writes to rd (a branch's result is 1 if taken).  Register   *)
(* x0 (read as 0, writes dropped) and the decoding of the fields are left  *)
(* out; LUI, AUIPC, JAL and JALR compute their values at compile time in   *)
(* the same Rust expression in both engines and are left out too.         *)
(***************************************************************************)
EXTENDS Integers, Bitwise

CONSTANTS
  XLEN,     \* register width (64)
  WLEN,     \* width of the *W instructions (32)
  ImmBits,  \* width of an I-type immediate (12)
  Vals,     \* values of rs2 for register-register instructions
  Ops       \* the instructions checked

ASSUME /\ WLEN * 2 = XLEN
       /\ \E k \in 1 .. XLEN : 2^k = XLEN   \* shift masks are XLEN - 1
       /\ ImmBits <= WLEN

Word   == 0 .. 2^XLEN - 1
Imms   == -(2^(ImmBits - 1)) .. 2^(ImmBits - 1) - 1
SHMASK  == XLEN - 1   \* 0b111111
SHMASKW == WLEN - 1   \* 0b11111

RegOps      == {"ADD", "SUB", "SLL", "SLT", "SLTU", "XOR", "SRL", "SRA", "OR", "AND"}
ImmOps      == {"ADDI", "SLTI", "SLTIU", "XORI", "ORI", "ANDI"}
ShiftImmOps == {"SLLI", "SRLI", "SRAI"}
RegWOps     == {"ADDW", "SUBW", "SLLW", "SRLW", "SRAW"}
ImmWOps     == {"ADDIW", "SLLIW", "SRLIW", "SRAIW"}
BranchOps   == {"BEQ", "BNE", "BLT", "BGE", "BLTU", "BGEU"}
AllOps == RegOps \cup ImmOps \cup ShiftImmOps \cup RegWOps \cup ImmWOps \cup BranchOps

\* The second operand an instruction takes: rs2's value, the sign-extended
\* immediate (inst.imm, an i32), or the shift amount field.
Operands(op) ==
  CASE op \in RegOps \cup RegWOps \cup BranchOps -> Vals
    [] op \in ImmOps \cup {"ADDIW"}              -> Imms
    [] op \in ShiftImmOps                        -> 0 .. SHMASK
    [] op \in ImmWOps \ {"ADDIW"}                -> 0 .. SHMASKW

(***************************************************************************)
(* Integer conversions, the same in Rust and C++ on two's-complement       *)
(* targets.                                                                *)
(***************************************************************************)
Wrap(x)    == x % 2^XLEN                                          \* as u64
Signed(x)  == IF x >= 2^(XLEN - 1) THEN x - 2^XLEN ELSE x         \* as i64, of a u64
Lo(x)      == x % 2^WLEN                                          \* as u32
SignedW(x) == IF Lo(x) >= 2^(WLEN - 1) THEN Lo(x) - 2^WLEN ELSE Lo(x) \* as i32
SExtW(x)   == Wrap(SignedW(x))                                    \* as i32 as i64 as u64
Bool(b)    == IF b THEN 1 ELSE 0
Shl(x, s)  == x * 2^s
Shr(x, s)  == x \div 2^s    \* floor: arithmetic on a negative x

(***************************************************************************)
(* run_emu, emulator.rs.  rs1, rs2 are u64 register values; imm is         *)
(* inst.imm; the OP-IMM arm computes `inst.imm as i64 as u64` first.       *)
(***************************************************************************)
InterpBranch(op, rs1, rs2) ==
  Bool(CASE op = "BEQ"  -> rs1 = rs2
         [] op = "BNE"  -> rs1 /= rs2
         [] op = "BLT"  -> Signed(rs1) <  Signed(rs2)
         [] op = "BGE"  -> Signed(rs1) >= Signed(rs2)
         [] op = "BLTU" -> rs1 <  rs2
         [] op = "BGEU" -> rs1 >= rs2)

InterpOpImm(op, rs1, inimm) ==
  LET imm   == Wrap(inimm)
      shamt == inimm & SHMASK
  IN CASE op = "ADDI"  -> Wrap(rs1 + imm)
       [] op = "SLTI"  -> Bool(Signed(rs1) < Signed(imm))
       [] op = "SLTIU" -> Bool(rs1 < imm)
       [] op = "XORI"  -> rs1 ^^ imm
       [] op = "ORI"   -> rs1 | imm
       [] op = "ANDI"  -> rs1 & imm
       [] op = "SLLI"  -> Wrap(Shl(rs1, shamt))
       [] op = "SRLI"  -> Shr(rs1, shamt)
       [] op = "SRAI"  -> Wrap(Shr(Signed(rs1), shamt))

InterpOp(op, rs1, rs2) ==
  LET shamt == rs2 & SHMASK
  IN CASE op = "ADD"  -> Wrap(rs1 + rs2)
       [] op = "SUB"  -> Wrap(rs1 - rs2)
       [] op = "SLL"  -> Wrap(Shl(rs1, shamt))
       [] op = "SLT"  -> Bool(Signed(rs1) < Signed(rs2))
       [] op = "SLTU" -> Bool(rs1 < rs2)
       [] op = "XOR"  -> rs1 ^^ rs2
       [] op = "SRL"  -> Shr(rs1, shamt)
       [] op = "SRA"  -> Wrap(Shr(Signed(rs1), shamt))
       [] op = "OR"   -> rs1 | rs2
       [] op = "AND"  -> rs1 & rs2

\* Mutation: SRLW without the `as i32` of the sign extension.
InterpOpWNoSext(op, r1, r2) ==
  LET rs1 == Lo(r1)
      rs2 == Lo(r2)
      shamt == rs2 & SHMASKW
  IN CASE op = "ADDW" -> SExtW(Lo(rs1 + rs2))
       [] op = "SUBW" -> SExtW(Lo(rs1 - rs2))
       [] op = "SLLW" -> SExtW(Lo(Shl(rs1, shamt)))
       [] op = "SRLW" -> Shr(rs1, shamt)
       [] op = "SRAW" -> Wrap(Shr(SignedW(rs1), shamt))

\* OP-32: rs1 and rs2 are `self.reg(..) as u32`.
InterpOpW(op, r1, r2) ==
  LET rs1 == Lo(r1)
      rs2 == Lo(r2)
      shamt == rs2 & SHMASKW
  IN CASE op = "ADDW" -> SExtW(Lo(rs1 + rs2))
       [] op = "SUBW" -> SExtW(Lo(rs1 - rs2))
       [] op = "SLLW" -> SExtW(Lo(Shl(rs1, shamt)))
       [] op = "SRLW" -> SExtW(Shr(rs1, shamt))
       [] op = "SRAW" -> Wrap(Shr(SignedW(rs1), shamt))

\* OP-IMM-32: rs1 is `self.reg(..) as u32`, imm is `inst.imm as u32`.
InterpOpImmW(op, r1, inimm) ==
  LET rs1 == Lo(r1)
      imm == Lo(inimm)
      shamt == inimm & SHMASKW
  IN CASE op = "ADDIW" -> SExtW(Lo(rs1 + imm))
       [] op = "SLLIW" -> SExtW(Lo(Shl(rs1, shamt)))
       [] op = "SRLIW" -> SExtW(Shr(rs1, shamt))
       [] op = "SRAIW" -> Wrap(Shr(SignedW(rs1), shamt))

Interp(op, a, b) ==
  CASE op \in BranchOps                -> InterpBranch(op, a, b)
    [] op \in ImmOps \cup ShiftImmOps  -> InterpOpImm(op, a, b)
    [] op \in RegOps                   -> InterpOp(op, a, b)
    [] op \in RegWOps                  -> InterpOpW(op, a, b)
    [] op \in ImmWOps                  -> InterpOpImmW(op, a, b)

(***************************************************************************)
(* compile_jit, emulator.rs.  get_reg! declares `auto rs1` from a          *)
(* uint64_t register (or 0x0ULL for x0); get_regw! a uint32_t.  C++ makes  *)
(* a comparison between a signed and an unsigned 64-bit operand unsigned;  *)
(* a hexadecimal literal with suffix LL whose value does not fit long long *)
(* has type unsigned long long.                                            *)
(***************************************************************************)
CLt(x, xSigned, y, ySigned) ==
  IF xSigned /\ ySigned THEN Signed(x) < Signed(y) ELSE x < y
\* The type of the literal format!("{:#x}LL", v): signed iff it fits.
LitSigned(v) == v < 2^(XLEN - 1)
\* set_regw!: state->regs[rd] = (int32_t)(v).
SetRegW(v) == SExtW(v)

JitBranch(op, rs1, rs2) ==
  LET signed == op \in {"BEQ", "BNE", "BLT", "BGE"}   \* cmptyp int64_t
  IN Bool(CASE op = "BEQ"               -> rs1 = rs2
            [] op = "BNE"               -> rs1 /= rs2
            [] op \in {"BLT", "BLTU"} -> CLt(rs1, signed, rs2, signed)
            [] op \in {"BGE", "BGEU"} -> ~CLt(rs1, signed, rs2, signed))

\* The immediate is printed as a literal: {:#x}ULL of `inst.imm as i64 as
\* u64`, except SLTI's {:#x}LL of `inst.imm as i64` (two's-complement hex).
JitOpImm(op, rs1, inimm) ==
  LET lit   == Wrap(inimm)
      shamt == inimm & SHMASK
  IN CASE op = "ADDI"  -> Wrap(rs1 + lit)
       [] op = "SLTI"  -> Bool(CLt(rs1, TRUE, lit, LitSigned(lit)))
       [] op = "SLTIU" -> Bool(CLt(rs1, FALSE, lit, FALSE))
       [] op = "XORI"  -> rs1 ^^ lit
       [] op = "ORI"   -> rs1 | lit
       [] op = "ANDI"  -> rs1 & lit
       [] op = "SLLI"  -> Wrap(Shl(rs1, shamt))
       [] op = "SRLI"  -> Shr(rs1, shamt)
       [] op = "SRAI"  -> Wrap(Shr(Signed(rs1), shamt))

\* Mutation: SRA printed without the (int64_t) cast of rs1.
JitOpSraUnsigned(op, rs1, rs2) ==
  CASE op = "ADD"  -> Wrap(rs1 + rs2)
    [] op = "SUB"  -> Wrap(rs1 - rs2)
    [] op = "SLL"  -> Wrap(Shl(rs1, rs2 & SHMASK))
    [] op = "SLT"  -> Bool(CLt(rs1, TRUE, rs2, TRUE))
    [] op = "SLTU" -> Bool(CLt(rs1, FALSE, rs2, FALSE))
    [] op = "XOR"  -> rs1 ^^ rs2
    [] op = "SRL"  -> Shr(rs1, rs2 & SHMASK)
    [] op = "SRA"  -> Shr(rs1, rs2 & SHMASK)
    [] op = "OR"   -> rs1 | rs2
    [] op = "AND"  -> rs1 & rs2

\* (int64_t)rs2 & 0x3f keeps the low bits of the two's-complement value.
JitOp(op, rs1, rs2) ==
  CASE op = "ADD"  -> Wrap(rs1 + rs2)
    [] op = "SUB"  -> Wrap(rs1 - rs2)
    [] op = "SLL"  -> Wrap(Shl(rs1, rs2 & SHMASK))
    [] op = "SLT"  -> Bool(CLt(rs1, TRUE, rs2, TRUE))
    [] op = "SLTU" -> Bool(CLt(rs1, FALSE, rs2, FALSE))
    [] op = "XOR"  -> rs1 ^^ rs2
    [] op = "SRL"  -> Shr(rs1, rs2 & SHMASK)
    [] op = "SRA"  -> Wrap(Shr(Signed(rs1), rs2 & SHMASK))
    [] op = "OR"   -> rs1 | rs2
    [] op = "AND"  -> rs1 & rs2

\* uint32_t arithmetic wraps at 2^WLEN before set_regw! converts it.
JitOpW(op, r1, r2) ==
  LET rs1 == Lo(r1)
      rs2 == Lo(r2)
  IN CASE op = "ADDW" -> SetRegW(Lo(rs1 + rs2))
       [] op = "SUBW" -> SetRegW(Lo(rs1 - rs2))
       [] op = "SLLW" -> SetRegW(Lo(Shl(rs1, rs2 & SHMASKW)))
       [] op = "SRLW" -> SetRegW(Shr(rs1, rs2 & SHMASKW))
       [] op = "SRAW" -> SetRegW(Shr(SignedW(rs1), rs2 & SHMASKW))

\* ADDIW adds the literal {}U of `inst.imm as i32 as u32`.
JitOpImmW(op, r1, inimm) ==
  LET rs1 == Lo(r1)
      shamt == inimm & SHMASKW
  IN CASE op = "ADDIW" -> SetRegW(Lo(rs1 + Lo(inimm)))
       [] op = "SLLIW" -> SetRegW(Lo(Shl(rs1, shamt)))
       [] op = "SRLIW" -> SetRegW(Shr(rs1, shamt))
       [] op = "SRAIW" -> SetRegW(Shr(SignedW(rs1), shamt))

Jit(op, a, b) ==
  CASE op \in BranchOps                -> JitBranch(op, a, b)
    [] op \in ImmOps \cup ShiftImmOps  -> JitOpImm(op, a, b)
    [] op \in RegOps                   -> JitOp(op, a, b)
    [] op \in RegWOps                  -> JitOpW(op, a, b)
    [] op \in ImmWOps                  -> JitOpImmW(op, a, b)
(***************************************************************************)
(* The reference: the RISC-V unprivileged specification, RV64I.  Values   *)
(* are taken as integers; a *W result is the low WLEN bits sign-extended.  *)
(***************************************************************************)
SExt(v, n) == LET u == v % 2^n IN IF u >= 2^(n - 1) THEN u - 2^n ELSE u
ToX(v)     == SExt(v, XLEN) % 2^XLEN     \* an integer as a register value
ShiftOf(op, b) ==
  IF op \in RegOps \cup RegWOps THEN b % (IF op \in RegWOps THEN WLEN ELSE XLEN) ELSE b

Reference(op, a, b) ==
  LET x  == a                 \* x[rs1], unsigned view
      sx == SExt(a, XLEN)     \* x[rs1], signed view
      y  == IF op \in ImmOps \cup {"ADDIW"} THEN ToX(b) ELSE b  \* sext(imm)
      sy == SExt(y, XLEN)
      s  == ShiftOf(op, b)
      xw == a % 2^WLEN
  IN CASE op \in {"ADD", "ADDI"}   -> ToX(x + y)
       [] op = "SUB"              -> ToX(x - y)
       [] op \in {"SLT", "SLTI"}   -> Bool(sx < sy)
       [] op \in {"SLTU", "SLTIU"} -> Bool(x < y)
       [] op \in {"XOR", "XORI"}   -> x ^^ y
       [] op \in {"OR", "ORI"}     -> x | y
       [] op \in {"AND", "ANDI"}   -> x & y
       [] op \in {"SLL", "SLLI"}   -> ToX(x * 2^s)
       [] op \in {"SRL", "SRLI"}   -> x \div 2^s
       [] op \in {"SRA", "SRAI"}   -> ToX(sx \div 2^s)
       [] op \in {"ADDW", "ADDIW"} -> ToX(SExt(xw + y, WLEN))
       [] op = "SUBW"             -> ToX(SExt(xw - y, WLEN))
       [] op \in {"SLLW", "SLLIW"} -> ToX(SExt(xw * 2^s, WLEN))
       [] op \in {"SRLW", "SRLIW"} -> ToX(SExt(xw \div 2^s, WLEN))
       [] op \in {"SRAW", "SRAIW"} -> ToX(SExt(xw, WLEN) \div 2^s)
       [] op = "BEQ"              -> Bool(x = y)
       [] op = "BNE"              -> Bool(x /= y)
       [] op = "BLT"              -> Bool(sx < sy)
       [] op = "BGE"              -> Bool(sx >= sy)
       [] op = "BLTU"             -> Bool(x < y)
       [] op = "BGEU"             -> Bool(x >= y)

(***************************************************************************)
(* The check: Init picks an instruction and its operand values, then both  *)
(* engines execute it.  `out` holds the value each wrote to rd.            *)
(***************************************************************************)
VARIABLES op, a, b, out, done

vars == <<op, a, b, out, done>>

Init ==
  /\ op \in Ops /\ a \in Word /\ b \in Operands(op)
  /\ out = [interp |-> 0, jit |-> 0]
  /\ done = FALSE

Execute ==
  /\ ~done
  /\ out' = [interp |-> Interp(op, a, b), jit |-> Jit(op, a, b)]
  /\ done' = TRUE
  /\ UNCHANGED <<op, a, b>>

\* The instruction has retired: one instruction per behaviour, so the
\* operand values are all chosen by Init.
Retired == done /\ UNCHANGED vars

Next == Execute \/ Retired

Spec == Init /\ [][Next]_vars

(***************************************************************************)
(* run_emu computes what RV64I specifies: every cast chain of the          *)
(* interpreter (u32 views, `as i32 as i64 as u64` sign extension, the      *)
(* shift-amount masks, wrapping add/sub) gives the ISA's result.           *)
(***************************************************************************)
InterpMatchesISA == done => out.interp = Reference(op, a, b)

(***************************************************************************)
(* The code compiled by compile_jit writes the same value to rd as run_emu *)
(* does for the same instruction and operands (spec section 8, property 7: *)
(* the JIT and the interpreter are interchangeable).                       *)
(***************************************************************************)
JitMatchesInterp == done => out.jit = out.interp
=============================================================================
