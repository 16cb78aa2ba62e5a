-------------------------------- MODULE MCIsa --------------------------------
(***************************************************************************)
(* Isa at XLEN = 8, WLEN = 4, 4-bit immediates.  rs1 ranges over every     *)
(* 8-bit value; rs2 over the values where the conversions differ: 0, 1,    *)
(* the largest positive and the smallest negative of both widths, -1 of    *)
(* both widths, and shift counts past both masks.                          *)
(***************************************************************************)
EXTENDS Isa

MCVals == {0, 1, 3, 5, 7, 8, 9, 12, 15, 16, 100, 127, 128, 129, 200, 247, 254, 255}

\* Every instruction but SLTI, which MCIsaSlti.cfg checks on its own.
MCOps == AllOps \ {"SLTI"}

MCSlti == {"SLTI"}
=============================================================================
