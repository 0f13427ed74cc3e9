----------------------------- MODULE Emission -----------------------------
(***************************************************************************)
(* The block emission schedule of root.rs: get_current_halving_factor and *)
(* current_block_emission.  The halving factor is 1u128 << halvings; the  *)
(* runtime is built without overflow checks, so a shift by 128 or more    *)
(* positions shifts by the amount modulo 128 (a build with overflow       *)
(* checks would panic instead, inside on_initialize).  Dividing by        *)
(* 2^s is halving s times with floor, which keeps the numbers within      *)
(* TLC's integers whatever s is.                                          *)
(***************************************************************************)
EXTENDS Naturals

CONSTANTS
  BlockEmission,    \* get_block_emission (u128)
  BlocksPerYear     \* BLOCKS_PER_YEAR = (365 * 24 * 60 * 60) / 10

ASSUME BlockEmission \in Nat /\ BlocksPerYear \in Nat \ {0}

ShiftWidth == 128   \* bits of u128

RECURSIVE Halve(_, _)
(* x \div 2^h *)
Halve(x, h) == IF h = 0 \/ x = 0 THEN x ELSE Halve(x \div 2, h - 1)

(* The shift amount 1u128 << halvings actually applies. *)
HalvingShift(b) == (b \div BlocksPerYear) % ShiftWidth

(* current_block_emission: get_block_emission() / halving factor. *)
CurrentBlockEmission(b) == Halve(BlockEmission, HalvingShift(b))
====
