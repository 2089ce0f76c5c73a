---------------------------- MODULE ProgramMath ----------------------------
(***************************************************************************)
(* The integer arithmetic the on-chain programs share.  They compute in    *)
(* u128 on u64 amounts, so a product of two amounts never overflows.       *)
(***************************************************************************)
EXTENDS Naturals

CeilDiv(a, b) == (a + b - 1) \div b

AtMost(a, b) == IF a <= b THEN a ELSE b

\* Rust's saturating_sub.
SatSub(a, b) == IF a > b THEN a - b ELSE 0
=============================================================================
