-------------------------- MODULE MCTickArithmetic --------------------------
(***************************************************************************)
(* The tick arithmetic for TLC, with times of five bits: every period and  *)
(* every sleep there is, and a run that ends at the greatest time.         *)
(***************************************************************************)
EXTENDS TickArithmetic

AllTimes == 0..NEVER
=============================================================================
