------------------------------ MODULE MCWarmup ------------------------------
(***************************************************************************)
(* A small instance of Warmup: a sender, two overlapping checks and a      *)
(* ramp of two days.                                                       *)
(***************************************************************************)
EXTENDS Warmup, TLC

MCRamp == <<2, 4>>

\* No definition names one of the checks.
MonitorSymmetry == Permutations(Monitor)
=============================================================================
