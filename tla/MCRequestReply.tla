--------------------------- MODULE MCRequestReply ---------------------------
(***************************************************************************)
(* A small instance of RequestReply: two requests, one daemon, Hermes.     *)
(***************************************************************************)
EXTENDS RequestReply, TLC

\* The requests are interchangeable.
RequestSymmetry == Permutations(Req)
=============================================================================
