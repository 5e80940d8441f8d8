--------------------------- MODULE MCDealPipeline ---------------------------
(***************************************************************************)
(* Small instances of DealPipeline.                                        *)
(***************************************************************************)
EXTENDS DealPipeline, TLC

\* The workers are interchangeable.
WorkerSymmetry == Permutations(Worker)
=============================================================================
