-------------------------- MODULE MCLeadLifecycle --------------------------
(***************************************************************************)
(* Small instances of LeadLifecycle: one lead, one or two workers.         *)
(***************************************************************************)
EXTENDS LeadLifecycle, TLC

\* The workers are interchangeable.
WorkerSymmetry == Permutations(Worker)

\* A lead that was overwritten and whose mails were composed twice as well is
\* not followed any further: every invariant makes an exception for it.
Disturbed == overwritten \cap (shared \cup torn)
AtMostOneDisturbance == Disturbed = {}
=============================================================================
