----------------------------- MODULE LeaseQueue -----------------------------
(***************************************************************************)
(* What the task queue promises, without its table: a job is leased to one *)
(* worker at a time, only the worker that holds the lease can end it, a    *)
(* failed job is offered again a bounded number of times, and a job that   *)
(* is done or dead stays so.                                               *)
(***************************************************************************)
EXTENDS Naturals

CONSTANTS
  Job, Worker,
  Nobody,      \* the holder of a job that is not leased, no member of Worker
  Attempts     \* failures after which a job is dead, at least 1

VARIABLES phase, holder, failures

leaseVars == <<phase, holder, failures>>

Phase == {"none", "open", "leased", "done", "dead", "gone"}

LeaseInit ==
  /\ phase = [j \in Job |-> "none"]
  /\ holder = [j \in Job |-> Nobody]
  /\ failures = [j \in Job |-> 0]

Submit(j) ==
  /\ phase[j] = "none"
  /\ phase' = [phase EXCEPT ![j] = "open"]
  /\ UNCHANGED <<holder, failures>>

Lease(j, w) ==
  /\ phase[j] = "open"
  /\ phase' = [phase EXCEPT ![j] = "leased"]
  /\ holder' = [holder EXCEPT ![j] = w]
  /\ UNCHANGED failures

\* The holder, and nobody else, ends a lease: with success ...
Finish(j, w) ==
  /\ phase[j] = "leased" /\ holder[j] = w
  /\ phase' = [phase EXCEPT ![j] = "done"]
  /\ holder' = [holder EXCEPT ![j] = Nobody]
  /\ UNCHANGED failures

\* ... or with a failure, the last of which is final.
GiveUp(j, w) ==
  /\ phase[j] = "leased" /\ holder[j] = w
  /\ failures[j] < Attempts
  /\ failures' = [failures EXCEPT ![j] = @ + 1]
  /\ phase' = [phase EXCEPT ![j] =
                 IF failures[j] + 1 = Attempts THEN "dead" ELSE "open"]
  /\ holder' = [holder EXCEPT ![j] = Nobody]

\* A worker that starts again returns every lease it still holds.
ReturnLeases(w) ==
  /\ phase' = [j \in Job |-> IF holder[j] = w THEN "open" ELSE phase[j]]
  /\ holder' = [j \in Job |-> IF holder[j] = w THEN Nobody ELSE holder[j]]
  /\ UNCHANGED failures

\* Old jobs that are done, or open after a failure, may be discarded.
Discard(j) ==
  /\ \/ phase[j] = "done"
     \/ phase[j] = "open" /\ failures[j] > 0
  /\ phase' = [phase EXCEPT ![j] = "gone"]
  /\ UNCHANGED <<holder, failures>>

LeaseNext ==
  \/ \E j \in Job : Submit(j) \/ Discard(j)
  \/ \E j \in Job, w \in Worker : Lease(j, w) \/ Finish(j, w) \/ GiveUp(j, w)
  \/ \E w \in Worker : ReturnLeases(w)

LeaseSpec == LeaseInit /\ [][LeaseNext]_leaseVars
=============================================================================
