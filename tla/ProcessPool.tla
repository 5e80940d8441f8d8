----------------------------- MODULE ProcessPool -----------------------------
(***************************************************************************)
(* What the supervisor promises of the processes it starts, whoever else   *)
(* stops and restarts them and whenever they die: of each daemon one runs  *)
(* at a time, the supervisor itself starts it a limited number of times    *)
(* and none once it shuts down, and a request starts one at most.          *)
(***************************************************************************)
EXTENDS Naturals

CONSTANTS Daemon, Request, Credit

VARIABLES
  running,  \* the processes that run: <<daemon, number>>
  started,  \* how many processes a daemon was given
  credit,   \* how often the supervisor may still start it unasked
  asked,    \* requests that were made
  waiting,  \* those that are still to be served: <<request, daemon>>
  open      \* it is not shutting down

poolVars == <<running, started, credit, asked, waiting, open>>

Init ==
  /\ running = {} /\ asked = {} /\ waiting = {}
  /\ started = [d \in Daemon |-> 0]
  /\ credit = [d \in Daemon |-> Credit]
  /\ open = TRUE

\* A start that finds the daemon running does nothing, and one may fail.
MayStart(d) ==
  \/ /\ \A p \in running : p[1] # d
     /\ started' = [started EXCEPT ![d] = @ + 1]
     /\ running' = running \cup {<<d, started[d] + 1>>}
  \/ UNCHANGED <<running, started>>

Supervise(d) ==
  /\ open /\ credit[d] > 0
  /\ MayStart(d)
  /\ credit' = [credit EXCEPT ![d] = @ - 1]
  /\ UNCHANGED <<asked, waiting, open>>

Ask(r, d) ==
  /\ r \notin asked
  /\ asked' = asked \cup {r}
  /\ waiting' = waiting \cup {<<r, d>>}
  /\ UNCHANGED <<running, started, credit, open>>

\* A request is served, or dropped.
Serve(r, d) ==
  /\ <<r, d>> \in waiting
  /\ MayStart(d)
  /\ waiting' = waiting \ {<<r, d>>}
  /\ UNCHANGED <<credit, asked, open>>

End(p) ==
  /\ running' = running \ {p}
  /\ UNCHANGED <<started, credit, asked, waiting, open>>

Close ==
  /\ open' = FALSE
  /\ UNCHANGED <<running, started, credit, asked, waiting>>

Next ==
  \/ \E d \in Daemon : \/ Supervise(d)
                       \/ \E r \in Request : Ask(r, d) \/ Serve(r, d)
  \/ \E p \in running : End(p)
  \/ Close

Spec == Init /\ [][Next]_poolVars

=============================================================================
