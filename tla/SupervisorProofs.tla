-------------------------- MODULE SupervisorProofs --------------------------
(***************************************************************************)
(* Proofs about Supervisor, for any vassals and restart requests, any      *)
(* restart limit and any number of processes that die and spawns that      *)
(* fail.                                                                   *)
(***************************************************************************)
EXTENDS Supervisor, FiniteSetTheorems, TLAPS

(***************************************************************************)
(* The inductive invariant                                                 *)
(***************************************************************************)

\* Boot is undisturbed: each vassal is come to once, and the one that spawned
\* a process holds it.
Booting ==
  phase = "boot" =>
    /\ monitor.at = "off"
    /\ \A c \in Caller : caller[c].at = "idle"
    /\ \A v \in Vassal : /\ spawned[v] > 0 => Held(v)
                         /\ v \in todo => spawned[v] = 0

\* The cleanup runs without the monitor, and what it has come to runs no more
\* unless it waits for it, or a late restart has started it.
Cleaning ==
  /\ caller[Cleanup].at # "idle" => phase \in {"cleanup", "down"}
  /\ phase \in {"cleanup", "down"} => monitor.at = "off"
  /\ caller[Cleanup].at = "done" => todo = {}
  /\ caller[Cleanup].at \in {"next", "polling", "done"} =>
       \A v \in Vassal \ (todo \cup late) :
         Runs(v) => caller[Cleanup].at = "polling" /\ caller[Cleanup].on = v

\* The requests that will still start v.
Pending(v) ==
  {r \in Request : caller[r].at \in {"polling", "stopped"} /\ caller[r].on = v}

Booted(v) == IF phase = "boot" /\ v \in todo THEN 0 ELSE 1

\* Every process of a vassal is accounted for, and so is every one to come.
Counted(v) ==
  /\ IsFiniteSet(Pending(v))
  /\ spawned[v] + Cardinality(Pending(v)) <= Booted(v) + restart_count[v] + asked[v]

IInv ==
  /\ TypeOK /\ NoOrphans /\ Booting /\ Cleaning /\ NoVassalForgotten
  /\ \A v \in Vassal : Counted(v)

VassalStatus == {"stopped", "running", "stopping", "crashed", "disabled"}

(***************************************************************************)
(* Types                                                                   *)
(***************************************************************************)

\* start keeps the records it touches in range, and numbers its process.
LEMMA StartType ==
  ASSUME TypeOK, NEW v \in Vassal, start(v)
  PROVE  /\ status' \in [Vassal -> VassalStatus]
         /\ process' \in [Vassal -> Nat] /\ spawned' \in [Vassal -> Nat]
         /\ live' \subseteq Vassal \X Nat
         /\ faults' \in 0 .. MaxFault /\ failed' \subseteq Vassal
         /\ \A w \in Vassal : process'[w] <= spawned'[w]
         /\ \A p \in live' : p[2] <= spawned'[p[1]]
<1> USE SupervisorAssumption DEF TypeOK, VassalStatus
<1>1. CASE Runs(v) /\ UNCHANGED <<status, process, spawned, live, faults, failed>>
  BY <1>1
<1>2. CASE /\ spawned' = [spawned EXCEPT ![v] = @ + 1]
           /\ process' = [process EXCEPT ![v] = spawned[v] + 1]
           /\ status' = [status EXCEPT ![v] = "running"]
           /\ live' = live \cup {<<v, spawned[v] + 1>>}
           /\ UNCHANGED <<faults, failed>>
  BY <1>2
<1>3. CASE /\ faults < MaxFault /\ faults' = faults + 1
           /\ status' = [status EXCEPT ![v] = "crashed"]
           /\ failed' = failed \cup {v}
           /\ UNCHANGED <<process, spawned, live>>
  BY <1>3
<1> QED
  BY <1>1, <1>2, <1>3 DEF start

\* stop keeps the records it touches in range, up to its first await.
LEMMA StopType ==
  ASSUME TypeOK, NEW c \in Caller, NEW v \in Vassal, stop(c, v)
  PROVE  /\ status' \in [Vassal -> VassalStatus]
         /\ process' \in [Vassal -> Nat]
         /\ caller' \in [Caller -> [at : Points, on : Vassal \cup {None}]]
         /\ \A d \in Caller : caller'[d].at \in {"polling", "stopped"} => caller'[d].on \in Vassal
         /\ \A w \in Vassal : process'[w] <= spawned[w]
  BY DEF TypeOK, VassalStatus, stop, Forgets, Goes, After, Points

\* The records stay in range, and numbers name processes that were spawned.
LEMMA TypeStep == TypeOK /\ [Next]_vars => TypeOK'
<1> SUFFICES ASSUME TypeOK, [Next]_vars PROVE TypeOK'
  OBVIOUS
<1> USE SupervisorAssumption DEF VassalStatus, Points
<1>1. ASSUME NEW v \in Vassal, probe_and_start(v) PROVE TypeOK'
  <2>1. CASE start(v)
    BY <1>1, <2>1, StartType DEF probe_and_start, TypeOK
  <2> QED
    BY <1>1, <2>1 DEF probe_and_start, TypeOK
<1>2. CASE BootEnds \/ Shutdown
  BY <1>2 DEF BootEnds, Shutdown, Goes, TypeOK, vassalVars, historyVars, Caller
<1>3. ASSUME NEW v \in Vassal, MonitorFindsDead(v) PROVE TypeOK'
  BY <1>3 DEF MonitorFindsDead, Forgets, TypeOK, historyVars
<1>4. CASE RestartCrashed
  <2>1. monitor.on \in Vassal /\ start(monitor.on)
    BY <1>4 DEF RestartCrashed, TypeOK
  <2> QED
    BY <1>4, <2>1, StartType DEF RestartCrashed, TypeOK
<1>5. ASSUME NEW r \in Request, NEW v \in Vassal, restart(r, v) PROVE TypeOK'
  <2>1. r \in Caller /\ stop(r, v)
    BY <1>5 DEF restart, Caller
  <2> QED
    BY <1>5, <2>1, StopType DEF restart, TypeOK
<1>6. ASSUME NEW r \in Request, RestartStarts(r) PROVE TypeOK'
  <2>1. r \in Caller /\ caller[r].on \in Vassal /\ start(caller[r].on)
    BY <1>6 DEF RestartStarts, TypeOK, Caller
  <2> QED
    BY <1>6, <2>1, StartType DEF RestartStarts, Goes, TypeOK
<1>7. ASSUME NEW c \in Caller, Stops(c) PROVE TypeOK'
  <2>1. caller[c].on \in Vassal
    BY <1>7 DEF Stops, PollSeesDead, PollRaises, Kill, TypeOK
  <2>2. CASE PollSeesDead(c)
    BY <2>1, <2>2 DEF PollSeesDead, Forgets, Goes, After, TypeOK, historyVars
  <2>3. CASE PollRaises(c)
    BY <2>1, <2>3 DEF PollRaises, Goes, TypeOK, vassalVars, historyVars
  <2>4. CASE Kill(c)
    BY <2>1, <2>4 DEF Kill, Forgets, Goes, After, TypeOK, historyVars
  <2> QED
    BY <1>7, <2>2, <2>3, <2>4 DEF Stops
<1>8. CASE CleansUp
  <2>1. Cleanup \in Caller
    BY DEF Caller
  <2>2. CASE AllStopped \/ CleanupTimesOut
    BY <2>1, <2>2 DEF AllStopped, CleanupTimesOut, Goes, TypeOK, vassalVars, historyVars
  <2>3. ASSUME NEW v \in Vassal, StopNext(v) PROVE TypeOK'
    BY <2>1, <2>3, StopType DEF StopNext, TypeOK, historyVars
  <2> QED
    BY <1>8, <2>2, <2>3 DEF CleansUp
<1>9. ASSUME NEW p \in live, Dies(p) PROVE TypeOK'
  BY <1>9 DEF Dies, TypeOK, vassalVars, historyVars
<1>10. CASE UNCHANGED vars
  BY <1>10 DEF vars, vassalVars, historyVars, TypeOK
<1> QED
  BY <1>1, <1>2, <1>3, <1>4, <1>5, <1>6, <1>7, <1>8, <1>9, <1>10 DEF Next, Monitors

(***************************************************************************)
(* What start and stop do                                                  *)
(***************************************************************************)

\* start leaves the vassal with a process or a failed spawn, orphans none, and
\* leaves every other vassal alone.
LEMMA StartFacts ==
  ASSUME TypeOK, NoOrphans, NEW v \in Vassal, start(v)
  PROVE  /\ NoOrphans'
         /\ Held(v)' \/ v \in failed'
         /\ failed \subseteq failed'
         /\ spawned'[v] = spawned[v] \/ (spawned'[v] = spawned[v] + 1 /\ Held(v)')
         /\ \A w \in Vassal \ {v} :
              /\ status'[w] = status[w] /\ process'[w] = process[w]
              /\ spawned'[w] = spawned[w] /\ (Runs(w)' <=> Runs(w))
<1> USE DEF TypeOK, NoOrphans, Runs, Held
<1>1. CASE Runs(v) /\ UNCHANGED <<status, process, spawned, live, faults, failed>>
  BY <1>1
<1>2. CASE /\ ~Runs(v)
           /\ spawned' = [spawned EXCEPT ![v] = @ + 1]
           /\ process' = [process EXCEPT ![v] = spawned[v] + 1]
           /\ status' = [status EXCEPT ![v] = "running"]
           /\ live' = live \cup {<<v, spawned[v] + 1>>}
           /\ UNCHANGED <<faults, failed>>
  BY <1>2
<1>3. CASE /\ status' = [status EXCEPT ![v] = "crashed"]
           /\ failed' = failed \cup {v}
           /\ UNCHANGED <<process, spawned, live>>
  BY <1>3
<1> QED
  BY <1>1, <1>2, <1>3 DEF start

\* stop, up to its first await: either the vassal has no process any more and
\* its caller goes on, or it runs and its caller polls.
LEMMA StopFacts ==
  ASSUME TypeOK, NoOrphans, NEW c \in Caller, NEW v \in Vassal, stop(c, v)
  PROVE  /\ \A p \in live : p[2] # 0 => process'[p[1]] = p[2]
         /\ \A w \in Vassal \ {v} : status'[w] = status[w] /\ process'[w] = process[w]
         /\ \A d \in Caller \ {c} : caller'[d] = caller[d]
         /\ caller'[c].on = v
         /\ \/ caller'[c].at = After(c) /\ process'[v] = 0
            \/ caller'[c].at = "polling" /\ process'[v] = process[v] /\ Runs(v)
<1> USE DEF TypeOK, NoOrphans, Runs, Held, Died, Goes, Forgets
<1>1. CASE ~Held(v) /\ Goes(c, After(c), v) /\ UNCHANGED <<status, process>>
  BY <1>1
<1>2. CASE Died(v) /\ Forgets(v, "stopped") /\ Goes(c, After(c), v)
  <2>1. ASSUME NEW p \in live, p[2] # 0 PROVE p[1] # v
    BY <1>2, <2>1
  <2>2. After(c) \in Points
    BY DEF After, Points
  <2> QED
    BY <1>2, <2>1, <2>2
<1>3. CASE /\ Runs(v) /\ status' = [status EXCEPT ![v] = "stopping"]
           /\ Goes(c, "polling", v) /\ UNCHANGED process
  BY <1>3
<1> QED
  BY <1>1, <1>2, <1>3 DEF stop

(***************************************************************************)
(* The steps                                                               *)
(***************************************************************************)

\* No step loses a process that runs.
LEMMA OrphanStep == TypeOK /\ NoOrphans /\ [Next]_vars => NoOrphans'
<1> SUFFICES ASSUME TypeOK, NoOrphans, [Next]_vars PROVE NoOrphans'
  OBVIOUS
<1>1. ASSUME NEW v \in Vassal, probe_and_start(v) PROVE NoOrphans'
  BY <1>1, StartFacts DEF probe_and_start, NoOrphans
<1>2. CASE BootEnds \/ Shutdown \/ AllStopped \/ CleanupTimesOut \/ UNCHANGED vars
  BY <1>2 DEF BootEnds, Shutdown, AllStopped, CleanupTimesOut, NoOrphans, vars, vassalVars
<1>3. ASSUME NEW v \in Vassal, MonitorFindsDead(v) PROVE NoOrphans'
  BY <1>3 DEF MonitorFindsDead, Forgets, NoOrphans, TypeOK, Died, Held
<1>4. CASE RestartCrashed
  BY <1>4, StartFacts DEF RestartCrashed, TypeOK
<1>5. ASSUME NEW r \in Request, NEW v \in Vassal, restart(r, v) PROVE NoOrphans'
  BY <1>5, StopFacts DEF restart, NoOrphans, Caller
<1>6. ASSUME NEW r \in Request, RestartStarts(r) PROVE NoOrphans'
  BY <1>6, StartFacts DEF RestartStarts, TypeOK, Caller
<1>7. ASSUME NEW c \in Caller, Stops(c) PROVE NoOrphans'
  BY <1>7 DEF Stops, PollSeesDead, PollRaises, Kill, Forgets, Held, Died, vassalVars,
     NoOrphans, TypeOK
<1>8. ASSUME NEW v \in Vassal, StopNext(v) PROVE NoOrphans'
  BY <1>8, StopFacts DEF StopNext, NoOrphans, Caller
<1>9. ASSUME NEW p \in live, Dies(p) PROVE NoOrphans'
  BY <1>9 DEF Dies, NoOrphans, vassalVars
<1> QED
  BY <1>1, <1>2, <1>3, <1>4, <1>5, <1>6, <1>7, <1>8, <1>9 DEF Next, Monitors, CleansUp

\* While the orchestrator boots nobody else acts.
LEMMA BootStep == IInv /\ [Next]_vars => Booting'
<1> SUFFICES ASSUME IInv, [Next]_vars PROVE Booting'
  OBVIOUS
<1> USE DEF Booting
<1>t. TypeOK /\ NoOrphans /\ Booting
  BY DEF IInv
<1>1. ASSUME NEW v \in Vassal, probe_and_start(v) PROVE Booting'
  <2>1. CASE start(v)
    BY <1>t, <1>1, <2>1, StartFacts DEF probe_and_start, TypeOK, Held
  <2> QED
    BY <1>t, <1>1, <2>1 DEF probe_and_start, Held
<1>2. CASE BootEnds \/ Shutdown \/ AllStopped \/ CleanupTimesOut
  BY <1>t, <1>2 DEF BootEnds, Shutdown, AllStopped, CleanupTimesOut, Caller
<1>3. CASE Monitors
  BY <1>t, <1>3 DEF Monitors, MonitorFindsDead, RestartCrashed
<1>4. ASSUME NEW r \in Request, NEW v \in Vassal, restart(r, v) \/ RestartStarts(r)
      PROVE  Booting'
  BY <1>t, <1>4 DEF restart, RestartStarts, Caller
<1>5. ASSUME NEW c \in Caller, Stops(c) PROVE Booting'
  BY <1>t, <1>5 DEF Stops, PollSeesDead, PollRaises, Kill
<1>6. ASSUME NEW v \in Vassal, StopNext(v) PROVE Booting'
  BY <1>t, <1>6 DEF StopNext, Caller
<1>7. ASSUME NEW p \in live, Dies(p) PROVE Booting'
  BY <1>t, <1>7 DEF Dies, vassalVars, Held
<1>8. CASE UNCHANGED vars
  BY <1>t, <1>8 DEF vars, vassalVars, Held
<1>9. ASSUME NEW r \in Request, RestartStarts(r) PROVE Booting'
  BY <1>t, <1>9 DEF RestartStarts, Caller
<1> QED
  BY <1>1, <1>2, <1>3, <1>4, <1>5, <1>6, <1>7, <1>8, <1>9 DEF Next, CleansUp

\* The cleanup leaves nothing behind it that runs.
LEMMA CleanStep == IInv /\ [Next]_vars => Cleaning'
<1> SUFFICES ASSUME IInv, [Next]_vars PROVE Cleaning'
  OBVIOUS
<1> USE DEF Cleaning
<1>t. TypeOK /\ NoOrphans /\ Booting /\ Cleaning
  BY DEF IInv
<1>c. Cleanup \in Caller /\ Cleanup \notin Request
  BY SupervisorAssumption DEF Caller
<1>1. ASSUME NEW v \in Vassal, probe_and_start(v) PROVE Cleaning'
  BY <1>t, <1>c, <1>1 DEF probe_and_start, Booting
<1>2. CASE BootEnds
  BY <1>t, <1>c, <1>2 DEF BootEnds, Booting
<1>3. CASE Shutdown
  BY <1>t, <1>c, <1>3 DEF Shutdown, Goes, TypeOK
<1>4. CASE Monitors
  BY <1>t, <1>4 DEF Monitors, MonitorFindsDead, RestartCrashed
<1>5. ASSUME NEW r \in Request, NEW v \in Vassal, restart(r, v) PROVE Cleaning'
  <2>1. \A w \in Vassal : Runs(w)' => Runs(w)
    BY <1>t, <1>5, StopFacts DEF restart, Runs, Held, Caller
  <2>2. caller'[Cleanup] = caller[Cleanup]
    BY <1>t, <1>c, <1>5, StopFacts DEF restart, Caller
  <2> QED
    BY <1>t, <1>5, <2>1, <2>2 DEF restart
<1>6. ASSUME NEW r \in Request, RestartStarts(r) PROVE Cleaning'
  <2>1. caller[r].on \in Vassal /\ start(caller[r].on)
    BY <1>t, <1>6 DEF RestartStarts, TypeOK, Caller
  <2>2. \A w \in Vassal \ {caller[r].on} : Runs(w)' <=> Runs(w)
    BY <1>t, <2>1, StartFacts
  <2>3. caller'[Cleanup] = caller[Cleanup]
    BY <1>t, <1>c, <1>6 DEF RestartStarts, Goes
  <2> QED
    BY <1>t, <1>6, <2>2, <2>3 DEF RestartStarts
<1>7. ASSUME NEW c \in Request, Stops(c) PROVE Cleaning'
  <2>1. \A w \in Vassal : Runs(w)' => Runs(w)
    BY <1>t, <1>7 DEF Stops, PollSeesDead, PollRaises, Kill, Forgets, Runs, Held, vassalVars,
       TypeOK, Caller
  <2>2. caller'[Cleanup] = caller[Cleanup]
    BY <1>t, <1>c, <1>7 DEF Stops, PollSeesDead, PollRaises, Kill, Goes, TypeOK
  <2> QED
    BY <1>t, <1>c, <1>7, <2>1, <2>2 DEF Stops, PollSeesDead, PollRaises, Kill, historyVars
<1>8. CASE Stops(Cleanup)
  <2>1. PICK v \in Vassal : /\ caller[Cleanup].on = v /\ caller[Cleanup].at = "polling"
                            /\ phase \in {"cleanup", "down"}
    BY <1>t, <1>c, <1>8 DEF Stops, PollSeesDead, PollRaises, Kill, TypeOK
  <2>2. CASE PollSeesDead(Cleanup) \/ Kill(Cleanup)
    <3>1. ~Runs(v)'
      BY <1>t, <2>1, <2>2 DEF PollSeesDead, Kill, Forgets, Runs, Held, TypeOK
    <3>2. \A w \in Vassal \ {v} : Runs(w)' => Runs(w)
      BY <1>t, <2>1, <2>2 DEF PollSeesDead, Kill, Forgets, Runs, Held, TypeOK
    <3>3. caller'[Cleanup].at = "next" /\ phase' = phase /\ monitor' = monitor
          /\ todo' = todo /\ late' = late
      BY <1>t, <1>c, <2>2 DEF PollSeesDead, Kill, Goes, After, TypeOK, historyVars
    <3> QED
      BY <1>t, <2>1, <3>1, <3>2, <3>3
  <2>3. CASE PollRaises(Cleanup)
    BY <1>t, <1>c, <2>1, <2>3 DEF PollRaises, Goes, TypeOK
  <2> QED
    BY <1>8, <2>2, <2>3 DEF Stops
<1>9. ASSUME NEW v \in Vassal, StopNext(v) PROVE Cleaning'
  <2>1. stop(Cleanup, v) /\ caller[Cleanup].at = "next" /\ todo' = todo \ {v}
        /\ phase' = phase /\ monitor' = monitor /\ late' = late /\ live' = live
    BY <1>9 DEF StopNext, historyVars
  <2>2. \A w \in Vassal \ {v} : Runs(w)' => Runs(w)
    BY <1>t, <1>c, <2>1, StopFacts DEF Runs, Held
  <2>3. /\ caller'[Cleanup].on = v
        /\ \/ caller'[Cleanup].at = "next" /\ ~Runs(v)'
           \/ caller'[Cleanup].at = "polling"
    BY <1>t, <1>c, <2>1, StopFacts DEF Runs, Held, After
  <2> QED
    BY <1>t, <2>1, <2>2, <2>3
<1>10. CASE AllStopped \/ CleanupTimesOut
  BY <1>t, <1>c, <1>10 DEF AllStopped, CleanupTimesOut, Goes, vassalVars, historyVars, TypeOK,
     Runs, Held
<1>11. ASSUME NEW p \in live, Dies(p) PROVE Cleaning'
  BY <1>t, <1>11 DEF Dies, vassalVars, historyVars, Runs, Held
<1>12. CASE UNCHANGED vars
  BY <1>t, <1>12 DEF vars, vassalVars, historyVars, Runs, Held
<1> QED
  BY <1>1, <1>2, <1>3, <1>4, <1>5, <1>6, <1>7, <1>8, <1>9, <1>10, <1>11, <1>12
     DEF Next, CleansUp, Caller

\* Whoever takes a process away from its vassal is about to start another one,
\* or gives the vassal up.
LEMMA ForgottenStep == IInv /\ [Next]_vars => NoVassalForgotten'
<1> SUFFICES ASSUME IInv, [Next]_vars PROVE NoVassalForgotten'
  OBVIOUS
<1> USE DEF NoVassalForgotten
<1>t. TypeOK /\ NoOrphans /\ Booting /\ Cleaning /\ NoVassalForgotten
  BY DEF IInv
<1>c. Cleanup \in Caller /\ Cleanup \notin Request /\ Request \subseteq Caller
  BY SupervisorAssumption DEF Caller
<1>1. ASSUME NEW v \in Vassal, probe_and_start(v) PROVE NoVassalForgotten'
  BY <1>t, <1>1 DEF probe_and_start
<1>2. CASE BootEnds
  BY <1>t, <1>2 DEF BootEnds, Booting, vassalVars, Held
<1>3. CASE Shutdown \/ AllStopped \/ CleanupTimesOut
  BY <1>t, <1>3 DEF Shutdown, AllStopped, CleanupTimesOut
<1>4. ASSUME NEW v \in Vassal, MonitorFindsDead(v) PROVE NoVassalForgotten'
  BY <1>t, <1>4 DEF MonitorFindsDead, Forgets, Held, TypeOK, historyVars
<1>5. CASE RestartCrashed
  <2>1. monitor.on \in Vassal /\ start(monitor.on)
    BY <1>t, <1>5 DEF RestartCrashed, TypeOK
  <2> QED
    BY <1>t, <1>5, <2>1, StartFacts DEF RestartCrashed, Held
<1>6. ASSUME NEW r \in Request, NEW v \in Vassal, restart(r, v) PROVE NoVassalForgotten'
  <2>1. /\ caller[r].at = "idle" /\ stop(r, v) /\ r \in Caller /\ r # Cleanup
        /\ phase' = phase /\ spawned' = spawned /\ monitor' = monitor /\ failed' = failed
    BY <1>c, <1>6 DEF restart
  <2>2. Held(v)' \/ (caller'[r].at = "stopped" /\ caller'[r].on = v)
    <3>1. /\ caller'[r].on = v
          /\ \/ caller'[r].at = After(r) /\ process'[v] = 0
             \/ caller'[r].at = "polling" /\ process'[v] = process[v] /\ Runs(v)
      BY <1>t, <2>1, StopFacts
    <3> QED
      BY <2>1, <3>1 DEF After, Held, Runs
  <2>3. \A w \in Vassal \ {v} : status'[w] = status[w] /\ (Held(w)' <=> Held(w))
    BY <1>t, <2>1, StopFacts DEF Held
  <2>4. \A q \in Request : caller[q].at = "stopped" => caller'[q] = caller[q]
    BY <1>t, <1>c, <2>1, StopFacts
  <2> QED
    BY <1>t, <2>1, <2>2, <2>3, <2>4
<1>7. ASSUME NEW r \in Request, RestartStarts(r) PROVE NoVassalForgotten'
  <2>1. caller[r].on \in Vassal /\ start(caller[r].on)
    BY <1>t, <1>c, <1>7 DEF RestartStarts, TypeOK
  <2> QED
    BY <1>t, <1>7, <2>1, StartFacts DEF RestartStarts, Goes, Held
<1>8. ASSUME NEW c \in Request, Stops(c) PROVE NoVassalForgotten'
  BY <1>t, <1>c, <1>8 DEF Stops, PollSeesDead, PollRaises, Kill, Forgets, Goes, After, Held,
     Died, TypeOK, vassalVars, historyVars
<1>9. CASE Stops(Cleanup)
  BY <1>t, <1>c, <1>9 DEF Stops, PollSeesDead, PollRaises, Kill, Cleaning
<1>10. ASSUME NEW v \in Vassal, StopNext(v) PROVE NoVassalForgotten'
  BY <1>t, <1>10 DEF StopNext, Cleaning
<1>11. ASSUME NEW p \in live, Dies(p) PROVE NoVassalForgotten'
  BY <1>t, <1>11 DEF Dies, vassalVars, historyVars, Held
<1>12. CASE UNCHANGED vars
  BY <1>t, <1>12 DEF vars, vassalVars, historyVars, Held
<1> QED
  BY <1>1, <1>2, <1>3, <1>4, <1>5, <1>6, <1>7, <1>8, <1>9, <1>10, <1>11, <1>12
     DEF Next, Monitors, CleansUp, Caller

\* A start is counted, or was asked for; a caller that starts nothing only
\* makes the account smaller.
LEMMA CountStep ==
  ASSUME IInv, [Next]_vars, NEW v \in Vassal
  PROVE  Counted(v)'
<1> DEFINE Account == Booted(v) + restart_count[v] + asked[v]
           Due == Cardinality(Pending(v))
<1>t. TypeOK /\ NoOrphans /\ Booting /\ Cleaning /\ Counted(v)
  BY DEF IInv
<1>n. Due \in Nat /\ spawned[v] \in Nat /\ restart_count[v] \in Nat /\ asked[v] \in Nat
      /\ Booted(v) \in 0 .. 1 /\ spawned[v] + Due <= Account
  BY <1>t, SupervisorAssumption, FS_CardinalityType DEF TypeOK, Counted, Booted
<1>same. ASSUME Pending(v)' = Pending(v), spawned' = spawned, Booted(v)' = Booted(v),
                restart_count' = restart_count, asked' = asked
         PROVE  Counted(v)'
  BY <1>t, <1>same DEF Counted
<1>fewer. ASSUME Pending(v)' \subseteq Pending(v), spawned' = spawned,
                 Booted(v)' = Booted(v), restart_count' = restart_count, asked' = asked
          PROVE  Counted(v)'
  <2>1. IsFiniteSet(Pending(v)') /\ Cardinality(Pending(v)') <= Due
    BY <1>t, <1>fewer, FS_Subset DEF Counted
  <2>2. Cardinality(Pending(v)') \in Nat
    BY <2>1, FS_CardinalityType
  <2> QED
    BY <1>n, <1>fewer, <2>1, <2>2 DEF Counted
<1>1. ASSUME NEW w \in Vassal, probe_and_start(w) PROVE Counted(v)'
  <2>1. Pending(v)' = Pending(v) /\ restart_count' = restart_count /\ asked' = asked
        /\ phase' = phase /\ phase = "boot" /\ w \in todo /\ todo' = todo \ {w}
    BY <1>1 DEF probe_and_start, Pending
  <2>2. CASE w = v
    <3>1. spawned'[v] \in {spawned[v], spawned[v] + 1}
      BY <1>t, <1>1, <2>2, StartFacts DEF probe_and_start
    <3>2. Booted(v) = 0 /\ Booted(v)' = 1
      BY <2>1, <2>2 DEF Booted
    <3> QED
      BY <1>t, <1>n, <2>1, <3>1, <3>2 DEF Counted
  <2>3. CASE w # v
    <3>1. spawned'[v] = spawned[v]
      BY <1>t, <1>1, <2>3, StartFacts DEF probe_and_start
    <3>2. Booted(v)' = Booted(v)
      BY <2>1, <2>3 DEF Booted
    <3> QED
      BY <1>t, <2>1, <3>1, <3>2 DEF Counted
  <2> QED
    BY <2>2, <2>3
<1>2. CASE BootEnds
  BY <1>t, <1>2, <1>same DEF BootEnds, Pending, Booted, vassalVars, historyVars
<1>3. CASE Shutdown \/ AllStopped \/ CleanupTimesOut
  <2>1. Pending(v)' = Pending(v)
    BY <1>3, SupervisorAssumption, <1>t
       DEF Shutdown, AllStopped, CleanupTimesOut, Goes, Pending, TypeOK, Caller
  <2>2. Booted(v)' = Booted(v)
    BY <1>3, <1>t DEF Shutdown, AllStopped, CleanupTimesOut, Booted, Cleaning
  <2> QED
    BY <1>3, <1>same, <2>1, <2>2
       DEF Shutdown, AllStopped, CleanupTimesOut, vassalVars, historyVars
<1>4. ASSUME NEW w \in Vassal, MonitorFindsDead(w) PROVE Counted(v)'
  BY <1>4, <1>same DEF MonitorFindsDead, Pending, Booted, historyVars
<1>5. CASE RestartCrashed
  <2>1. PICK w \in Vassal : w = monitor.on /\ start(w)
    BY <1>t, <1>5 DEF RestartCrashed, TypeOK
  <2>2. Pending(v)' = Pending(v) /\ Booted(v)' = Booted(v) /\ asked' = asked
        /\ restart_count' = [restart_count EXCEPT ![w] = @ + 1]
    BY <1>5, <2>1 DEF RestartCrashed, Pending, Booted
  <2>3. /\ w = v => spawned'[v] \in {spawned[v], spawned[v] + 1}
        /\ w # v => spawned'[v] = spawned[v]
    BY <1>t, <2>1, StartFacts
  <2>4. restart_count'[v] = IF w = v THEN restart_count[v] + 1 ELSE restart_count[v]
    BY <1>t, <2>2 DEF TypeOK
  <2> QED
    BY <1>t, <1>n, <2>2, <2>3, <2>4 DEF Counted
<1>6. ASSUME NEW r \in Request, NEW w \in Vassal, restart(r, w) PROVE Counted(v)'
  <2>1. /\ stop(r, w) /\ caller[r].at = "idle" /\ r \in Caller /\ r # Cleanup
        /\ asked' = [asked EXCEPT ![w] = @ + 1]
        /\ spawned' = spawned /\ restart_count' = restart_count /\ Booted(v)' = Booted(v)
    BY <1>6, SupervisorAssumption DEF restart, Caller, Booted
  <2>2. /\ caller'[r].on = w /\ caller'[r].at \in {"polling", "stopped"}
        /\ \A q \in Request \ {r} : caller'[q] = caller[q]
    BY <1>t, <2>1, StopFacts DEF After, Caller
  <2>3. r \notin Pending(v)
    BY <2>1 DEF Pending
  <2>4. CASE w = v
    <3>1. Pending(v)' = Pending(v) \cup {r}
      BY <2>1, <2>2, <2>4 DEF Pending
    <3>2. IsFiniteSet(Pending(v)') /\ Cardinality(Pending(v)') = Due + 1
      BY <1>t, <2>3, <3>1, FS_AddElement DEF Counted
    <3>3. asked'[v] = asked[v] + 1
      BY <1>t, <2>1, <2>4 DEF TypeOK
    <3> QED
      BY <1>n, <2>1, <3>2, <3>3 DEF Counted
  <2>5. CASE w # v
    <3>1. Pending(v)' = Pending(v)
      BY <2>1, <2>2, <2>3, <2>5 DEF Pending
    <3>2. asked'[v] = asked[v]
      BY <1>t, <2>1, <2>5 DEF TypeOK
    <3> QED
      BY <1>t, <2>1, <3>1, <3>2 DEF Counted
  <2> QED
    BY <2>4, <2>5
<1>7. ASSUME NEW r \in Request, RestartStarts(r) PROVE Counted(v)'
  <2>1. PICK w \in Vassal : /\ w = caller[r].on /\ start(w) /\ caller[r].at = "stopped"
                            /\ caller' = [caller EXCEPT ![r] = [at |-> "done", on |-> w]]
    BY <1>t, <1>7 DEF RestartStarts, Goes, TypeOK, Caller
  <2>2. Booted(v)' = Booted(v) /\ restart_count' = restart_count /\ asked' = asked
    BY <1>7 DEF RestartStarts, Booted
  <2>3. Pending(v)' = Pending(v) \ {r}
    BY <1>t, <2>1 DEF Pending, TypeOK, Caller
  <2>4. CASE w = v
    <3>1. r \in Pending(v)
      BY <2>1, <2>4 DEF Pending
    <3>2. IsFiniteSet(Pending(v)') /\ Cardinality(Pending(v)') = Due - 1
      BY <1>t, <2>3, <3>1, FS_RemoveElement DEF Counted
    <3>3. spawned'[v] \in {spawned[v], spawned[v] + 1}
      BY <1>t, <2>1, <2>4, StartFacts
    <3> QED
      BY <1>n, <2>2, <3>2, <3>3 DEF Counted
  <2>5. CASE w # v
    <3>1. Pending(v)' = Pending(v)
      BY <2>1, <2>3, <2>5 DEF Pending
    <3>2. spawned'[v] = spawned[v]
      BY <1>t, <2>1, <2>5, StartFacts
    <3> QED
      BY <1>t, <2>2, <3>1, <3>2 DEF Counted
  <2> QED
    BY <2>4, <2>5
<1>8. ASSUME NEW c \in Caller, Stops(c) PROVE Counted(v)'
  <2>1. Pending(v)' \subseteq Pending(v)
    BY <1>t, <1>8 DEF Stops, PollSeesDead, PollRaises, Kill, Goes, After, Pending, TypeOK, Caller
  <2>2. Booted(v)' = Booted(v)
    BY <1>t, <1>8 DEF Stops, PollSeesDead, PollRaises, Kill, Booted, Booting
  <2> QED
    BY <1>8, <1>fewer, <2>1, <2>2
       DEF Stops, PollSeesDead, PollRaises, Kill, vassalVars, historyVars
<1>9. ASSUME NEW w \in Vassal, StopNext(w) PROVE Counted(v)'
  <2>1. stop(Cleanup, w) /\ Cleanup \in Caller
    BY <1>9 DEF StopNext, Caller
  <2>2. Pending(v)' = Pending(v)
    BY <1>t, <2>1, StopFacts, SupervisorAssumption DEF Pending, Caller
  <2>3. Booted(v)' = Booted(v)
    BY <1>t, <1>9 DEF StopNext, Booted, Cleaning
  <2> QED
    BY <1>9, <1>same, <2>2, <2>3 DEF StopNext, historyVars
<1>10. ASSUME NEW p \in live, Dies(p) PROVE Counted(v)'
  BY <1>10, <1>same DEF Dies, Pending, Booted, vassalVars, historyVars
<1>11. CASE UNCHANGED vars
  BY <1>11, <1>same DEF vars, Pending, Booted, vassalVars, historyVars
<1> QED
  BY <1>1, <1>2, <1>3, <1>4, <1>5, <1>6, <1>7, <1>8, <1>9, <1>10, <1>11
     DEF Next, Monitors, CleansUp

\* The inductive invariant holds at the start.
LEMMA InitInvariant == Init => IInv
<1> SUFFICES ASSUME Init PROVE IInv
  OBVIOUS
<1>1. TypeOK
  BY SupervisorAssumption DEF Init, TypeOK, Points, Caller
<1>2. ASSUME NEW v \in Vassal PROVE Counted(v)
  <2>1. Pending(v) = {}
    BY DEF Init, Pending, Caller
  <2>2. IsFiniteSet(Pending(v)) /\ Cardinality(Pending(v)) = 0
    BY <2>1, FS_EmptySet
  <2> QED
    BY <2>2 DEF Counted, Init, Booted
<1>3. NoOrphans /\ Booting /\ Cleaning /\ NoVassalForgotten
  BY DEF Init, NoOrphans, Booting, Cleaning, NoVassalForgotten, Caller
<1> QED
  BY <1>1, <1>2, <1>3 DEF IInv

\* The inductive invariant holds in every state of every behaviour.
LEMMA Invariance == Spec => []IInv
<1>1. IInv /\ [Next]_vars => IInv'
  BY TypeStep, OrphanStep, BootStep, CleanStep, ForgottenStep, CountStep DEF IInv
<1> QED
  BY InitInvariant, <1>1, PTL DEF Spec

(***************************************************************************)
(* The theorems                                                            *)
(***************************************************************************)

\* The supervisor's records stay in range in every behaviour.
THEOREM TypeCorrect == Spec => []TypeOK
<1>1. IInv => TypeOK
  BY DEF IInv
<1> QED
  BY <1>1, Invariance, PTL

\* The supervisor holds every process it spawned and that runs, whatever the
\* monitor, restarts and the cleanup do at the same time.
THEOREM NothingOrphaned == Spec => []NoOrphans
<1>1. IInv => NoOrphans
  BY DEF IInv
<1> QED
  BY <1>1, Invariance, PTL

\* No vassal is spawned more often than once at boot, max_restart_attempts
\* times by the monitor and once for each restart that was asked for.
THEOREM RestartsBounded == Spec => []RestartsAreBounded
<1>1. ASSUME IInv, NEW v \in Vassal
      PROVE  spawned[v] <= 1 + MaxRestarts + asked[v]
  <2>1. Cardinality(Pending(v)) \in Nat
    BY <1>1, FS_CardinalityType DEF IInv, Counted
  <2>2. /\ spawned[v] \in Nat /\ asked[v] \in Nat /\ restart_count[v] \in 0 .. MaxRestarts
        /\ Booted(v) \in 0 .. 1
    BY <1>1 DEF IInv, TypeOK, Booted
  <2>3. spawned[v] + Cardinality(Pending(v)) <= Booted(v) + restart_count[v] + asked[v]
    BY <1>1 DEF IInv, Counted
  <2> QED
    BY <2>1, <2>2, <2>3, SupervisorAssumption
<1>2. IInv => RestartsAreBounded
  BY <1>1 DEF RestartsAreBounded
<1> QED
  BY <1>2, Invariance, PTL

\* A vassal without a process has a coroutine that will start it, or was given
\* up, even where a stop ended in an AttributeError.
THEOREM NobodyForgotten == Spec => []NoVassalForgotten
<1>1. IInv => NoVassalForgotten
  BY DEF IInv
<1> QED
  BY <1>1, Invariance, PTL

\* A cleanup that ran to its end leaves no process the supervisor spawned,
\* except one that a late restart has started.
THEOREM ShutdownIsComplete == Spec => []ShutdownStopsAll
<1>1. ASSUME IInv, caller[Cleanup].at = "done", NEW p \in live, p[2] # 0, p[1] \notin late
      PROVE  FALSE
  <2>1. p[1] \in Vassal /\ p = <<p[1], p[2]>> /\ process[p[1]] = p[2]
    BY <1>1 DEF IInv, TypeOK, NoOrphans
  <2>2. Runs(p[1])
    BY <1>1, <2>1 DEF Runs, Held
  <2> QED
    BY <1>1, <2>1, <2>2 DEF IInv, Cleaning
<1>2. IInv => ShutdownStopsAll
  BY <1>1 DEF ShutdownStopsAll
<1> QED
  BY <1>2, Invariance, PTL

(***************************************************************************)
(* The pool                                                                *)
(***************************************************************************)

\* The pool's view of the state.
Spawns    == {p \in live : p[2] # 0}
Credit(v) == (MaxRestarts - restart_count[v]) + (IF phase = "boot" /\ v \in todo THEN 1 ELSE 0)
Asked     == {r \in Request : caller[r].at # "idle"}
Waiting   == {w \in Request \X Vassal : /\ caller[w[1]].at \in {"polling", "stopped"}
                                        /\ caller[w[1]].on = w[2]}
Open      == phase \in {"boot", "up"}

\* A start is a start of the pool: if it spawns, no process of the vassal runs.
LEMMA StartMay ==
  ASSUME TypeOK, NoOrphans, NEW v \in Vassal, start(v)
  PROVE  \/ /\ \A p \in Spawns : p[1] # v
            /\ spawned' = [spawned EXCEPT ![v] = @ + 1]
            /\ Spawns' = Spawns \cup {<<v, spawned[v] + 1>>}
         \/ spawned' = spawned /\ Spawns' = Spawns
<1>1. CASE UNCHANGED <<spawned, live>>
  BY <1>1 DEF Spawns
<1>2. CASE /\ ~Runs(v) /\ spawned' = [spawned EXCEPT ![v] = @ + 1]
           /\ live' = live \cup {<<v, spawned[v] + 1>>}
  <2>1. ASSUME NEW p \in Spawns, p[1] = v PROVE FALSE
    <3>1. p \in live /\ p = <<v, p[2]>> /\ p[2] # 0
      BY <2>1 DEF Spawns, TypeOK
    <3>2. process[v] = p[2]
      BY <2>1, <3>1 DEF NoOrphans
    <3> QED
      BY <1>2, <3>1, <3>2 DEF Runs, Held
  <2>2. spawned[v] + 1 # 0
    BY DEF TypeOK
  <2>3. Spawns' = Spawns \cup {<<v, spawned[v] + 1>>}
    BY <1>2, <2>2 DEF Spawns
  <2> QED
    BY <1>2, <2>1, <2>3
<1> QED
  BY <1>1, <1>2 DEF start

\* Who waits to be started, after a caller went on.
LEMMA WaitingKept ==
  ASSUME TypeOK, NEW r \in Request,
         \A q \in Request \ {r} : caller'[q] = caller[q],
         caller[r].at # "idle" /\ caller'[r].at # "idle"
  PROVE  /\ Asked' = Asked
         /\ (/\ caller[r].at \in {"polling", "stopped"} /\ caller'[r].at \in {"polling", "stopped"}
             /\ caller'[r].on = caller[r].on) => Waiting' = Waiting
         /\ (/\ caller[r].at \in {"polling", "stopped"} /\ caller'[r].at \notin {"polling", "stopped"}
             ) => Waiting' = Waiting \ {<<r, caller[r].on>>}
<1>1. Asked' = Asked
  BY DEF Asked
<1>2. ASSUME caller[r].at \in {"polling", "stopped"}, caller'[r].at \in {"polling", "stopped"},
             caller'[r].on = caller[r].on
      PROVE  Waiting' = Waiting
  <2>1. \A w \in Request \X Vassal : w \in Waiting' <=> w \in Waiting
    BY <1>2 DEF Waiting
  <2> QED
    BY <2>1 DEF Waiting
<1>3. ASSUME caller[r].at \in {"polling", "stopped"}, caller'[r].at \notin {"polling", "stopped"}
      PROVE  Waiting' = Waiting \ {<<r, caller[r].on>>}
  <2>1. \A w \in Request \X Vassal : w \in Waiting' <=> (w \in Waiting /\ w # <<r, caller[r].on>>)
    BY <1>3 DEF Waiting
  <2> QED
    BY <2>1 DEF Waiting
<1> QED
  BY <1>1, <1>2, <1>3

\* Callers other than the requests are not seen by the pool.
LEMMA RequestsSame ==
  ASSUME \A r \in Request : caller'[r] = caller[r]
  PROVE  Asked' = Asked /\ Waiting' = Waiting
  BY DEF Asked, Waiting

\* Every step is a step of the pool, or none.
LEMMA PoolStep == IInv /\ [Next]_vars => [Pool!Next]_(Pool!poolVars)
<1> SUFFICES ASSUME IInv, [Next]_vars PROVE Pool!Next \/ UNCHANGED Pool!poolVars
  OBVIOUS
<1> DEFINE Credits == [v \in Vassal |-> Credit(v)]
           Same == /\ Spawns' = Spawns /\ spawned' = spawned /\ Credits' = Credits
                   /\ Asked' = Asked /\ Waiting' = Waiting /\ Open' = Open
<1>a. TypeOK /\ NoOrphans /\ Booting /\ Cleaning /\ Cleanup \notin Request
  BY SupervisorAssumption DEF IInv
<1>b. ASSUME Same PROVE UNCHANGED Pool!poolVars
  BY <1>b DEF Spawns, Credit, Asked, Waiting, Open, Pool!poolVars
<1>c. ASSUME NEW v \in Vassal, Open, Credits[v] > 0, Asked' = Asked, Waiting' = Waiting,
             Open' = Open, Credits' = [Credits EXCEPT ![v] = @ - 1],
             \/ /\ \A p \in Spawns : p[1] # v
                /\ spawned' = [spawned EXCEPT ![v] = @ + 1]
                /\ Spawns' = Spawns \cup {<<v, spawned[v] + 1>>}
             \/ spawned' = spawned /\ Spawns' = Spawns
      PROVE  Pool!Next
  <2>1. \E d \in Vassal : Pool!Supervise(d)
    BY <1>c DEF Pool!Supervise, Pool!MayStart, Spawns, Credit, Asked, Waiting, Open
  <2> QED
    BY <2>1 DEF Pool!Next
<1>d. ASSUME NEW r \in Request, NEW v \in Vassal, <<r, v>> \in Waiting, Asked' = Asked,
             Waiting' = Waiting \ {<<r, v>>}, Open' = Open, Credits' = Credits,
             \/ /\ \A p \in Spawns : p[1] # v
                /\ spawned' = [spawned EXCEPT ![v] = @ + 1]
                /\ Spawns' = Spawns \cup {<<v, spawned[v] + 1>>}
             \/ spawned' = spawned /\ Spawns' = Spawns
      PROVE  Pool!Next
  <2>1. \E d \in Vassal : \E q \in Request : Pool!Serve(q, d)
    BY <1>d DEF Pool!Serve, Pool!MayStart, Spawns, Credit, Asked, Waiting, Open
  <2> QED
    BY <2>1 DEF Pool!Next
<1>e. ASSUME NEW p, live' = live \ {p}, spawned' = spawned, Credits' = Credits,
             Asked' = Asked, Waiting' = Waiting, Open' = Open
      PROVE  Pool!Next \/ UNCHANGED Pool!poolVars
  <2>1. CASE p \in Spawns
    <3>1. Spawns' = Spawns \ {p}
      BY <1>e DEF Spawns
    <3>2. \E q \in Spawns : Pool!End(q)
      BY <1>e, <2>1, <3>1 DEF Pool!End, Spawns, Credit, Asked, Waiting, Open
    <3> QED
      BY <3>2 DEF Pool!Next, Spawns
  <2>2. CASE p \notin Spawns
    BY <1>b, <1>e, <2>2 DEF Spawns
  <2> QED
    BY <2>1, <2>2
<1>1. ASSUME NEW v \in Vassal, probe_and_start(v) PROVE Pool!Next
  <2>1. /\ phase = "boot" /\ v \in todo /\ todo' = todo \ {v}
        /\ UNCHANGED <<restart_count, caller, phase>>
    BY <1>1 DEF probe_and_start
  <2>2. Open /\ Open' = Open /\ Asked' = Asked /\ Waiting' = Waiting
    BY <2>1, RequestsSame DEF Open
  <2>3. restart_count \in [Vassal -> 0 .. MaxRestarts]
    BY <1>a DEF TypeOK
  <2>4. Credits[v] > 0
    BY <2>1, <2>3, SupervisorAssumption DEF Credit
  <2>5. \A w \in Vassal : Credits'[w] = IF w = v THEN Credits[v] - 1 ELSE Credits[w]
    BY <2>1, <2>3, SupervisorAssumption DEF Credit
  <2>6. Credits' = [Credits EXCEPT ![v] = @ - 1]
    BY <2>5
  <2>7. CASE UNCHANGED <<spawned, live>>
    BY <1>c, <2>2, <2>4, <2>6, <2>7 DEF Spawns
  <2>8. CASE start(v)
    BY <1>a, <1>c, <2>2, <2>4, <2>6, <2>8, StartMay
  <2> QED
    BY <1>1, <2>7, <2>8 DEF probe_and_start
<1>2. CASE BootEnds
  <2>1. phase = "boot" /\ phase' = "up" /\ todo = {}
        /\ UNCHANGED <<restart_count, spawned, live, caller, todo>>
    BY <1>2 DEF BootEnds, vassalVars
  <2>2. Credits' = Credits
    BY <2>1 DEF Credit
  <2> QED
    BY <1>b, <2>1, <2>2, RequestsSame DEF Spawns, Open
<1>3. ASSUME NEW v \in Vassal, MonitorFindsDead(v) PROVE UNCHANGED Pool!poolVars
  BY <1>b, <1>3, RequestsSame DEF MonitorFindsDead, Spawns, Credit, Open
<1>4. CASE RestartCrashed
  <2> DEFINE v == monitor.on
  <2>1. /\ v \in Vassal /\ start(v) /\ restart_count[v] < MaxRestarts
        /\ restart_count' = [restart_count EXCEPT ![v] = @ + 1]
        /\ UNCHANGED <<caller, phase, todo>>
    BY <1>4, <1>a DEF RestartCrashed, TypeOK
  <2>2. phase = "up"
    BY <1>4, <1>a DEF RestartCrashed, Booting, Cleaning, TypeOK
  <2>3. Open /\ Open' = Open /\ Asked' = Asked /\ Waiting' = Waiting
    BY <2>1, <2>2, RequestsSame DEF Open
  <2>4. restart_count \in [Vassal -> 0 .. MaxRestarts]
    BY <1>a DEF TypeOK
  <2>5. Credits[v] > 0
    BY <2>1, <2>2, <2>4, SupervisorAssumption DEF Credit
  <2>6. \A w \in Vassal : Credits'[w] = IF w = v THEN Credits[v] - 1 ELSE Credits[w]
    BY <2>1, <2>2, <2>4, SupervisorAssumption DEF Credit
  <2>7. Credits' = [Credits EXCEPT ![v] = @ - 1]
    BY <2>6
  <2>8. \/ /\ \A p \in Spawns : p[1] # v
           /\ spawned' = [spawned EXCEPT ![v] = @ + 1]
           /\ Spawns' = Spawns \cup {<<v, spawned[v] + 1>>}
        \/ spawned' = spawned /\ Spawns' = Spawns
    BY <1>a, <2>1, StartMay
  <2> QED
    BY <1>c, <2>1, <2>3, <2>5, <2>7, <2>8
<1>5. ASSUME NEW r \in Request, NEW v \in Vassal, restart(r, v) PROVE Pool!Next
  <2>1. /\ phase # "boot" /\ caller[r].at = "idle" /\ stop(r, v) /\ r \in Caller
        /\ UNCHANGED <<restart_count, spawned, live, phase, todo>>
    BY <1>5 DEF restart, Caller
  <2>2. /\ caller'[r].at \in {"polling", "stopped"} /\ caller'[r].on = v
        /\ \A d \in Caller \ {r} : caller'[d] = caller[d]
    BY <1>a, <2>1, StopFacts DEF After
  <2>3. r \notin Asked /\ Asked' = Asked \cup {r}
    BY <2>1, <2>2 DEF Asked, Caller
  <2>4. Waiting' = Waiting \cup {<<r, v>>}
    <3>1. \A w \in Request \X Vassal : w \in Waiting' <=> w \in Waiting \/ w = <<r, v>>
      BY <2>1, <2>2 DEF Waiting, Caller
    <3>2. Waiting \subseteq Request \X Vassal /\ Waiting' \subseteq Request \X Vassal
      BY DEF Waiting
    <3> QED
      BY <3>1, <3>2
  <2>5. Spawns' = Spawns /\ spawned' = spawned /\ Credits' = Credits /\ Open' = Open
    BY <2>1 DEF Spawns, Credit, Open
  <2>6. \E d \in Vassal : \E q \in Request : Pool!Ask(q, d)
    BY <2>3, <2>4, <2>5 DEF Pool!Ask, Spawns, Credit, Asked, Waiting, Open
  <2> QED
    BY <2>6 DEF Pool!Next
<1>6. ASSUME NEW r \in Request, RestartStarts(r) PROVE Pool!Next
  <2> DEFINE v == caller[r].on
  <2>1. /\ r \in Caller /\ caller[r].at = "stopped" /\ v \in Vassal /\ start(v)
        /\ caller' = [caller EXCEPT ![r] = [at |-> "done", on |-> v]]
        /\ UNCHANGED <<restart_count, phase, todo>>
    BY <1>6, <1>a DEF RestartStarts, Goes, TypeOK, Caller
  <2>2. caller'[r].at = "done" /\ \A q \in Request \ {r} : caller'[q] = caller[q]
    BY <1>a, <2>1 DEF TypeOK, Caller
  <2>3. Asked' = Asked /\ Waiting' = Waiting \ {<<r, v>>}
    BY <1>a, <2>1, <2>2, WaitingKept
  <2>4. <<r, v>> \in Waiting
    BY <2>1 DEF Waiting
  <2>5. Credits' = Credits /\ Open' = Open
    BY <2>1 DEF Credit, Open
  <2>6. \/ /\ \A p \in Spawns : p[1] # v
           /\ spawned' = [spawned EXCEPT ![v] = @ + 1]
           /\ Spawns' = Spawns \cup {<<v, spawned[v] + 1>>}
        \/ spawned' = spawned /\ Spawns' = Spawns
    BY <1>a, <2>1, StartMay
  <2> QED
    BY <1>d, <2>1, <2>3, <2>4, <2>5, <2>6
<1>7. ASSUME NEW c \in Caller, Stops(c) PROVE Pool!Next \/ UNCHANGED Pool!poolVars
  <2> DEFINE v == caller[c].on
  <2>1. caller[c].at = "polling" /\ v \in Vassal /\ UNCHANGED <<restart_count, spawned, todo>>
    BY <1>7, <1>a DEF Stops, PollSeesDead, PollRaises, Kill, TypeOK, vassalVars
  <2>2. caller'[c].on = v /\ \A d \in Caller \ {c} : caller'[d] = caller[d]
    BY <1>7, <1>a DEF Stops, PollSeesDead, PollRaises, Kill, TypeOK, Goes
  <2>3. c = Cleanup => phase \in {"cleanup", "down"}
    BY <2>1, <1>a DEF Cleaning
  <2>4. Open' = Open /\ Credits' = Credits
    <3>1. phase' = phase \/ (c = Cleanup /\ phase' = "down")
      BY <1>7 DEF Stops, PollSeesDead, PollRaises, Kill
    <3> QED
      BY <2>1, <2>3, <3>1 DEF Open, Credit
  <2>5. CASE c = Cleanup
    <3>1. Asked' = Asked /\ Waiting' = Waiting
      BY <1>a, <2>2, <2>5, RequestsSame DEF Caller
    <3>2. CASE PollSeesDead(c) \/ PollRaises(c)
      BY <1>b, <2>1, <2>4, <3>1, <3>2 DEF PollSeesDead, PollRaises, Spawns
    <3>3. CASE Kill(c)
      <4>1. CASE live' = live \ {<<v, process[v]>>}
        BY <1>e, <2>1, <2>4, <3>1, <4>1
      <4>2. CASE live' = live
        BY <1>b, <2>1, <2>4, <3>1, <4>2 DEF Spawns
      <4> QED
        BY <3>3, <4>1, <4>2 DEF Kill
    <3> QED
      BY <1>7, <3>2, <3>3 DEF Stops
  <2>6. CASE c # Cleanup
    <3>1. c \in Request /\ \A q \in Request \ {c} : caller'[q] = caller[q]
      BY <2>2, <2>6 DEF Caller
    <3>2. CASE PollRaises(c)
      <4>1. caller'[c].at = "raised" /\ live' = live
        BY <1>a, <3>2 DEF PollRaises, Goes, TypeOK
      <4>2. Asked' = Asked /\ Waiting' = Waiting \ {<<c, v>>} /\ <<c, v>> \in Waiting
        <5>1. <<c, v>> \in Waiting
          BY <2>1, <3>1 DEF Waiting
        <5> QED
          BY <1>a, <2>1, <3>1, <4>1, <5>1, WaitingKept
      <4>3. Spawns' = Spawns
        BY <4>1 DEF Spawns
      <4> QED
        BY <1>d, <2>1, <2>4, <3>1, <4>2, <4>3
    <3>3. CASE PollSeesDead(c) \/ Kill(c)
      <4>1. caller'[c].at = "stopped"
        BY <1>a, <2>6, <3>3 DEF PollSeesDead, Kill, Goes, After, TypeOK
      <4>2. Asked' = Asked /\ Waiting' = Waiting
        BY <1>a, <2>1, <2>2, <3>1, <4>1, WaitingKept
      <4>3. CASE live' = live \ {<<v, process[v]>>}
        BY <1>e, <2>1, <2>4, <4>2, <4>3
      <4>4. CASE live' = live
        BY <1>b, <2>1, <2>4, <4>2, <4>4 DEF Spawns
      <4> QED
        BY <3>3, <4>3, <4>4 DEF PollSeesDead, Kill
    <3> QED
      BY <1>7, <3>2, <3>3 DEF Stops
  <2> QED
    BY <2>5, <2>6
<1>8. CASE CleansUp
  <2>1. /\ caller[Cleanup].at \in {"next", "polling"} /\ UNCHANGED <<restart_count, spawned, live>>
        /\ phase' \in {phase, "down"}
    BY <1>8 DEF CleansUp, AllStopped, CleanupTimesOut, StopNext, vassalVars
  <2>2. phase \in {"cleanup", "down"}
    BY <1>a, <2>1 DEF Cleaning
  <2>3. \A d \in Caller \ {Cleanup} : caller'[d] = caller[d]
    <3>1. ASSUME NEW v \in Vassal, StopNext(v) PROVE \A d \in Caller \ {Cleanup} : caller'[d] = caller[d]
      BY <1>a, <3>1, StopFacts DEF StopNext, Caller
    <3>2. CASE AllStopped \/ CleanupTimesOut
      BY <1>a, <3>2 DEF AllStopped, CleanupTimesOut, Goes, TypeOK
    <3> QED
      BY <1>8, <3>1, <3>2 DEF CleansUp
  <2>4. Asked' = Asked /\ Waiting' = Waiting
    BY <1>a, <2>3, RequestsSame DEF Caller
  <2> QED
    BY <1>b, <2>1, <2>2, <2>4 DEF Spawns, Credit, Open
<1>9. CASE Shutdown
  <2>1. /\ phase = "up" /\ phase' = "cleanup" /\ UNCHANGED <<restart_count, spawned, live>>
        /\ \A r \in Request : caller'[r] = caller[r]
    BY <1>9, <1>a DEF Shutdown, Goes, TypeOK, vassalVars, Caller
  <2>2. /\ Asked' = Asked /\ Waiting' = Waiting /\ Spawns' = Spawns /\ spawned' = spawned
        /\ Credits' = Credits /\ Open' = FALSE
    BY <2>1, RequestsSame DEF Spawns, Credit, Open
  <2>3. Pool!Close
    BY <2>2 DEF Pool!Close, Spawns, Credit, Asked, Waiting, Open
  <2> QED
    BY <2>3 DEF Pool!Next
<1>10. ASSUME NEW p \in live, Dies(p) PROVE Pool!Next \/ UNCHANGED Pool!poolVars
  <2>1. live' = live \ {p} /\ UNCHANGED <<restart_count, spawned, caller, phase, todo>>
    BY <1>10 DEF Dies, vassalVars
  <2>2. Credits' = Credits /\ Open' = Open /\ Asked' = Asked /\ Waiting' = Waiting
    BY <2>1, RequestsSame DEF Credit, Open
  <2> QED
    BY <1>e, <2>1, <2>2
<1>11. CASE UNCHANGED vars
  BY <1>b, <1>11, RequestsSame DEF vars, vassalVars, Spawns, Credit, Open
<1> QED
  BY <1>1, <1>2, <1>3, <1>4, <1>5, <1>6, <1>7, <1>8, <1>9, <1>10, <1>11 DEF Next, Monitors

\* The supervisor implements the pool, for any vassals, requests and limits:
\* one process of a vassal at a time, none unasked once it shuts down or has
\* no restart left, and one at most for a request.
THEOREM Refinement == Spec => ImplementsPool
<1>1. Init => Pool!Init
  BY SupervisorAssumption DEF Init, Pool!Init, Caller
<1>2. IInv /\ [Next]_vars => [Pool!Next]_(Pool!poolVars)
  BY PoolStep
<1> QED
  BY <1>1, <1>2, Invariance, PTL DEF Spec, ImplementsPool, Pool!Spec

=============================================================================
