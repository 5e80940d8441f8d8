----------------------------- MODULE Supervisor -----------------------------
(***************************************************************************)
(* The orchestrator's vassal supervisor: it adopts or spawns the daemons,  *)
(* watches the processes it spawned, restarts those that die, restarts one *)
(* on request, and stops them all when the orchestrator shuts down.        *)
(*                                                                         *)
(* All of it runs on one event loop: an action is what a coroutine does    *)
(* between two awaits.  The processes die whenever they like.              *)
(***************************************************************************)
EXTENDS Naturals

CONSTANTS
  Vassal,
  None,
  Request,      \* vassal_restart calls; each is made at most once
  Cleanup,      \* the coroutine of _cleanup
  MaxRestarts,  \* max_restart_attempts
  MaxFault      \* bound: processes that die unasked, spawns that fail

ASSUME SupervisorAssumption ==
  /\ None \notin Vassal /\ Cleanup \notin Request
  /\ MaxRestarts \in Nat /\ MaxFault \in Nat

VARIABLES
  status, process, restart_count,  \* VassalProcess; process 0 is None
  spawned,   \* how many processes were spawned for a vassal, numbered from 1
  live,      \* the processes that run: <<vassal, number>>, 0 the adopted one
  monitor,   \* _monitor_loop
  caller,    \* the coroutines that call stop
  phase,     \* of the orchestrator
  todo,      \* the vassals that boot, or stop_all, has still to come to
  faults,
  \* history
  asked,     \* how many restarts of a vassal were asked for
  late,      \* vassals that a request started after the shutdown had begun
  failed     \* vassals whose spawn failed

vassalVars  == <<status, process, restart_count>>
historyVars == <<asked, late, failed>>
vars == <<vassalVars, spawned, live, monitor, caller, phase, todo, faults, historyVars>>

Caller == Request \cup {Cleanup}

\* Where a caller is: in stop's polling loop, in restart's sleep between stop
\* and start, between two vassals of stop_all, or at its end.
Points == {"idle", "next", "polling", "stopped", "done", "raised", "timed_out"}

Init ==
  /\ status = [v \in Vassal |-> "stopped"]
  /\ process = [v \in Vassal |-> 0]
  /\ restart_count = [v \in Vassal |-> 0]
  /\ spawned = [v \in Vassal |-> 0]
  /\ live \in SUBSET (Vassal \X {0})
  /\ monitor = [at |-> "off", on |-> None]
  /\ caller = [c \in Caller |-> [at |-> "idle", on |-> None]]
  /\ phase = "boot" /\ todo = Vassal
  /\ faults = 0
  /\ asked = [v \in Vassal |-> 0] /\ late = {} /\ failed = {}

(***************************************************************************)
(* Building blocks                                                         *)
(***************************************************************************)

Held(v) == process[v] # 0
Runs(v) == Held(v) /\ <<v, process[v]>> \in live      \* poll() is None
Died(v) == Held(v) /\ <<v, process[v]>> \notin live

Forgets(v, s) == /\ process' = [process EXCEPT ![v] = 0]
                 /\ status' = [status EXCEPT ![v] = s]

\* start: nothing if the vassal runs, else Popen, which may raise.  It returns
\* without an await.
start(v) ==
  \/ /\ Runs(v)
     /\ UNCHANGED <<status, process, spawned, live, faults, failed>>
  \/ /\ ~Runs(v)
     /\ spawned' = [spawned EXCEPT ![v] = @ + 1]
     /\ process' = [process EXCEPT ![v] = spawned[v] + 1]
     /\ status' = [status EXCEPT ![v] = "running"]
     /\ live' = live \cup {<<v, spawned[v] + 1>>}
     /\ UNCHANGED <<faults, failed>>
  \/ /\ ~Runs(v)
     /\ faults < MaxFault /\ faults' = faults + 1
     /\ status' = [status EXCEPT ![v] = "crashed"]
     /\ failed' = failed \cup {v}
     /\ UNCHANGED <<process, spawned, live>>

Goes(c, at, v) == caller' = [caller EXCEPT ![c] = [at |-> at, on |-> v]]

\* What its caller does after stop returned.
After(c) == IF c = Cleanup THEN "next" ELSE "stopped"

\* stop, up to its first await.
stop(c, v) ==
  \/ /\ ~Held(v)
     /\ Goes(c, After(c), v)
     /\ UNCHANGED <<status, process>>
  \/ /\ Died(v)
     /\ Forgets(v, "stopped")
     /\ Goes(c, After(c), v)
  \/ /\ Runs(v)
     /\ status' = [status EXCEPT ![v] = "stopping"]
     /\ Goes(c, "polling", v)
     /\ UNCHANGED process

(***************************************************************************)
(* Boot                                                                    *)
(***************************************************************************)

\* A daemon that answers on its port is adopted: it gets no process.  One that
\* does not answer, or not within two seconds, is spawned.
probe_and_start(v) ==
  /\ phase = "boot" /\ v \in todo
  /\ todo' = todo \ {v}
  /\ \/ /\ <<v, 0>> \in live
        /\ status' = [status EXCEPT ![v] = "running"]
        /\ UNCHANGED <<process, spawned, live, faults, failed>>
     \/ start(v)
  /\ UNCHANGED <<restart_count, monitor, caller, phase, asked, late>>

BootEnds ==
  /\ phase = "boot" /\ todo = {}
  /\ phase' = "up"
  /\ monitor' = [at |-> "watch", on |-> None]
  /\ UNCHANGED <<vassalVars, spawned, live, caller, todo, faults, historyVars>>

(***************************************************************************)
(* The monitor                                                             *)
(***************************************************************************)

\* A wrong version: a vassal out of restarts is merely left alone.
MonitorFindsDeadForgets(v) ==
  /\ monitor.at = "watch"
  /\ status[v] # "disabled" /\ Died(v)
  /\ Forgets(v, "crashed")
  /\ monitor' = IF restart_count[v] < MaxRestarts
                THEN [at |-> "backoff", on |-> v]
                ELSE monitor
  /\ UNCHANGED <<restart_count, spawned, live, caller, phase, todo, faults, historyVars>>

\* A sweep looks at every vassal; most of the time there is nothing to do.
MonitorFindsDead(v) ==
  /\ monitor.at = "watch"
  /\ status[v] # "disabled" /\ Died(v)
  /\ IF restart_count[v] < MaxRestarts
     THEN /\ Forgets(v, "crashed")
          /\ monitor' = [at |-> "backoff", on |-> v]
     ELSE Forgets(v, "disabled") /\ UNCHANGED monitor
  /\ UNCHANGED <<restart_count, spawned, live, caller, phase, todo, faults, historyVars>>

\* Every sleep before a start lasts a second or more, one before a poll half a
\* second: who polls a process that is gone wakes up before another one starts.
PollersSawIt(v) ==
  ~Held(v) => \A c \in Caller : ~(caller[c].at = "polling" /\ caller[c].on = v)

\* A wrong version: the restart is not counted.
RestartUncounted ==
  /\ monitor.at = "backoff" /\ PollersSawIt(monitor.on)
  /\ start(monitor.on)
  /\ monitor' = [at |-> "watch", on |-> None]
  /\ UNCHANGED <<restart_count, caller, phase, todo, asked, late>>

\* A wrong version: the loop ends with its first restart.
RestartOnce ==
  /\ monitor.at = "backoff" /\ PollersSawIt(monitor.on)
  /\ restart_count' = [restart_count EXCEPT ![monitor.on] = @ + 1]
  /\ start(monitor.on)
  /\ monitor' = [at |-> "off", on |-> None]
  /\ UNCHANGED <<caller, phase, todo, asked, late>>

\* The backoff is over; the vassal is not looked at again.
RestartCrashed ==
  /\ monitor.at = "backoff" /\ PollersSawIt(monitor.on)
  /\ restart_count' = [restart_count EXCEPT ![monitor.on] = @ + 1]
  /\ start(monitor.on)
  /\ monitor' = [at |-> "watch", on |-> None]
  /\ UNCHANGED <<caller, phase, todo, asked, late>>

(***************************************************************************)
(* vassal_restart over A2A, which is served after the shutdown too         *)
(***************************************************************************)

restart(r, v) ==
  /\ phase # "boot" /\ caller[r].at = "idle"
  /\ stop(r, v)
  /\ asked' = [asked EXCEPT ![v] = @ + 1]
  /\ UNCHANGED <<restart_count, spawned, live, monitor, phase, todo, faults, late, failed>>

RestartStarts(r) ==
  LET v == caller[r].on IN
    /\ caller[r].at = "stopped" /\ PollersSawIt(v)
    /\ start(v)
    /\ late' = IF phase = "up" THEN late ELSE late \cup {v}
    /\ Goes(r, "done", v)
    /\ UNCHANGED <<restart_count, monitor, phase, todo, asked>>

(***************************************************************************)
(* The rest of stop: a poll every half second, and kill after ten          *)
(***************************************************************************)

PollSeesDead(c) ==
  LET v == caller[c].on IN
    /\ caller[c].at = "polling" /\ Died(v)
    /\ Forgets(v, "stopped")
    /\ Goes(c, After(c), v)
    /\ UNCHANGED <<restart_count, spawned, live, monitor, phase, todo, faults, historyVars>>

\* Somebody else found the process dead and set it to None: AttributeError.
\* Out of stop_all it ends the cleanup.
PollRaises(c) ==
  LET v == caller[c].on IN
    /\ caller[c].at = "polling" /\ ~Held(v)
    /\ Goes(c, "raised", v)
    /\ phase' = IF c = Cleanup THEN "down" ELSE phase
    /\ UNCHANGED <<vassalVars, spawned, live, monitor, todo, faults, historyVars>>

\* A wrong version: the process is forgotten and not killed.
KillNothing(c) ==
  LET v == caller[c].on IN
    /\ caller[c].at = "polling"
    /\ Forgets(v, "stopped")
    /\ Goes(c, After(c), v)
    /\ UNCHANGED <<restart_count, spawned, live, monitor, phase, todo, faults, historyVars>>

\* kill raises on None, and the exception is passed over.
Kill(c) ==
  LET v == caller[c].on IN
    /\ caller[c].at = "polling"
    /\ live' = IF Held(v) THEN live \ {<<v, process[v]>>} ELSE live
    /\ Forgets(v, "stopped")
    /\ Goes(c, After(c), v)
    /\ UNCHANGED <<restart_count, spawned, monitor, phase, todo, faults, historyVars>>

(***************************************************************************)
(* Shutdown                                                                *)
(***************************************************************************)

\* A wrong version: the monitor is not cancelled.
ShutdownAlone ==
  /\ phase = "up"
  /\ phase' = "cleanup" /\ todo' = Vassal
  /\ Goes(Cleanup, "next", None)
  /\ UNCHANGED <<vassalVars, spawned, live, monitor, faults, historyVars>>

\* The loops have ended or one of them raised: _cleanup calls stop_all.
Shutdown ==
  /\ phase = "up"
  /\ phase' = "cleanup" /\ todo' = Vassal
  /\ monitor' = [at |-> "off", on |-> None]
  /\ Goes(Cleanup, "next", None)
  /\ UNCHANGED <<vassalVars, spawned, live, faults, historyVars>>

StopNext(v) ==
  /\ caller[Cleanup].at = "next" /\ v \in todo
  /\ todo' = todo \ {v}
  /\ stop(Cleanup, v)
  /\ UNCHANGED <<restart_count, spawned, live, monitor, phase, faults, historyVars>>

AllStopped ==
  /\ caller[Cleanup].at = "next" /\ todo = {}
  /\ phase' = "down"
  /\ Goes(Cleanup, "done", None)
  /\ UNCHANGED <<vassalVars, spawned, live, monitor, todo, faults, historyVars>>

\* wait_for(..., 15): a first vassal never takes that long.
CleanupTimesOut ==
  /\ caller[Cleanup].at = "polling"
  /\ todo # Vassal \ {caller[Cleanup].on}
  /\ phase' = "down"
  /\ Goes(Cleanup, "timed_out", None)
  /\ UNCHANGED <<vassalVars, spawned, live, monitor, todo, faults, historyVars>>

(***************************************************************************)
(* The processes                                                           *)
(***************************************************************************)

\* One that got SIGTERM ends of itself; any other one ends by a fault.
Dies(p) ==
  /\ p \in live
  /\ live' = live \ {p}
  /\ IF status[p[1]] = "stopping" /\ process[p[1]] = p[2]
     THEN UNCHANGED faults
     ELSE faults < MaxFault /\ faults' = faults + 1
  /\ UNCHANGED <<vassalVars, spawned, monitor, caller, phase, todo, historyVars>>

Monitors == RestartCrashed \/ \E v \in Vassal : MonitorFindsDead(v)

Stops(c) == PollSeesDead(c) \/ PollRaises(c) \/ Kill(c)

CleansUp == AllStopped \/ CleanupTimesOut \/ \E v \in Vassal : StopNext(v)

Next ==
  \/ BootEnds \/ Shutdown \/ Monitors \/ CleansUp
  \/ \E v \in Vassal : probe_and_start(v) \/ \E r \in Request : restart(r, v)
  \/ \E r \in Request : RestartStarts(r)
  \/ \E c \in Caller : Stops(c)
  \/ \E p \in live : Dies(p)

\* The event loop runs every coroutine whose sleep is over, and every sweep of
\* the monitor comes to every vassal.
Fairness ==
  /\ WF_vars(RestartCrashed) /\ \A v \in Vassal : WF_vars(MonitorFindsDead(v))
  /\ WF_vars(CleansUp)
  /\ \A r \in Request : WF_vars(RestartStarts(r))
  /\ \A c \in Caller : WF_vars(Stops(c))

Spec == Init /\ [][Next]_vars
FairSpec == Spec /\ Fairness

(***************************************************************************)
(* Properties                                                              *)
(***************************************************************************)

\* The records stay in range and the numbers name processes that were spawned.
TypeOK ==
  /\ status \in [Vassal -> {"stopped", "running", "stopping", "crashed", "disabled"}]
  /\ process \in [Vassal -> Nat]
  /\ restart_count \in [Vassal -> 0 .. MaxRestarts]
  /\ spawned \in [Vassal -> Nat]
  /\ live \subseteq Vassal \X Nat
  /\ monitor \in [at : {"off", "watch", "backoff"}, on : Vassal \cup {None}]
  /\ caller \in [Caller -> [at : Points, on : Vassal \cup {None}]]
  /\ phase \in {"boot", "up", "cleanup", "down"}
  /\ todo \subseteq Vassal
  /\ faults \in 0 .. MaxFault
  /\ asked \in [Vassal -> Nat] /\ late \subseteq Vassal /\ failed \subseteq Vassal
  /\ monitor.at = "backoff" => /\ monitor.on \in Vassal
                               /\ restart_count[monitor.on] < MaxRestarts
  /\ \A c \in Caller : caller[c].at \in {"polling", "stopped"} => caller[c].on \in Vassal
  /\ \A v \in Vassal : process[v] <= spawned[v]
  /\ \A p \in live : p[2] <= spawned[p[1]]

\* The supervisor loses no process it spawned: what runs is what it holds, so
\* that it can be watched and stopped, whoever restarts and stops at the same
\* time (supervisor.py:115, 186-195).
NoOrphans == \A p \in live : p[2] # 0 => process[p[1]] = p[2]

\* A vassal that crashes again and again is restarted max_restart_attempts
\* times, whatever else restarts it meanwhile (supervisor.py:229).
RestartsAreBounded == \A v \in Vassal : spawned[v] <= 1 + MaxRestarts + asked[v]

\* A vassal that was spawned and has no process has somebody about to start
\* it, even if the call that stopped it ended in an AttributeError, or it was
\* given up (supervisor.py:175, 238).
NoVassalForgotten ==
  \A v \in Vassal :
    phase = "up" /\ spawned[v] > 0 /\ ~Held(v)
      => \/ status[v] = "disabled" \/ v \in failed
         \/ monitor.at = "backoff" /\ monitor.on = v
         \/ \E r \in Request : caller[r].at = "stopped" /\ caller[r].on = v

\* After a shutdown that neither timed out nor raised no process is left that
\* the supervisor spawned, unless a restart came in late (orchestrator.py:684).
ShutdownStopsAll ==
  caller[Cleanup].at = "done" => \A p \in live : p[2] = 0 \/ p[1] \in late

\* A spawned vassal that does not run will run again, or is given up: disabled,
\* or its spawn failed.  An adopted one is not watched (orchestrator.py:324).
CrashedRunsAgain ==
  \A v \in Vassal :
    (phase = "up" /\ spawned[v] > 0 /\ ~Runs(v))
      ~> (Runs(v) \/ status[v] = "disabled" \/ v \in failed \/ phase # "up")

\* The spawned processes are a pool; an adopted one is not of it.
Pool == INSTANCE ProcessPool WITH
  Daemon <- Vassal, Credit <- 1 + MaxRestarts,
  running <- {p \in live : p[2] # 0}, started <- spawned,
  credit <- [v \in Vassal |-> (MaxRestarts - restart_count[v])
                              + (IF phase = "boot" /\ v \in todo THEN 1 ELSE 0)],
  asked <- {r \in Request : caller[r].at # "idle"},
  waiting <- {w \in Request \X Vassal : /\ caller[w[1]].at \in {"polling", "stopped"}
                                       /\ caller[w[1]].on = w[2]},
  open <- phase \in {"boot", "up"}

\* The supervisor keeps a pool, whatever the monitor, two restarts and the
\* cleanup found out before they slept: it never starts a vassal beside a
\* process of it that still runs (supervisor.py:115), never unasked once it
\* shuts down or has no restart left, and once at most for a request.
ImplementsPool == Pool!Spec

=============================================================================
