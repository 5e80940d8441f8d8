------------------------------ MODULE TaskQueue ------------------------------
(***************************************************************************)
(* The Postgres table task_queue and the daemons that poll it.             *)
(*                                                                         *)
(* Producers insert rows (shared/db.py insert_task); every daemon derived  *)
(* from AgentBase (shared/agent_base.py: Titan, ClawdBot, Perseus) polls a *)
(* window of runnable rows, claims them one by one, runs the handler of    *)
(* the row's type and writes the outcome back.  Every statement below is a *)
(* transaction of its own, so each is one action; daemons, producers,      *)
(* crashes, restarts and database errors interleave between them.          *)
(***************************************************************************)
EXTENDS Naturals, FiniteSets

CONSTANTS
  Agent,       \* names of the daemons, one live process per name
  TaskType,    \* task_queue.task_type
  Handles,     \* [Agent -> SUBSET TaskType]: each daemon's TASK_HANDLERS
  Requeues,    \* the daemons whose start() requeues (Perseus' does not)
  Priority,    \* [TaskType -> Nat]: smaller is served first
  Producer,    \* callers of insert_task(..., dedupe=True)
  NoAgent,     \* SQL NULL in assigned_agent
  NoType,      \* a producer that is between two calls, an id not yet used
  RetryLimit,  \* the literal 3 of claim_task, get_pending_tasks, fail_task
  BatchLimit,  \* the LIMIT 50 of get_pending_tasks
  MaxTask,     \* bound: rows ever inserted
  MaxCrash,    \* bound: daemon crashes
  MaxStop,     \* bound: graceful shutdown requests
  MaxDbError   \* bound: write-backs that raise

ASSUME ConstantsAssumption ==
  /\ Handles \in [Agent -> SUBSET TaskType]
  /\ Requeues \subseteq Agent
  /\ Priority \in [TaskType -> Nat]
  /\ NoAgent \notin Agent
  /\ NoType \notin TaskType
  /\ RetryLimit \in Nat \ {0}
  /\ BatchLimit \in Nat /\ MaxTask \in Nat
  /\ MaxCrash \in Nat /\ MaxStop \in Nat /\ MaxDbError \in Nat

VARIABLES
  \* the table, one component per column
  status, retry, owner, ttype, nextId,
  \* producers: the type whose absence insert_task has just observed
  checked,
  \* daemons: control point, rows left of the polled window, row in hand,
  \* and the _shutdown_requested flag
  pc, batch, cur, stopping,
  \* ids for which the dead-letter alert was emitted
  alerted,
  \* history: handler runs and requeues per row, rows nobody will write back
  \* (the write-back was lost, or a restart did not requeue them), daemons
  \* that died without a graceful stop, and fault counters
  runs, requeued, stranded, crashed, crashes, stops, dbErrors

tableVars  == <<status, retry, owner, ttype, nextId>>
agentVars  == <<pc, batch, cur, stopping>>
faultVars  == <<crashed, crashes, stops, dbErrors>>
countVars  == <<runs, requeued>>
vars == <<tableVars, checked, agentVars, alerted, countVars, stranded, faultVars>>

Id     == 1 .. MaxTask
NoTask == 0

Status == {"absent", "pending", "running", "completed", "failed",
           "dead_letter", "deleted"}

\* "handling": the handler runs;  "returned", "raised": it ended and the
\* outcome is not yet written;  "alerting": dead_letter is written, the
\* alert is not yet emitted.
Control == {"down", "idle", "loop", "handling", "returned", "raised", "alerting"}
Holding == {"handling", "returned", "raised", "alerting"}

(***************************************************************************)
(* Reading the table                                                       *)
(***************************************************************************)

\* A wrong WHERE clause: no retry of a failed row.
RunnableOnce(t) == status[t] = "pending"

\* The WHERE clause shared by get_pending_tasks and claim_task.
Runnable(t) ==
  \/ status[t] = "pending"
  \/ status[t] = "failed" /\ retry[t] < RetryLimit

\* ORDER BY priority ASC, created_at ASC.
Before(t, u) ==
  \/ Priority[ttype[t]] < Priority[ttype[u]]
  \/ Priority[ttype[t]] = Priority[ttype[u]] /\ t < u

\* The first BatchLimit runnable rows of every type: the LIMIT applies before
\* the daemon looks at which types it handles.
Window ==
  LET runnable == {t \in Id : Runnable(t)}
  IN  {t \in runnable :
         Cardinality({u \in runnable : Before(u, t)}) < BatchLimit}

LiveOfType(ty) ==
  {t \in Id : status[t] \in {"pending", "running"} /\ ttype[t] = ty}

First(a) == {t \in batch[a] : \A u \in batch[a] \ {t} : Before(t, u)}

-----------------------------------------------------------------------------
Init ==
  /\ status = [t \in Id |-> "absent"]
  /\ retry = [t \in Id |-> 0]
  /\ owner = [t \in Id |-> NoAgent]
  /\ ttype = [t \in Id |-> NoType]
  /\ nextId = 1
  /\ checked = [p \in Producer |-> NoType]
  /\ pc = [a \in Agent |-> "down"]
  /\ batch = [a \in Agent |-> {}]
  /\ cur = [a \in Agent |-> NoTask]
  /\ stopping = {}
  /\ alerted = {}
  /\ runs = [t \in Id |-> 0]
  /\ requeued = [t \in Id |-> 0]
  /\ stranded = {}
  /\ crashed = {}
  /\ crashes = 0 /\ stops = 0 /\ dbErrors = 0

(***************************************************************************)
(* Producers                                                               *)
(***************************************************************************)

\* INSERT INTO task_queue ... RETURNING id, with a SERIAL id.
InsertRow(ty) ==
  /\ nextId \in Id
  /\ status' = [status EXCEPT ![nextId] = "pending"]
  /\ ttype' = [ttype EXCEPT ![nextId] = ty]
  /\ nextId' = nextId + 1
  /\ UNCHANGED <<retry, owner>>

\* dedupe=True, first statement: the SELECT found no pending or running row.
DedupeCheck(p, ty) ==
  /\ checked[p] = NoType
  /\ nextId \in Id
  /\ LiveOfType(ty) = {}
  /\ checked' = [checked EXCEPT ![p] = ty]
  /\ UNCHANGED <<tableVars, agentVars, alerted, countVars, stranded, faultVars>>

\* dedupe=True, second statement: the INSERT, in a transaction of its own.
DedupeInsert(p) ==
  /\ checked[p] # NoType
  /\ InsertRow(checked[p])
  /\ checked' = [checked EXCEPT ![p] = NoType]
  /\ UNCHANGED <<agentVars, alerted, countVars, stranded, faultVars>>

\* dedupe=False: requests between daemons.
DirectInsert(ty) ==
  /\ InsertRow(ty)
  /\ UNCHANGED <<checked, agentVars, alerted, countVars, stranded, faultVars>>

(***************************************************************************)
(* Daemons: start, poll, claim, handle, write back                         *)
(***************************************************************************)

\* Three wrong WHERE clauses of requeue_stale_tasks: it matches nothing, the
\* rows of every daemon, rows of any status.
StaleRowsNone(a) == {}
StaleRowsOfAll(a) == {t \in Id : status[t] = "running"}
StaleRowsAnyStatus(a) == {t \in Id : status[t] # "absent" /\ owner[t] = a}

\* Rows an earlier process of this name left running, and those of them that
\* start() releases.
LeftRunning(a) == {t \in Id : status[t] = "running" /\ owner[t] = a}
StaleRows(a)   == {t \in LeftRunning(a) : a \in Requeues}

\* start(): requeue_stale_tasks (Titan, ClawdBot), then register; retry_count
\* is not touched.  Perseus' start() leaves its rows as they are.
Start(a) ==
  /\ pc[a] = "down"
  /\ LET stale == StaleRows(a) IN
       /\ status' = [t \in Id |-> IF t \in stale THEN "pending" ELSE status[t]]
       /\ owner' = [t \in Id |-> IF t \in stale THEN NoAgent ELSE owner[t]]
       /\ requeued' = [t \in Id |-> IF t \in stale THEN requeued[t] + 1
                                                   ELSE requeued[t]]
       /\ stranded' = IF a \in Requeues THEN stranded \ stale
                                          ELSE stranded \cup LeftRunning(a)
  /\ pc' = [pc EXCEPT ![a] = "idle"]
  /\ crashed' = crashed \ {a}
  /\ UNCHANGED <<retry, ttype, nextId, checked, batch, cur, stopping, alerted,
                 runs, crashes, stops, dbErrors>>

\* get_pending_tasks; rows without a handler here are skipped by the loop.
Poll(a) ==
  /\ pc[a] = "idle" /\ a \notin stopping
  /\ LET mine == {t \in Window : ttype[t] \in Handles[a]} IN
       /\ batch' = [batch EXCEPT ![a] = mine]
       /\ pc' = [pc EXCEPT ![a] = IF mine = {} THEN "idle" ELSE "loop"]
  /\ UNCHANGED <<tableVars, checked, cur, stopping, alerted, countVars,
                 stranded, faultVars>>

\* claim_task on the next row of the window: one conditional UPDATE.
Claim(a, t) ==
  /\ pc[a] = "loop" /\ a \notin stopping
  /\ t \in First(a)
  /\ Runnable(t)
  /\ status' = [status EXCEPT ![t] = "running"]
  /\ owner' = [owner EXCEPT ![t] = a]
  /\ runs' = [runs EXCEPT ![t] = @ + 1]
  /\ cur' = [cur EXCEPT ![a] = t]
  /\ pc' = [pc EXCEPT ![a] = "handling"]
  /\ batch' = [batch EXCEPT ![a] = @ \ {t}]
  /\ UNCHANGED <<retry, ttype, nextId, checked, stopping, alerted, requeued,
                 stranded, faultVars>>

\* The UPDATE matched no row: another daemon got it, or it is gone.
ClaimMissed(a, t) ==
  /\ pc[a] = "loop" /\ a \notin stopping
  /\ t \in First(a)
  /\ ~Runnable(t)
  /\ batch' = [batch EXCEPT ![a] = @ \ {t}]
  /\ UNCHANGED <<tableVars, checked, pc, cur, stopping, alerted, countVars,
                 stranded, faultVars>>

HandlerEnds(a, outcome) ==
  /\ pc[a] = "handling"
  /\ pc' = [pc EXCEPT ![a] = outcome]
  /\ UNCHANGED <<tableVars, checked, batch, cur, stopping, alerted, countVars,
                 stranded, faultVars>>

\* complete_task: an UPDATE by id, whatever the row's status is.
Complete(a) ==
  /\ pc[a] = "returned"
  /\ status' = [status EXCEPT ![cur[a]] = "completed"]
  /\ owner' = [owner EXCEPT ![cur[a]] = a]
  /\ pc' = [pc EXCEPT ![a] = "loop"]
  /\ cur' = [cur EXCEPT ![a] = NoTask]
  /\ UNCHANGED <<retry, ttype, nextId, checked, batch, stopping, alerted,
                 countVars, stranded, faultVars>>

\* complete_task (or the task_result event before it) raises: the except
\* clause treats the finished handler as a failed one.
CompleteRaises(a) ==
  /\ pc[a] = "returned"
  /\ dbErrors < MaxDbError
  /\ dbErrors' = dbErrors + 1
  /\ pc' = [pc EXCEPT ![a] = "raised"]
  /\ UNCHANGED <<tableVars, checked, batch, cur, stopping, alerted, countVars,
                 stranded, crashed, crashes, stops>>

\* Two wrong versions: the failure is not counted; a burial is not announced.
FailUncounted(a) ==
  /\ pc[a] = "raised"
  /\ status' = [status EXCEPT ![cur[a]] = "failed"]
  /\ owner' = [owner EXCEPT ![cur[a]] = a]
  /\ pc' = [pc EXCEPT ![a] = "loop"]
  /\ cur' = [cur EXCEPT ![a] = NoTask]
  /\ UNCHANGED <<retry, ttype, nextId, checked, batch, stopping, alerted,
                 countVars, stranded, faultVars>>

FailSilently(a) ==
  /\ pc[a] = "raised"
  /\ retry' = [retry EXCEPT ![cur[a]] = @ + 1]
  /\ status' = [status EXCEPT ![cur[a]] =
                  IF retry'[cur[a]] >= RetryLimit THEN "dead_letter" ELSE "failed"]
  /\ owner' = [owner EXCEPT ![cur[a]] = a]
  /\ pc' = [pc EXCEPT ![a] = "loop"]
  /\ cur' = [cur EXCEPT ![a] = NoTask]
  /\ UNCHANGED <<ttype, nextId, checked, batch, stopping, alerted, countVars,
                 stranded, faultVars>>

\* fail_task: one UPDATE that counts the failure and picks the next status.
Fail(a) ==
  LET t      == cur[a]
      buried == retry[t] + 1 >= RetryLimit
  IN
  /\ pc[a] = "raised"
  /\ retry' = [retry EXCEPT ![t] = @ + 1]
  /\ status' = [status EXCEPT ![t] = IF buried THEN "dead_letter" ELSE "failed"]
  /\ owner' = [owner EXCEPT ![t] = a]
  /\ pc' = [pc EXCEPT ![a] = IF buried THEN "alerting" ELSE "loop"]
  /\ cur' = [cur EXCEPT ![a] = IF buried THEN t ELSE NoTask]
  /\ UNCHANGED <<ttype, nextId, checked, batch, stopping, alerted, countVars,
                 stranded, faultVars>>

\* fail_task's UPDATE raises: the exception leaves the loop over the window
\* and the row stays "running" although nobody works on it.
FailRaises(a) ==
  /\ pc[a] = "raised"
  /\ dbErrors < MaxDbError
  /\ dbErrors' = dbErrors + 1
  /\ stranded' = stranded \cup {cur[a]}
  /\ pc' = [pc EXCEPT ![a] = "idle"]
  /\ batch' = [batch EXCEPT ![a] = {}]
  /\ cur' = [cur EXCEPT ![a] = NoTask]
  /\ UNCHANGED <<tableVars, checked, stopping, alerted, countVars, crashed,
                 crashes, stops>>

\* A wrong version: finish_work is forgotten.
AlertKeepsTask(a) ==
  /\ pc[a] = "alerting"
  /\ alerted' = alerted \cup {cur[a]}
  /\ pc' = [pc EXCEPT ![a] = "loop"]
  /\ UNCHANGED <<tableVars, checked, batch, cur, stopping, countVars, stranded,
                 faultVars>>

\* fail_task's second statement: the urgent_alert event for a dead letter.
Alert(a) ==
  /\ pc[a] = "alerting"
  /\ alerted' = alerted \cup {cur[a]}
  /\ pc' = [pc EXCEPT ![a] = "loop"]
  /\ cur' = [cur EXCEPT ![a] = NoTask]
  /\ UNCHANGED <<tableVars, checked, batch, stopping, countVars, stranded,
                 faultVars>>

AlertRaises(a) ==
  /\ pc[a] = "alerting"
  /\ dbErrors < MaxDbError
  /\ dbErrors' = dbErrors + 1
  /\ pc' = [pc EXCEPT ![a] = "idle"]
  /\ batch' = [batch EXCEPT ![a] = {}]
  /\ cur' = [cur EXCEPT ![a] = NoTask]
  /\ UNCHANGED <<tableVars, checked, stopping, alerted, countVars, stranded,
                 crashed, crashes, stops>>

\* The loop over the window ends, or breaks on _shutdown_requested.
EndBatch(a) ==
  /\ pc[a] = "loop"
  /\ batch[a] = {} \/ a \in stopping
  /\ pc' = [pc EXCEPT ![a] = "idle"]
  /\ batch' = [batch EXCEPT ![a] = {}]
  /\ UNCHANGED <<tableVars, checked, cur, stopping, alerted, countVars,
                 stranded, faultVars>>

(***************************************************************************)
(* Daemons: shutdown and crash                                             *)
(***************************************************************************)

\* SIGTERM: request_shutdown sets the flag; work in hand goes on.
RequestShutdown(a) ==
  /\ pc[a] # "down" /\ a \notin stopping
  /\ stops < MaxStop
  /\ stops' = stops + 1
  /\ stopping' = stopping \cup {a}
  /\ UNCHANGED <<tableVars, checked, pc, batch, cur, alerted, countVars,
                 stranded, crashed, crashes, dbErrors>>

\* The main loop sees _running = False and finalize_shutdown runs.
Exit(a) ==
  /\ pc[a] = "idle" /\ a \in stopping
  /\ pc' = [pc EXCEPT ![a] = "down"]
  /\ stopping' = stopping \ {a}
  /\ UNCHANGED <<tableVars, checked, batch, cur, alerted, countVars, stranded,
                 faultVars>>

\* The process dies anywhere: a crash, or SIGKILL after a drain that took
\* longer than the supervisor waits.
Crash(a) ==
  /\ pc[a] # "down"
  /\ crashes < MaxCrash
  /\ crashes' = crashes + 1
  /\ crashed' = crashed \cup {a}
  /\ pc' = [pc EXCEPT ![a] = "down"]
  /\ batch' = [batch EXCEPT ![a] = {}]
  /\ cur' = [cur EXCEPT ![a] = NoTask]
  /\ stopping' = stopping \ {a}
  /\ UNCHANGED <<tableVars, checked, alerted, countVars, stranded, stops, dbErrors>>

\* A wrong version: rows that were never tried are deleted, too.
PruneUntried(t) ==
  /\ status[t] \in {"pending", "completed", "failed"}
  /\ status' = [status EXCEPT ![t] = "deleted"]
  /\ UNCHANGED <<retry, owner, ttype, nextId, checked, agentVars, alerted,
                 countVars, stranded, faultVars>>

\* Perseus deletes completed and failed rows a day after completed_at.
Prune(t) ==
  /\ status[t] \in {"completed", "failed"}
  /\ status' = [status EXCEPT ![t] = "deleted"]
  /\ UNCHANGED <<retry, owner, ttype, nextId, checked, agentVars, alerted,
                 countVars, stranded, faultVars>>

-----------------------------------------------------------------------------
\* What a live daemon does of its own accord.
AgentStep(a) ==
  \/ Poll(a)
  \/ \E t \in Id : Claim(a, t) \/ ClaimMissed(a, t)
  \/ \E outcome \in {"returned", "raised"} : HandlerEnds(a, outcome)
  \/ Complete(a) \/ Fail(a) \/ Alert(a) \/ EndBatch(a) \/ Exit(a)

Fault(a) ==
  \/ Crash(a) \/ RequestShutdown(a)
  \/ CompleteRaises(a) \/ FailRaises(a) \/ AlertRaises(a)

Produce ==
  \/ \E p \in Producer : DedupeInsert(p) \/ \E ty \in TaskType : DedupeCheck(p, ty)
  \/ \E ty \in TaskType : DirectInsert(ty)

Next ==
  \/ Produce
  \/ \E a \in Agent : Start(a) \/ AgentStep(a) \/ Fault(a)
  \/ \E t \in Id : Prune(t)

Spec == Init /\ [][Next]_vars

\* A daemon's event loop keeps running, handlers end, and the supervisor
\* starts a daemon that is down.  Producers, faults and pruning are not fair.
Fairness == \A a \in Agent : WF_vars(Start(a)) /\ WF_vars(AgentStep(a))

FairSpec == Spec /\ Fairness

-----------------------------------------------------------------------------
(***************************************************************************)
(* Properties                                                              *)
(***************************************************************************)

\* Every column and control point is in range, and a daemon has a row in hand
\* exactly while it handles one or writes its outcome back (begin_work and
\* finish_work bracket the handler and its write-back).
TypeOK ==
  /\ status \in [Id -> Status]
  /\ retry \in [Id -> 0 .. RetryLimit]
  /\ owner \in [Id -> Agent \cup {NoAgent}]
  /\ ttype \in [Id -> TaskType \cup {NoType}]
  /\ nextId \in 1 .. MaxTask + 1
  /\ checked \in [Producer -> TaskType \cup {NoType}]
  /\ pc \in [Agent -> Control]
  /\ batch \in [Agent -> SUBSET Id]
  /\ cur \in [Agent -> Id \cup {NoTask}]
  /\ stopping \subseteq Agent
  /\ alerted \subseteq Id
  /\ runs \in [Id -> Nat] /\ requeued \in [Id -> Nat]
  /\ stranded \subseteq Id
  /\ crashed \subseteq Agent
  /\ crashes \in 0 .. MaxCrash /\ stops \in 0 .. MaxStop
  /\ dbErrors \in 0 .. MaxDbError
  /\ \A a \in Agent : cur[a] # NoTask <=> pc[a] \in Holding

\* No task is in the hands of two daemons at once: claim_task's conditional
\* UPDATE and a requeue limited to the daemon's own rows exclude it even
\* across crashes, restarts, lost write-backs and pruning.
ExclusiveExecution ==
  \A a, b \in Agent : cur[a] = cur[b] /\ cur[a] # NoTask => a = b

\* A "running" row is being worked on by the daemon it names, unless that
\* daemon crashed and has not come back, its restart did not requeue, or the
\* row's write-back was lost: in particular a graceful stop leaves no running
\* row behind, and neither does a crash and restart of a requeueing daemon.
RunningIsHeld ==
  \A t \in Id : status[t] = "running" =>
    \/ owner[t] \in Agent /\ cur[owner[t]] = t
    \/ owner[t] \in crashed
    \/ t \in stranded

\* A handler runs at most RetryLimit times, plus once for every time a
\* restart requeued the row: fail_task bounds the retries, and only
\* requeue_stale_tasks (which leaves retry_count alone) adds to them.
ExecutionBudget == \A t \in Id : runs[t] <= RetryLimit + requeued[t]

\* A dead letter is announced to the operator or is about to be, unless a
\* crash or a database error hit the two statements of fail_task.
DeadLetterAlerted ==
  crashes = 0 /\ dbErrors = 0 =>
    \A t \in Id : status[t] = "dead_letter" =>
      \/ t \in alerted
      \/ \E a \in Agent : pc[a] = "alerting" /\ cur[a] = t

\* Finished rows stay finished: no late complete_task, fail_task, claim or
\* requeue revives a completed or dead-lettered row (only pruning removes it).
FinishedIsFinal ==
  [][\A t \in Id :
       /\ status[t] = "completed" => status'[t] \in {"completed", "deleted"}
       /\ status[t] = "dead_letter" => status'[t] = "dead_letter"]_vars

\* Rows whose type no daemon handles are polled for ever and never claimed.
Unhandled ==
  {t \in Id : Runnable(t) /\ \A a \in Agent : ttype[t] \notin Handles[a]}

Settled(t) == status[t] \in {"completed", "dead_letter", "deleted"}

\* Every handled row is eventually completed, dead-lettered or pruned, unless
\* nobody is left to write it back or unhandled rows fill the polled window.
NoStarvation ==
  \A t \in Id :
    (Runnable(t) /\ \E a \in Agent : ttype[t] \in Handles[a])
      ~> (Settled(t) \/ t \in stranded \/ Cardinality(Unhandled) >= BatchLimit)

-----------------------------------------------------------------------------
(***************************************************************************)
(* The queue implements the abstract lease queue                           *)
(***************************************************************************)

PhaseOf(s) ==
  CASE s = "absent"              -> "none"
    [] s \in {"pending", "failed"} -> "open"
    [] s = "running"             -> "leased"
    [] s = "completed"           -> "done"
    [] s = "dead_letter"         -> "dead"
    [] OTHER                     -> "gone"

PhaseBar  == [t \in Id |-> PhaseOf(status[t])]
HolderBar == [t \in Id |-> IF status[t] = "running" THEN owner[t] ELSE NoAgent]

Lease == INSTANCE LeaseQueue WITH
  Job <- Id, Worker <- Agent, Nobody <- NoAgent, Attempts <- RetryLimit,
  phase <- PhaseBar, holder <- HolderBar, failures <- retry

\* The table, under every interleaving of daemons, producers, crashes and
\* lost write-backs, behaves like a queue of leases: the unconditional
\* UPDATEs of complete_task and fail_task only ever end the caller's lease.
ImplementsLease == Lease!LeaseSpec
=============================================================================
