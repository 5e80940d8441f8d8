----------------------------- MODULE A2AServer ------------------------------
(***************************************************************************)
(* The A2A server every daemon runs (create_a2a_app): its dict of tasks.   *)
(*                                                                         *)
(* tasks/send makes a task and awaits the daemon's handler; while it runs, *)
(* other requests are served.  The dict is pruned to its limit when a      *)
(* handler has ended, in the order of the random ids: any task may go,     *)
(* one whose handler runs as well.                                         *)
(***************************************************************************)
EXTENDS FiniteSets, Naturals

CONSTANTS
  Task,       \* ids of tasks
  TaskLimit   \* the literal 100 of _handle_send

VARIABLES
  state,      \* task["state"]; "none" before tasks/send
  tasks,      \* ids in the dict
  handling    \* tasks whose handler runs

serverVars == <<state, tasks, handling>>

ServerInit == state = [t \in Task |-> "none"] /\ tasks = {} /\ handling = {}

\* What pruning may leave of the dict.
Pruned(ids) ==
  IF Cardinality(ids) > TaskLimit THEN {T \in SUBSET ids : Cardinality(T) = TaskLimit}
  ELSE {ids}

handle_send(t) ==
  /\ state[t] = "none"
  /\ state' = [state EXCEPT ![t] = "working"]
  /\ tasks' = tasks \cup {t}
  /\ handling' = handling \cup {t}

\* The injection scanner blocks the request: no handler runs and nothing is
\* pruned.
Blocked(t) ==
  /\ state[t] = "none"
  /\ state' = [state EXCEPT ![t] = "failed"]
  /\ tasks' = tasks \cup {t}
  /\ UNCHANGED handling

\* A wrong version: the dict is not pruned.
HandlerEndsUnpruned(t, outcome) ==
  /\ t \in handling
  /\ handling' = handling \ {t}
  /\ state' = [state EXCEPT ![t] = outcome]
  /\ UNCHANGED tasks

\* The outcome is written over whatever became of the task meanwhile, a
\* cancellation included.
HandlerEnds(t, outcome) ==
  /\ t \in handling
  /\ handling' = handling \ {t}
  /\ state' = [state EXCEPT ![t] = outcome]
  /\ tasks' \in Pruned(tasks)

\* A task that has ended is canceled too; a handler that runs is not told.
handle_cancel(t) ==
  /\ t \in tasks
  /\ state' = [state EXCEPT ![t] = "canceled"]
  /\ UNCHANGED <<tasks, handling>>

\* The process is started again with an empty dict; its handlers are gone.
ServerRestarts ==
  /\ tasks' = {} /\ handling' = {}
  /\ UNCHANGED state

=============================================================================
