---------------------------- MODULE MCTaskQueue ----------------------------
(***************************************************************************)
(* Small instances of TaskQueue.  Safety: two daemons that handle the same *)
(* type, so that every claim contends.  Liveness: one daemon, and a more   *)
(* urgent type that nobody handles.                                        *)
(***************************************************************************)
EXTENDS TaskQueue, TLC

CONSTANTS a1, a2, shared, orphan

\* Safety.
MCAgent    == {a1, a2}
MCHandles  == (a1 :> {shared} @@ a2 :> {shared})
MCPriority == (shared :> 5)

\* Liveness.
MCHandlesL  == (a1 :> {shared})
MCPriorityL == (shared :> 5 @@ orphan :> 1)
=============================================================================
