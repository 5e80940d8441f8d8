-------------------------- MODULE TaskQueueProofs --------------------------
(***************************************************************************)
(* Proofs about TaskQueue, for every set of daemons, task types and        *)
(* producers, every handler table and every value of the limits.           *)
(***************************************************************************)
EXTENDS TaskQueue, TLAPS

(***************************************************************************)
(* The inductive invariant                                                 *)
(***************************************************************************)

\* Ids are handed out in order; an id not yet used has no history.
FreshIds ==
  \A t \in Id :
    /\ status[t] = "absent" <=> t >= nextId
    /\ status[t] = "absent" => retry[t] = 0 /\ runs[t] = 0 /\ requeued[t] = 0

\* What a daemon has in hand is its own running row, or the dead letter it is
\* about to announce.  owner is a function, so this is what makes two daemons
\* with the same row impossible.
HeldIsOwned ==
  \A a \in Agent : cur[a] # NoTask =>
    /\ owner[cur[a]] = a
    /\ status[cur[a]] = IF pc[a] = "alerting" THEN "dead_letter" ELSE "running"

RunningIsOwned == \A t \in Id : status[t] = "running" => owner[t] \in Agent

CrashedIsDown == \A a \in crashed : pc[a] = "down"

\* Exactly the dead letters have used up their retries, and a failed row has
\* used at least one.
RetryBound ==
  \A t \in Id :
    /\ status[t] = "dead_letter" <=> retry[t] = RetryLimit
    /\ status[t] = "failed" => retry[t] > 0

\* Every run of a handler is accounted for: it failed, it was requeued, or it
\* is the one that is running or completed.
RunsAccounted ==
  \A t \in Id :
    /\ status[t] \notin {"running", "completed", "deleted"} =>
         runs[t] = retry[t] + requeued[t]
    /\ status[t] \in {"running", "completed"} =>
         runs[t] = retry[t] + requeued[t] + 1
    /\ status[t] = "deleted" => runs[t] <= retry[t] + requeued[t] + 1

IInv ==
  /\ TypeOK /\ FreshIds /\ HeldIsOwned /\ RunningIsOwned /\ RunningIsHeld
  /\ CrashedIsDown /\ RetryBound /\ RunsAccounted /\ DeadLetterAlerted

USE DEF Id, NoTask, Status, Control, Holding

(***************************************************************************)
(* What a daemon with a row in hand may rely on                            *)
(***************************************************************************)
LEMMA HeldFacts ==
  ASSUME IInv, NEW a \in Agent, pc[a] \in Holding
  PROVE  /\ cur[a] \in Id
         /\ owner[cur[a]] = a
         /\ status[cur[a]] = IF pc[a] = "alerting" THEN "dead_letter" ELSE "running"
         /\ \A b \in Agent : cur[b] = cur[a] => b = a
BY DEF IInv, TypeOK, HeldIsOwned

(***************************************************************************)
(* Every action preserves the inductive invariant                          *)
(***************************************************************************)
\* The SELECT of a deduplicating insert only reads the table.
LEMMA DedupeCheckStep ==
  ASSUME IInv, NEW p \in Producer, NEW ty \in TaskType, DedupeCheck(p, ty)
  PROVE  IInv'
<1> USE ConstantsAssumption DEF IInv, TypeOK, tableVars, agentVars, faultVars, countVars
<1> USE DEF DedupeCheck
<1>1. TypeOK'
  OBVIOUS
<1>2. (FreshIds /\ RunningIsOwned /\ RetryBound /\ RunsAccounted)'
  BY DEF FreshIds, RunningIsOwned, RetryBound, RunsAccounted
<1>3. HeldIsOwned'
  BY DEF HeldIsOwned
<1>4. (RunningIsHeld /\ CrashedIsDown)'
  BY DEF RunningIsHeld, CrashedIsDown
<1>5. DeadLetterAlerted'
  BY DEF DeadLetterAlerted
<1> QED
  BY <1>1, <1>2, <1>3, <1>4, <1>5

\* A deduplicated insert preserves the invariant: the id is fresh, so it has
\* no history and nobody holds it.
LEMMA DedupeInsertStep ==
  ASSUME IInv, NEW p \in Producer, DedupeInsert(p)
  PROVE  IInv'
<1> USE ConstantsAssumption DEF IInv, TypeOK, tableVars, agentVars, faultVars, countVars
<1> USE DEF DedupeInsert, InsertRow
<1>1. TypeOK'
  <2>1. status' \in [Id -> Status] /\ ttype' \in [Id -> TaskType \cup {NoType}]
    OBVIOUS
  <2>2. nextId' \in 1 .. MaxTask + 1
    OBVIOUS
  <2>3. checked' \in [Producer -> TaskType \cup {NoType}]
    OBVIOUS
  <2> QED
    BY <2>1, <2>2, <2>3
<1>2. FreshIds'
  BY DEF FreshIds
<1>3. HeldIsOwned'
  BY DEF HeldIsOwned, FreshIds
<1>4. RunningIsOwned'
  BY DEF RunningIsOwned
<1>5. RunningIsHeld'
  BY DEF RunningIsHeld
<1>6. CrashedIsDown'
  BY DEF CrashedIsDown
<1>7. RetryBound'
  BY DEF RetryBound, FreshIds
<1>8. RunsAccounted'
  BY DEF RunsAccounted, FreshIds
<1>9. DeadLetterAlerted'
  BY DEF DeadLetterAlerted
<1> QED
  BY <1>1, <1>2, <1>3, <1>4, <1>5, <1>6, <1>7, <1>8, <1>9

\* A plain insert preserves the invariant, for the same reason.
LEMMA DirectInsertStep ==
  ASSUME IInv, NEW ty \in TaskType, DirectInsert(ty)
  PROVE  IInv'
<1> USE ConstantsAssumption DEF IInv, TypeOK, tableVars, agentVars, faultVars, countVars
<1> USE DEF DirectInsert, InsertRow
<1>1. TypeOK'
  <2>1. status' \in [Id -> Status] /\ ttype' \in [Id -> TaskType \cup {NoType}]
    OBVIOUS
  <2>2. nextId' \in 1 .. MaxTask + 1
    OBVIOUS
  <2>3. checked' \in [Producer -> TaskType \cup {NoType}]
    OBVIOUS
  <2> QED
    BY <2>1, <2>2, <2>3
<1>2. FreshIds'
  BY DEF FreshIds
<1>3. HeldIsOwned'
  BY DEF HeldIsOwned, FreshIds
<1>4. RunningIsOwned'
  BY DEF RunningIsOwned
<1>5. RunningIsHeld'
  BY DEF RunningIsHeld
<1>6. CrashedIsDown'
  BY DEF CrashedIsDown
<1>7. RetryBound'
  BY DEF RetryBound, FreshIds
<1>8. RunsAccounted'
  BY DEF RunsAccounted, FreshIds
<1>9. DeadLetterAlerted'
  BY DEF DeadLetterAlerted
<1> QED
  BY <1>1, <1>2, <1>3, <1>4, <1>5, <1>6, <1>7, <1>8, <1>9

\* A restart preserves the invariant: the rows it requeues are its own, and
\* a daemon that is down holds none of them.
LEMMA StartStep ==
  ASSUME IInv, NEW a \in Agent, Start(a)
  PROVE  IInv'
<1> USE ConstantsAssumption DEF IInv, TypeOK, tableVars, agentVars, faultVars, countVars
<1> USE DEF Start, StaleRows, LeftRunning
<1>1. TypeOK'
  <2>1. status' \in [Id -> Status] /\ owner' \in [Id -> Agent \cup {NoAgent}]
    OBVIOUS
  <2>2. requeued' \in [Id -> Nat]
    OBVIOUS
  <2>5. stranded' \subseteq Id
    OBVIOUS
  <2>3. pc' \in [Agent -> Control] /\ crashed' \subseteq Agent
    OBVIOUS
  <2>4. \A b \in Agent : cur'[b] # NoTask <=> pc'[b] \in Holding
    OBVIOUS
  <2> QED
    BY <2>1, <2>2, <2>3, <2>4, <2>5
<1>2. FreshIds'
  BY DEF FreshIds
<1>3. HeldIsOwned'
  <2> SUFFICES ASSUME NEW b \in Agent, cur[b] # NoTask
               PROVE  /\ owner'[cur[b]] = b
                      /\ status'[cur[b]] = IF pc'[b] = "alerting" THEN "dead_letter"
                                                                 ELSE "running"
    BY DEF HeldIsOwned
  <2>1. cur[a] = NoTask /\ cur[b] \in Id
    OBVIOUS
  <2>2. b # a /\ owner[cur[b]] = b
    BY <2>1 DEF HeldIsOwned
  <2> QED
    BY <2>1, <2>2 DEF HeldIsOwned
<1>4. RunningIsOwned'
  BY DEF RunningIsOwned
<1>5. RunningIsHeld'
  BY DEF RunningIsHeld
<1>6. CrashedIsDown'
  BY DEF CrashedIsDown
<1>7. RetryBound'
  BY DEF RetryBound
<1>8. RunsAccounted'
  BY DEF RunsAccounted
<1>9. DeadLetterAlerted'
  BY DEF DeadLetterAlerted
<1> QED
  BY <1>1, <1>2, <1>3, <1>4, <1>5, <1>6, <1>7, <1>8, <1>9

\* Polling preserves the invariant: it only fills the window.
LEMMA PollStep ==
  ASSUME IInv, NEW a \in Agent, Poll(a)
  PROVE  IInv'
<1> USE ConstantsAssumption DEF IInv, TypeOK, tableVars, agentVars, faultVars, countVars
<1> USE DEF Poll
<1>1. TypeOK'
  <2> DEFINE mine == {t \in Window : ttype[t] \in Handles[a]}
  <2>1. mine \subseteq Id
    BY DEF Window
  <2> HIDE DEF mine
  <2>2. batch' = [batch EXCEPT ![a] = mine]
        /\ pc' = [pc EXCEPT ![a] = IF mine = {} THEN "idle" ELSE "loop"]
    BY DEF mine
  <2>3. batch' \in [Agent -> SUBSET Id]
    <3>1. batch \in [Agent -> SUBSET Id]
      OBVIOUS
    <3> QED
      BY <2>1, <2>2, <3>1
  <2>4. pc' \in [Agent -> Control] /\ \A b \in Agent : cur'[b] # NoTask <=> pc'[b] \in Holding
    BY <2>2
  <2> QED
    BY <2>3, <2>4
<1>2. (FreshIds /\ RunningIsOwned /\ RetryBound /\ RunsAccounted)'
  BY DEF FreshIds, RunningIsOwned, RetryBound, RunsAccounted
<1>3. HeldIsOwned'
  BY DEF HeldIsOwned
<1>4. (RunningIsHeld /\ CrashedIsDown)'
  BY DEF RunningIsHeld, CrashedIsDown
<1>5. DeadLetterAlerted'
  BY DEF DeadLetterAlerted
<1> QED
  BY <1>1, <1>2, <1>3, <1>4, <1>5

\* A claim preserves the invariant: the row was runnable, hence in nobody's
\* hands, and one more run is accounted for by its new status.
LEMMA ClaimStep ==
  ASSUME IInv, NEW a \in Agent, NEW t \in Id, Claim(a, t)
  PROVE  IInv'
<1> USE ConstantsAssumption DEF IInv, TypeOK, tableVars, agentVars, faultVars, countVars
<1> USE DEF Claim, Runnable, First
<1>1. TypeOK'
  <2>1. status' \in [Id -> Status] /\ owner' \in [Id -> Agent \cup {NoAgent}]
        /\ runs' \in [Id -> Nat]
    OBVIOUS
  <2>2. batch' \in [Agent -> SUBSET Id] /\ cur' \in [Agent -> Id \cup {NoTask}]
    OBVIOUS
  <2>3. pc' \in [Agent -> Control] /\ \A b \in Agent : cur'[b] # NoTask <=> pc'[b] \in Holding
    OBVIOUS
  <2> QED
    BY <2>1, <2>2, <2>3
<1>2. FreshIds'
  BY DEF FreshIds
<1>3. HeldIsOwned'
  BY DEF HeldIsOwned
<1>4. RunningIsOwned'
  BY DEF RunningIsOwned
<1>5. RunningIsHeld'
  <2> SUFFICES ASSUME NEW u \in Id, u # t, status[u] = "running"
               PROVE  \/ owner[u] \in Agent /\ cur'[owner[u]] = u
                      \/ owner[u] \in crashed
                      \/ u \in stranded
    BY DEF RunningIsHeld
  <2>1. cur[a] = NoTask
    OBVIOUS
  <2> QED
    BY <2>1 DEF RunningIsHeld
<1>6. CrashedIsDown'
  BY DEF CrashedIsDown
<1>7. RetryBound'
  BY DEF RetryBound
<1>8. RunsAccounted'
  BY DEF RunsAccounted
<1>9. DeadLetterAlerted'
  BY DEF DeadLetterAlerted
<1> QED
  BY <1>1, <1>2, <1>3, <1>4, <1>5, <1>6, <1>7, <1>8, <1>9

\* A missed claim preserves the invariant: it only shrinks the window.
LEMMA ClaimMissedStep ==
  ASSUME IInv, NEW a \in Agent, NEW t \in Id, ClaimMissed(a, t)
  PROVE  IInv'
<1> USE ConstantsAssumption DEF IInv, TypeOK, tableVars, agentVars, faultVars, countVars
<1> USE DEF ClaimMissed
<1>1. TypeOK'
  OBVIOUS
<1>2. (FreshIds /\ RunningIsOwned /\ RetryBound /\ RunsAccounted)'
  BY DEF FreshIds, RunningIsOwned, RetryBound, RunsAccounted
<1>3. HeldIsOwned'
  BY DEF HeldIsOwned
<1>4. (RunningIsHeld /\ CrashedIsDown)'
  BY DEF RunningIsHeld, CrashedIsDown
<1>5. DeadLetterAlerted'
  BY DEF DeadLetterAlerted
<1> QED
  BY <1>1, <1>2, <1>3, <1>4, <1>5

\* The end of a handler preserves the invariant: the row stays in hand.
LEMMA HandlerEndsStep ==
  ASSUME IInv, NEW a \in Agent, NEW outcome \in {"returned", "raised"}, HandlerEnds(a, outcome)
  PROVE  IInv'
<1> USE ConstantsAssumption DEF IInv, TypeOK, tableVars, agentVars, faultVars, countVars
<1> USE DEF HandlerEnds
<1>1. TypeOK'
  OBVIOUS
<1>2. (FreshIds /\ RunningIsOwned /\ RetryBound /\ RunsAccounted)'
  BY DEF FreshIds, RunningIsOwned, RetryBound, RunsAccounted
<1>3. HeldIsOwned'
  BY DEF HeldIsOwned
<1>4. (RunningIsHeld /\ CrashedIsDown)'
  BY DEF RunningIsHeld, CrashedIsDown
<1>5. DeadLetterAlerted'
  BY DEF DeadLetterAlerted
<1> QED
  BY <1>1, <1>2, <1>3, <1>4, <1>5

\* complete_task preserves the invariant: although the UPDATE is
\* unconditional, the row in hand is the daemon's own running row.
LEMMA CompleteStep ==
  ASSUME IInv, NEW a \in Agent, Complete(a)
  PROVE  IInv'
<1> USE ConstantsAssumption DEF IInv, TypeOK, tableVars, agentVars, faultVars, countVars
<1> USE DEF Complete
<1>0. /\ cur[a] \in Id /\ owner[cur[a]] = a /\ status[cur[a]] = "running"
     /\ \A b \in Agent : cur[b] = cur[a] => b = a
  BY HeldFacts
<1>1. TypeOK'
  BY <1>0
<1>2. FreshIds'
  BY <1>0 DEF FreshIds
<1>3. HeldIsOwned'
  BY <1>0 DEF HeldIsOwned
<1>4. RunningIsOwned'
  BY <1>0 DEF RunningIsOwned
<1>5. RunningIsHeld'
  BY <1>0 DEF RunningIsHeld
<1>6. CrashedIsDown'
  BY <1>0 DEF CrashedIsDown
<1>7. RetryBound'
  BY <1>0 DEF RetryBound
<1>8. RunsAccounted'
  BY <1>0 DEF RunsAccounted
<1>9. DeadLetterAlerted'
  BY <1>0 DEF DeadLetterAlerted
<1> QED
  BY <1>1, <1>2, <1>3, <1>4, <1>5, <1>6, <1>7, <1>8, <1>9

\* A lost completion preserves the invariant: the row is now to be failed.
LEMMA CompleteRaisesStep ==
  ASSUME IInv, NEW a \in Agent, CompleteRaises(a)
  PROVE  IInv'
<1> USE ConstantsAssumption DEF IInv, TypeOK, tableVars, agentVars, faultVars, countVars
<1> USE DEF CompleteRaises
<1>0. /\ cur[a] \in Id /\ owner[cur[a]] = a /\ status[cur[a]] = "running"
     /\ \A b \in Agent : cur[b] = cur[a] => b = a
  BY HeldFacts
<1>1. TypeOK'
  <2>1. dbErrors' \in 0 .. MaxDbError
    OBVIOUS
  <2>2. pc' \in [Agent -> Control]
    BY <1>0
  <2>3. \A b \in Agent : cur'[b] # NoTask <=> pc'[b] \in Holding
    BY <1>0
  <2> QED
    BY <2>1, <2>2, <2>3
<1>2. (FreshIds /\ RunningIsOwned /\ RetryBound /\ RunsAccounted)'
  BY DEF FreshIds, RunningIsOwned, RetryBound, RunsAccounted
<1>3. HeldIsOwned'
  BY <1>0 DEF HeldIsOwned
<1>4. (RunningIsHeld /\ CrashedIsDown)'
  BY <1>0 DEF RunningIsHeld, CrashedIsDown
<1>5. DeadLetterAlerted'
  BY <1>0 DEF DeadLetterAlerted
<1> QED
  BY <1>1, <1>2, <1>3, <1>4, <1>5

\* fail_task preserves the invariant: the run it ends is counted as a retry,
\* and a buried row stays in hand until it is announced.
LEMMA FailStep ==
  ASSUME IInv, NEW a \in Agent, Fail(a)
  PROVE  IInv'
<1> USE ConstantsAssumption DEF IInv, TypeOK, tableVars, agentVars, faultVars, countVars
<1> USE DEF Fail
<1>0. /\ cur[a] \in Id /\ owner[cur[a]] = a /\ status[cur[a]] = "running"
     /\ \A b \in Agent : cur[b] = cur[a] => b = a
  BY HeldFacts
<1>1. TypeOK'
  <2>0. retry[cur[a]] # RetryLimit
    BY <1>0 DEF RetryBound
  <2>1. retry' \in [Id -> 0 .. RetryLimit]
    BY <1>0, <2>0
  <2>2. status' \in [Id -> Status] /\ owner' \in [Id -> Agent \cup {NoAgent}]
    BY <1>0
  <2>3. pc' \in [Agent -> Control] /\ cur' \in [Agent -> Id \cup {NoTask}]
    BY <1>0
  <2>4. \A b \in Agent : cur'[b] # NoTask <=> pc'[b] \in Holding
    BY <1>0
  <2> QED
    BY <2>1, <2>2, <2>3, <2>4
<1>2. FreshIds'
  BY <1>0 DEF FreshIds
<1>3. HeldIsOwned'
  BY <1>0 DEF HeldIsOwned
<1>4. RunningIsOwned'
  BY <1>0 DEF RunningIsOwned
<1>5. RunningIsHeld'
  BY <1>0 DEF RunningIsHeld
<1>6. CrashedIsDown'
  BY <1>0 DEF CrashedIsDown
<1>7. RetryBound'
  <2>1. retry[cur[a]] # RetryLimit
    BY <1>0 DEF RetryBound
  <2>2. retry[cur[a]] + 1 >= RetryLimit <=> retry[cur[a]] + 1 = RetryLimit
    BY <1>0, <2>1
  <2> QED
    BY <1>0, <2>1, <2>2 DEF RetryBound
<1>8. RunsAccounted'
  BY <1>0 DEF RunsAccounted
<1>9. DeadLetterAlerted'
  BY <1>0 DEF DeadLetterAlerted
<1> QED
  BY <1>1, <1>2, <1>3, <1>4, <1>5, <1>6, <1>7, <1>8, <1>9

\* A lost fail_task preserves the invariant: the row is recorded as stranded.
LEMMA FailRaisesStep ==
  ASSUME IInv, NEW a \in Agent, FailRaises(a)
  PROVE  IInv'
<1> USE ConstantsAssumption DEF IInv, TypeOK, tableVars, agentVars, faultVars, countVars
<1> USE DEF FailRaises
<1>0. /\ cur[a] \in Id /\ owner[cur[a]] = a /\ status[cur[a]] = "running"
     /\ \A b \in Agent : cur[b] = cur[a] => b = a
  BY HeldFacts
<1>1. TypeOK'
  <2>1. dbErrors' \in 0 .. MaxDbError
    OBVIOUS
  <2>2. pc' \in [Agent -> Control] /\ cur' \in [Agent -> Id \cup {NoTask}]
        /\ batch' \in [Agent -> SUBSET Id] /\ stranded' \subseteq Id
    BY <1>0
  <2>3. \A b \in Agent : cur'[b] # NoTask <=> pc'[b] \in Holding
    BY <1>0
  <2> QED
    BY <2>1, <2>2, <2>3
<1>2. (FreshIds /\ RunningIsOwned /\ RetryBound /\ RunsAccounted)'
  BY DEF FreshIds, RunningIsOwned, RetryBound, RunsAccounted
<1>3. HeldIsOwned'
  BY <1>0 DEF HeldIsOwned
<1>4. (RunningIsHeld /\ CrashedIsDown)'
  BY <1>0 DEF RunningIsHeld, CrashedIsDown
<1>5. DeadLetterAlerted'
  BY <1>0 DEF DeadLetterAlerted
<1> QED
  BY <1>1, <1>2, <1>3, <1>4, <1>5

\* The alert preserves the invariant: the dead letter is announced.
LEMMA AlertStep ==
  ASSUME IInv, NEW a \in Agent, Alert(a)
  PROVE  IInv'
<1> USE ConstantsAssumption DEF IInv, TypeOK, tableVars, agentVars, faultVars, countVars
<1> USE DEF Alert
<1>0. /\ cur[a] \in Id /\ owner[cur[a]] = a /\ status[cur[a]] = "dead_letter"
     /\ \A b \in Agent : cur[b] = cur[a] => b = a
  BY HeldFacts
<1>1. TypeOK'
  BY <1>0
<1>2. (FreshIds /\ RunningIsOwned /\ RetryBound /\ RunsAccounted)'
  BY DEF FreshIds, RunningIsOwned, RetryBound, RunsAccounted
<1>3. HeldIsOwned'
  BY <1>0 DEF HeldIsOwned
<1>4. (RunningIsHeld /\ CrashedIsDown)'
  BY <1>0 DEF RunningIsHeld, CrashedIsDown
<1>5. DeadLetterAlerted'
  BY <1>0 DEF DeadLetterAlerted
<1> QED
  BY <1>1, <1>2, <1>3, <1>4, <1>5

\* A lost alert preserves the invariant: the error is counted.
LEMMA AlertRaisesStep ==
  ASSUME IInv, NEW a \in Agent, AlertRaises(a)
  PROVE  IInv'
<1> USE ConstantsAssumption DEF IInv, TypeOK, tableVars, agentVars, faultVars, countVars
<1> USE DEF AlertRaises
<1>0. /\ cur[a] \in Id /\ owner[cur[a]] = a /\ status[cur[a]] = "dead_letter"
     /\ \A b \in Agent : cur[b] = cur[a] => b = a
  BY HeldFacts
<1>1. TypeOK'
  <2>1. dbErrors' \in 0 .. MaxDbError
    OBVIOUS
  <2>2. pc' \in [Agent -> Control] /\ cur' \in [Agent -> Id \cup {NoTask}]
        /\ batch' \in [Agent -> SUBSET Id]
    BY <1>0
  <2>3. \A b \in Agent : cur'[b] # NoTask <=> pc'[b] \in Holding
    BY <1>0
  <2> QED
    BY <2>1, <2>2, <2>3
<1>2. (FreshIds /\ RunningIsOwned /\ RetryBound /\ RunsAccounted)'
  BY DEF FreshIds, RunningIsOwned, RetryBound, RunsAccounted
<1>3. HeldIsOwned'
  BY <1>0 DEF HeldIsOwned
<1>4. (RunningIsHeld /\ CrashedIsDown)'
  BY <1>0 DEF RunningIsHeld, CrashedIsDown
<1>5. DeadLetterAlerted'
  BY <1>0 DEF DeadLetterAlerted
<1> QED
  BY <1>1, <1>2, <1>3, <1>4, <1>5

\* The end of a window preserves the invariant.
LEMMA EndBatchStep ==
  ASSUME IInv, NEW a \in Agent, EndBatch(a)
  PROVE  IInv'
<1> USE ConstantsAssumption DEF IInv, TypeOK, tableVars, agentVars, faultVars, countVars
<1> USE DEF EndBatch
<1>1. TypeOK'
  OBVIOUS
<1>2. (FreshIds /\ RunningIsOwned /\ RetryBound /\ RunsAccounted)'
  BY DEF FreshIds, RunningIsOwned, RetryBound, RunsAccounted
<1>3. HeldIsOwned'
  BY DEF HeldIsOwned
<1>4. (RunningIsHeld /\ CrashedIsDown)'
  BY DEF RunningIsHeld, CrashedIsDown
<1>5. DeadLetterAlerted'
  BY DEF DeadLetterAlerted
<1> QED
  BY <1>1, <1>2, <1>3, <1>4, <1>5

\* SIGTERM preserves the invariant: only the flag changes.
LEMMA RequestShutdownStep ==
  ASSUME IInv, NEW a \in Agent, RequestShutdown(a)
  PROVE  IInv'
<1> USE ConstantsAssumption DEF IInv, TypeOK, tableVars, agentVars, faultVars, countVars
<1> USE DEF RequestShutdown
<1>1. TypeOK'
  <2>1. stops' \in 0 .. MaxStop /\ stopping' \subseteq Agent
    OBVIOUS
  <2> QED
    BY <2>1
<1>2. (FreshIds /\ RunningIsOwned /\ RetryBound /\ RunsAccounted)'
  BY DEF FreshIds, RunningIsOwned, RetryBound, RunsAccounted
<1>3. HeldIsOwned'
  BY DEF HeldIsOwned
<1>4. (RunningIsHeld /\ CrashedIsDown)'
  BY DEF RunningIsHeld, CrashedIsDown
<1>5. DeadLetterAlerted'
  BY DEF DeadLetterAlerted
<1> QED
  BY <1>1, <1>2, <1>3, <1>4, <1>5

\* A graceful exit preserves the invariant: an idle daemon holds no row.
LEMMA ExitStep ==
  ASSUME IInv, NEW a \in Agent, Exit(a)
  PROVE  IInv'
<1> USE ConstantsAssumption DEF IInv, TypeOK, tableVars, agentVars, faultVars, countVars
<1> USE DEF Exit
<1>1. TypeOK'
  OBVIOUS
<1>2. (FreshIds /\ RunningIsOwned /\ RetryBound /\ RunsAccounted)'
  BY DEF FreshIds, RunningIsOwned, RetryBound, RunsAccounted
<1>3. HeldIsOwned'
  BY DEF HeldIsOwned
<1>4. (RunningIsHeld /\ CrashedIsDown)'
  BY DEF RunningIsHeld, CrashedIsDown
<1>5. DeadLetterAlerted'
  BY DEF DeadLetterAlerted
<1> QED
  BY <1>1, <1>2, <1>3, <1>4, <1>5

\* A crash preserves the invariant: the row in hand stays running and its
\* owner is recorded as crashed.
LEMMA CrashStep ==
  ASSUME IInv, NEW a \in Agent, Crash(a)
  PROVE  IInv'
<1> USE ConstantsAssumption DEF IInv, TypeOK, tableVars, agentVars, faultVars, countVars
<1> USE DEF Crash
<1>1. TypeOK'
  OBVIOUS
<1>2. (FreshIds /\ RunningIsOwned /\ RetryBound /\ RunsAccounted)'
  BY DEF FreshIds, RunningIsOwned, RetryBound, RunsAccounted
<1>3. HeldIsOwned'
  BY DEF HeldIsOwned
<1>4. (RunningIsHeld /\ CrashedIsDown)'
  BY DEF RunningIsHeld, CrashedIsDown
<1>5. DeadLetterAlerted'
  BY DEF DeadLetterAlerted
<1> QED
  BY <1>1, <1>2, <1>3, <1>4, <1>5

\* Pruning preserves the invariant: it takes no running row.
LEMMA PruneStep ==
  ASSUME IInv, NEW t \in Id, Prune(t)
  PROVE  IInv'
<1> USE ConstantsAssumption DEF IInv, TypeOK, tableVars, agentVars, faultVars, countVars
<1> USE DEF Prune
<1>1. TypeOK'
  OBVIOUS
<1>2. FreshIds'
  BY DEF FreshIds
<1>3. HeldIsOwned'
  BY DEF HeldIsOwned
<1>4. RunningIsOwned'
  BY DEF RunningIsOwned
<1>5. RunningIsHeld'
  BY DEF RunningIsHeld
<1>6. CrashedIsDown'
  BY DEF CrashedIsDown
<1>7. RetryBound'
  BY DEF RetryBound
<1>8. RunsAccounted'
  BY DEF RunsAccounted
<1>9. DeadLetterAlerted'
  BY DEF DeadLetterAlerted
<1> QED
  BY <1>1, <1>2, <1>3, <1>4, <1>5, <1>6, <1>7, <1>8, <1>9

\* The invariant holds in the initial state.
LEMMA InitIInv == Init => IInv
BY ConstantsAssumption
   DEF Init, IInv, TypeOK, FreshIds, HeldIsOwned, RunningIsOwned, RunningIsHeld,
       CrashedIsDown, RetryBound, RunsAccounted, DeadLetterAlerted

\* A stuttering step preserves the invariant.
LEMMA StutterStep == IInv /\ UNCHANGED vars => IInv'
BY DEF IInv, TypeOK, FreshIds, HeldIsOwned, RunningIsOwned, RunningIsHeld,
       CrashedIsDown, RetryBound, RunsAccounted, DeadLetterAlerted,
       vars, tableVars, agentVars, faultVars, countVars

\* Every step preserves the invariant: one lemma per action, put together.
LEMMA NextIInv == IInv /\ [Next]_vars => IInv'
<1> SUFFICES ASSUME IInv, Next PROVE IInv'
  BY StutterStep
<1>1. CASE Produce
  BY <1>1, DedupeCheckStep, DedupeInsertStep, DirectInsertStep DEF Produce
<1>2. CASE \E a \in Agent : Start(a)
  BY <1>2, StartStep
<1>3. CASE \E a \in Agent : AgentStep(a)
  BY <1>3, PollStep, ClaimStep, ClaimMissedStep, HandlerEndsStep, CompleteStep,
     FailStep, AlertStep, EndBatchStep, ExitStep DEF AgentStep
<1>4. CASE \E a \in Agent : Fault(a)
  BY <1>4, CrashStep, RequestShutdownStep, CompleteRaisesStep, FailRaisesStep,
     AlertRaisesStep DEF Fault
<1>5. CASE \E t \in Id : Prune(t)
  BY <1>5, PruneStep
<1> QED
  BY <1>1, <1>2, <1>3, <1>4, <1>5 DEF Next

\* The inductive invariant of the queue holds in every reachable state, for
\* every interleaving of producers, daemons, crashes and lost write-backs.
THEOREM Invariance == Spec => []IInv
BY InitIInv, NextIInv, PTL DEF Spec

(***************************************************************************)
(* The invariants                                                          *)
(***************************************************************************)

\* All state stays in range, and a daemon has a row in hand exactly while it
\* handles one or writes its outcome back.
THEOREM TypeCorrect == Spec => []TypeOK
<1>1. IInv => TypeOK
  BY DEF IInv
<1> QED
  BY <1>1, Invariance, PTL

\* A row has one owner and a daemon only holds what it owns: no task is
\* executed by two daemons at once.
THEOREM Exclusion == Spec => []ExclusiveExecution
<1>1. IInv => ExclusiveExecution
  BY DEF IInv, HeldIsOwned, ExclusiveExecution
<1> QED
  BY <1>1, Invariance, PTL

\* A running row without a live owner is the trace of a crash or of a lost
\* write-back; graceful shutdown and pruning never leave one.
THEOREM NoOrphans == Spec => []RunningIsHeld
<1>1. IInv => RunningIsHeld
  BY DEF IInv
<1> QED
  BY <1>1, Invariance, PTL

\* RetryLimit bounds the runs of a handler up to the requeues of restarts.
THEOREM BoundedExecution == Spec => []ExecutionBudget
<1>1. IInv => ExecutionBudget
  <2> SUFFICES ASSUME IInv, NEW t \in Id PROVE runs[t] <= RetryLimit + requeued[t]
    BY DEF ExecutionBudget
  <2>1. /\ retry[t] \in 0 .. RetryLimit /\ runs[t] \in Nat /\ requeued[t] \in Nat
        /\ status[t] \in Status
    BY DEF IInv, TypeOK
  <2>2. CASE status[t] = "dead_letter"
    BY <2>1, <2>2, ConstantsAssumption DEF IInv, RunsAccounted
  <2>3. CASE status[t] # "dead_letter"
    <3>1. retry[t] + 1 <= RetryLimit
      BY <2>1, <2>3, ConstantsAssumption DEF IInv, RetryBound
    <3>2. runs[t] <= retry[t] + requeued[t] + 1
      BY <2>1 DEF IInv, RunsAccounted
    <3> QED
      BY <2>1, <3>1, <3>2, ConstantsAssumption
  <2> QED
    BY <2>2, <2>3
<1> QED
  BY <1>1, Invariance, PTL

\* Without crashes and database errors every dead letter is announced.
THEOREM DeadLettersAlerted == Spec => []DeadLetterAlerted
<1>1. IInv => DeadLetterAlerted
  BY DEF IInv
<1> QED
  BY <1>1, Invariance, PTL

(***************************************************************************)
(* Finished rows                                                           *)
(***************************************************************************)

KeepsFinished ==
  \A t \in Id :
    /\ status[t] = "completed" => status'[t] \in {"completed", "deleted"}
    /\ status[t] = "dead_letter" => status'[t] = "dead_letter"

\* No step revives a finished row: only the holder of a running row writes
\* it, and no finished row has a holder who may still write.
LEMMA KeepsFinishedStep == IInv /\ [Next]_vars => KeepsFinished
<1> SUFFICES ASSUME IInv, [Next]_vars, NEW t \in Id
             PROVE  /\ status[t] = "completed" => status'[t] \in {"completed", "deleted"}
                    /\ status[t] = "dead_letter" => status'[t] = "dead_letter"
  BY DEF KeepsFinished
<1> USE DEF tableVars
<1>0. status \in [Id -> Status]
  BY DEF IInv, TypeOK
<1>1. CASE UNCHANGED status
  BY <1>1, <1>0
<1>2. ASSUME NEW ty, InsertRow(ty) PROVE status[nextId] = "absent" /\ nextId \in Id
  BY <1>2 DEF InsertRow, IInv, FreshIds, TypeOK
<1>3. ASSUME NEW p \in Producer, DedupeInsert(p) PROVE KeepsFinished
  BY <1>3, <1>2, <1>0 DEF DedupeInsert, InsertRow, KeepsFinished
<1>4. ASSUME NEW ty \in TaskType, DirectInsert(ty) PROVE KeepsFinished
  BY <1>4, <1>2, <1>0 DEF DirectInsert, InsertRow, KeepsFinished
<1>5. ASSUME NEW a \in Agent, Start(a) PROVE KeepsFinished
  BY <1>5, <1>0 DEF Start, StaleRows, LeftRunning, KeepsFinished
<1>6. ASSUME NEW a \in Agent, NEW u \in Id, Claim(a, u) PROVE KeepsFinished
  BY <1>6, <1>0 DEF Claim, Runnable, KeepsFinished
<1>7. ASSUME NEW a \in Agent, Complete(a) \/ Fail(a) PROVE KeepsFinished
  <2>1. cur[a] \in Id /\ status[cur[a]] = "running"
    BY <1>7, HeldFacts DEF Complete, Fail
  <2> QED
    BY <2>1, <1>7, <1>0 DEF Complete, Fail, KeepsFinished
<1>8. ASSUME NEW u \in Id, Prune(u) PROVE KeepsFinished
  BY <1>8, <1>0 DEF Prune, KeepsFinished
<1> QED
  BY <1>1, <1>3, <1>4, <1>5, <1>6, <1>7, <1>8
  DEF KeepsFinished, Next, Produce, AgentStep, Fault, vars, DedupeCheck, Poll,
      ClaimMissed, HandlerEnds, Alert, EndBatch, Exit, Crash, RequestShutdown,
      CompleteRaises, FailRaises, AlertRaises

\* complete_task and fail_task write by id alone, yet no completed row and no
\* dead letter ever changes again except by pruning.
THEOREM FinalRows == Spec => FinishedIsFinal
<1>1. IInv /\ [Next]_vars =>
        [\A t \in Id :
           /\ status[t] = "completed" => status'[t] \in {"completed", "deleted"}
           /\ status[t] = "dead_letter" => status'[t] = "dead_letter"]_vars
  BY KeepsFinishedStep DEF KeepsFinished
<1> QED
  BY <1>1, Invariance, PTL DEF Spec, FinishedIsFinal

(***************************************************************************)
(* The queue implements the lease queue                                    *)
(***************************************************************************)

\* The empty table is the empty lease queue.
LEMMA InitRefines == Init => Lease!LeaseInit
BY DEF Init, Lease!LeaseInit, PhaseBar, HolderBar, PhaseOf

\* A step that leaves the table alone is a stutter of the lease queue.
LEMMA QuietRefines ==
  ASSUME UNCHANGED <<status, owner, retry>>
  PROVE  UNCHANGED Lease!leaseVars
BY DEF Lease!leaseVars, PhaseBar, HolderBar

\* An insert opens a job.
LEMMA InsertRefines ==
  ASSUME IInv, NEW ty, InsertRow(ty)
  PROVE  Lease!LeaseNext
<1>1. nextId \in Id /\ status[nextId] = "absent" /\ status \in [Id -> Status]
  BY DEF IInv, FreshIds, TypeOK, InsertRow
<1>2. Lease!Submit(nextId)
  BY <1>1 DEF InsertRow, PhaseBar, HolderBar, PhaseOf, Lease!Submit
<1> QED
  BY <1>1, <1>2 DEF Lease!LeaseNext

\* A restart releases leases of its own name.
LEMMA StartRefines ==
  ASSUME IInv, NEW a \in Agent, Start(a)
  PROVE  Lease!LeaseNext \/ UNCHANGED Lease!leaseVars
<1>1. CASE a \in Requeues
  <2>1. StaleRows(a) = {t \in Id : status[t] = "running" /\ owner[t] = a}
    BY <1>1 DEF StaleRows, LeftRunning
  <2>2. Lease!ReturnLeases(a)
    BY <2>1, ConstantsAssumption
       DEF IInv, TypeOK, Start, PhaseBar, HolderBar, PhaseOf, Lease!ReturnLeases
  <2> QED
    BY <2>2 DEF Lease!LeaseNext
<1>2. CASE a \notin Requeues
  <2>1. StaleRows(a) = {}
    BY <1>2 DEF StaleRows
  <2>2. status' = status /\ owner' = owner /\ retry' = retry
    BY <2>1 DEF IInv, TypeOK, Start
  <2> QED
    BY <2>2, QuietRefines
<1> QED
  BY <1>1, <1>2

\* A claim takes the lease.
LEMMA ClaimRefines ==
  ASSUME IInv, NEW a \in Agent, NEW t \in Id, Claim(a, t)
  PROVE  Lease!LeaseNext
<1>1. Lease!Lease(t, a)
  BY DEF IInv, TypeOK, Claim, Runnable, PhaseBar, HolderBar, PhaseOf, Lease!Lease
<1> QED
  BY <1>1 DEF Lease!LeaseNext

\* complete_task ends the caller's lease as done.
LEMMA CompleteRefines ==
  ASSUME IInv, NEW a \in Agent, Complete(a)
  PROVE  Lease!LeaseNext
<1>1. cur[a] \in Id /\ status[cur[a]] = "running" /\ owner[cur[a]] = a
  BY HeldFacts DEF Complete
<1>2. Lease!Finish(cur[a], a)
  BY <1>1 DEF IInv, TypeOK, Complete, PhaseBar, HolderBar, PhaseOf, Lease!Finish
<1> QED
  BY <1>1, <1>2 DEF Lease!LeaseNext

\* fail_task ends the caller's lease as failed, or buries the job.
LEMMA FailRefines ==
  ASSUME IInv, NEW a \in Agent, Fail(a)
  PROVE  Lease!LeaseNext
<1>1. cur[a] \in Id /\ status[cur[a]] = "running" /\ owner[cur[a]] = a
  BY HeldFacts DEF Fail
<1>2. retry[cur[a]] \in 0 .. RetryLimit /\ retry[cur[a]] # RetryLimit
  BY <1>1 DEF IInv, TypeOK, RetryBound
<1>3. retry[cur[a]] < RetryLimit
      /\ (retry[cur[a]] + 1 >= RetryLimit <=> retry[cur[a]] + 1 = RetryLimit)
  BY <1>2, ConstantsAssumption
<1>4. Lease!GiveUp(cur[a], a)
  BY <1>1, <1>3 DEF IInv, TypeOK, Fail, PhaseBar, HolderBar, PhaseOf, Lease!GiveUp
<1> QED
  BY <1>1, <1>4 DEF Lease!LeaseNext

\* Pruning drops a job nobody holds.
LEMMA PruneRefines ==
  ASSUME IInv, NEW t \in Id, Prune(t)
  PROVE  Lease!LeaseNext
<1>1. Lease!Discard(t)
  BY DEF IInv, TypeOK, RetryBound, Prune, PhaseBar, HolderBar, PhaseOf, Lease!Discard
<1> QED
  BY <1>1 DEF Lease!LeaseNext

\* Every step of the table is a step of the lease queue or a stutter.
LEMMA NextRefines == IInv /\ [Next]_vars => [Lease!LeaseNext]_(Lease!leaseVars)
<1> SUFFICES ASSUME IInv, [Next]_vars
             PROVE  Lease!LeaseNext \/ UNCHANGED Lease!leaseVars
  OBVIOUS
<1> USE DEF tableVars
<1>1. CASE UNCHANGED <<status, owner, retry>>
  BY <1>1, QuietRefines
<1>2. CASE Produce
  BY <1>1, <1>2, InsertRefines DEF Produce, DedupeCheck, DedupeInsert, DirectInsert
<1>3. CASE \E a \in Agent : Start(a)
  BY <1>3, StartRefines
<1>4. CASE \E a \in Agent : AgentStep(a)
  BY <1>1, <1>4, ClaimRefines, CompleteRefines, FailRefines
  DEF AgentStep, Poll, ClaimMissed, HandlerEnds, Alert, EndBatch, Exit
<1>5. CASE \E a \in Agent : Fault(a)
  BY <1>1, <1>5 DEF Fault, Crash, RequestShutdown, CompleteRaises, FailRaises, AlertRaises
<1>6. CASE \E t \in Id : Prune(t)
  BY <1>6, PruneRefines
<1> QED
  BY <1>1, <1>2, <1>3, <1>4, <1>5, <1>6 DEF Next, vars

\* Every behaviour of the table is, seen through its statuses, a behaviour of
\* the abstract lease queue.
THEOREM Refinement == Spec => ImplementsLease
BY InitRefines, Invariance, NextRefines, PTL
   DEF Spec, ImplementsLease, Lease!LeaseSpec

=============================================================================
