------------------------- MODULE RequestReplyProofs -------------------------
(***************************************************************************)
(* Proofs about RequestReply, for any requests, limits and faults.         *)
(***************************************************************************)
EXTENDS RequestReply, FiniteSetTheorems, TLAPS

(***************************************************************************)
(* The inductive invariant                                                 *)
(***************************************************************************)

\* ClawdBot's queue loop works on a row that is running, and nothing is queued
\* before the call over A2A has failed.
Holding ==
  /\ daemon.at \in {"handling", "done", "complete", "failed"} => row[daemon.req] = "running"
  /\ \A r \in Req : call[r].at \in {"idle", "calling", "asking"} => row[r] = "none"

\* Events are written in order, and a requester finds only its own.
Events ==
  /\ \A e \in Event : IF e < nextEvent THEN event[e].req \in Req ELSE event[e] = NoEvent
  /\ \A r \in Req : IF call[r].at \in {"found", "answered"}
                    THEN call[r].event # 0 => event[call[r].event].req = r
                    ELSE call[r].event = 0
  /\ alerts.sent # 0 => alerts.sent \in alerted

\* What says that the work was done is said after it was done.
Truth ==
  /\ \A e \in Event : event[e].req \in Req /\ event[e].ok => executed[event[e].req] > 0
  /\ daemon.at \in {"done", "complete"} => executed[daemon.req] > 0
  /\ \A r \in Req : call[r].at = "answered" /\ call[r].event = 0 /\ r \notin misled
                    => executed[r] > 0

\* An execution is booked: the requester was told over A2A, the row is completed,
\* or the queue loop has done the work and has yet to complete the row.
Booked(r) ==
  \/ call[r].at = "answered" /\ call[r].event = 0
  \/ row[r] = "completed"
  \/ daemon.req = r /\ daemon.at \in {"done", "complete"}

\* Of a request's executions at most one is booked, over A2A or in the queue, not
\* in both, and the others were lost.
Accounted(r) ==
  /\ executed[r] <= lost[r] + IF Booked(r) THEN 1 ELSE 0
  /\ call[r].at = "answered" /\ call[r].event = 0 => row[r] = "none"

Once == \A r \in Req : Accounted(r)

\* The dict of tasks.
Kept == IsFiniteSet(tasks) /\ TasksAreBounded

IInv == TypeOK /\ Holding /\ Events /\ Truth /\ Once /\ EventsAreSeen /\ Kept

(***************************************************************************)
(* Types                                                                   *)
(***************************************************************************)

\* The steps by what they may write: all others leave it alone.
LEMMA Frames ==
  ASSUME [Next]_vars
  PROVE  /\ \/ UNCHANGED call
            \/ \E r \in Req : \/ request_task_result(r) \/ CallFails(r) \/ InsertTask(r)
                              \/ TakeAnswer(r) \/ GiveUp(r) \/ Handled(r) \/ HandlerFails(r)
                              \/ AnswersAnother(r) \/ \E e \in Event : FindAnswer(r, e)
         /\ \/ UNCHANGED <<state, tasks, handling>>
            \/ \E r \in Req : \/ request_task_result(r) \/ Handled(r) \/ HandlerFails(r)
                              \/ AnswersAnother(r) \/ CancelTask(r)
            \/ CrashAndRestart
         /\ \/ UNCHANGED <<row, retry, daemon>>
            \/ \E r \in Req : InsertTask(r) \/ Claim(r)
            \/ Works \/ CrashAndRestart
         /\ \/ UNCHANGED <<event, nextEvent>>
            \/ \E r \in Req : TakeAnswer(r)
            \/ Answer \/ AnswerFailed \/ Acknowledge
         /\ \/ UNCHANGED <<alerts, alerted>>
            \/ SelectEvents \/ Acknowledge \/ \E e \in Event : SendAlert(e) \/ SendFails(e)
         /\ \/ UNCHANGED <<executed, lost, misled>>
            \/ \E r \in Req : Handled(r) \/ HandlerFails(r) \/ AnswersAnother(r)
            \/ WorkDone \/ WorkFails \/ AnswerRaises \/ CrashAndRestart
<1> USE DEF serverVars, queueVars, eventVars, historyVars
<1>1. ASSUME NEW r \in Req, NEW e \in Event, FindAnswer(r, e)
      PROVE  UNCHANGED <<state, tasks, handling, row, retry, daemon, event, nextEvent, alerts,
                         alerted, executed, lost, misled>>
  BY <1>1 DEF FindAnswer
<1>2. ASSUME NEW r \in Req
      PROVE  /\ Handled(r) \/ HandlerFails(r) \/ AnswersAnother(r) =>
                  UNCHANGED <<row, retry, daemon, event, nextEvent, alerts, alerted>>
             /\ CancelTask(r) =>
                  UNCHANGED <<call, row, retry, daemon, event, nextEvent, alerts, alerted, executed,
                              lost, misled>>
             /\ Claim(r) =>
                  UNCHANGED <<call, state, tasks, handling, event, nextEvent, alerts, alerted,
                              executed, lost, misled>>
  BY DEF Handled, HandlerFails, AnswersAnother, CancelTask, Claim
<1>3. /\ WorkDone \/ WorkFails \/ AnswerRaises =>
           UNCHANGED <<call, state, tasks, handling, event, nextEvent, alerts, alerted>>
      /\ CompleteTask \/ FailTask =>
           UNCHANGED <<call, state, tasks, handling, event, nextEvent, alerts, alerted, executed,
                       lost, misled>>
      /\ Answer \/ AnswerFailed =>
           UNCHANGED <<call, state, tasks, handling, alerts, alerted, executed, lost, misled>>
      /\ CrashAndRestart => UNCHANGED <<call, event, nextEvent, alerts, alerted>>
  BY DEF WorkDone, WorkFails, CompleteTask, FailTask, Answer, AnswerFailed, AnswerRaises, CrashAndRestart
<1>4. ASSUME NEW e \in Event, SendAlert(e) \/ SendFails(e)
      PROVE  UNCHANGED <<call, state, tasks, handling, row, retry, daemon, event, nextEvent,
                         executed, lost, misled>>
  BY <1>4 DEF SendAlert, SendFails
<1>5. SelectEvents \/ Acknowledge =>
        /\ UNCHANGED <<call, state, tasks, handling, row, retry, daemon, executed, lost, misled>>
        /\ SelectEvents => UNCHANGED <<event, nextEvent>>
  BY DEF SelectEvents, Acknowledge
<1>6. CASE UNCHANGED vars
  BY <1>6 DEF vars
<1>7. ASSUME NEW r \in Req
      PROVE  /\ CallFails(r) \/ GiveUp(r) =>
                  UNCHANGED <<state, tasks, handling, row, retry, daemon, event, nextEvent, alerts,
                              alerted, executed, lost, misled>>
             /\ request_task_result(r) =>
                  UNCHANGED <<row, retry, daemon, event, nextEvent, alerts, alerted, executed,
                              lost, misled>>
             /\ InsertTask(r) =>
                  UNCHANGED <<state, tasks, handling, event, nextEvent, alerts, alerted, executed,
                              lost, misled>>
             /\ TakeAnswer(r) =>
                  UNCHANGED <<state, tasks, handling, row, retry, daemon, alerts, alerted, executed,
                              lost, misled>>
  BY DEF request_task_result, CallFails, GiveUp, InsertTask, TakeAnswer
<1>8. CASE \E r \in Req : \/ request_task_result(r) \/ Requests(r)
                          \/ Handled(r) \/ HandlerFails(r) \/ AnswersAnother(r)
                          \/ CancelTask(r) \/ Claim(r)
  BY <1>1, <1>2, <1>7, <1>8 DEF Requests
<1>9. CASE Works \/ CrashAndRestart
  BY <1>3, <1>9 DEF Works
<1>10. CASE SelectEvents \/ Acknowledge \/ \E e \in Event : SendAlert(e) \/ SendFails(e)
  BY <1>4, <1>5, <1>10
<1> QED
  BY <1>6, <1>8, <1>9, <1>10 DEF Next

EventRecord == [req : Req \cup {None}, ok : BOOLEAN, acknowledged : BOOLEAN]

\* Every variable keeps its type.
LEMMA TypeStep ==
  ASSUME TypeOK, Holding, Events, [Next]_vars
  PROVE  TypeOK' /\ Holding'
<1> USE RequestAssumption DEF Goes
<1>c. /\ call' \in [Req -> [at : {"idle", "calling", "asking", "polling", "found", "answered",
                                  "gave_up"}, event : 0 .. MaxEvent]]
      /\ \A r \in Req : call'[r].at = "found" => call'[r].event \in Event
  <2>1. ASSUME NEW r \in Req, NEW at \in {"calling", "asking", "polling", "answered", "gave_up"},
               call' = [call EXCEPT ![r].at = at]
        PROVE  /\ call' \in [Req -> [at : {"idle", "calling", "asking", "polling", "found",
                                           "answered", "gave_up"}, event : 0 .. MaxEvent]]
               /\ \A q \in Req : call'[q].at = "found" => call'[q].event \in Event
    BY <2>1 DEF TypeOK
  <2>2. ASSUME NEW r \in Req, NEW e \in Event, FindAnswer(r, e)
        PROVE  /\ call' \in [Req -> [at : {"idle", "calling", "asking", "polling", "found",
                                           "answered", "gave_up"}, event : 0 .. MaxEvent]]
               /\ \A q \in Req : call'[q].at = "found" => call'[q].event \in Event
    BY <2>2 DEF FindAnswer, TypeOK, Event
  <2>3. CASE UNCHANGED call
    BY <2>3 DEF TypeOK
  <2>4. ASSUME NEW r \in Req, \/ request_task_result(r) \/ CallFails(r) \/ InsertTask(r)
                              \/ TakeAnswer(r) \/ GiveUp(r) \/ Handled(r) \/ HandlerFails(r)
                              \/ AnswersAnother(r)
        PROVE  \/ UNCHANGED call
               \/ \E at \in {"calling", "asking", "polling", "answered", "gave_up"} :
                    call' = [call EXCEPT ![r].at = at]
    BY <2>4 DEF request_task_result, CallFails, InsertTask, TakeAnswer, GiveUp, Handled, HandlerFails,
       AnswersAnother
  <2> QED
    BY <2>1, <2>2, <2>3, <2>4, Frames
<1>s. /\ state' \in [Req -> {"none", "working", "completed", "failed", "canceled"}]
      /\ tasks' \subseteq Req /\ handling' \subseteq Req
  <2>1. ASSUME NEW r \in Req, NEW o \in {"completed", "failed"}, Server!HandlerEnds(r, o)
        PROVE  /\ state' \in [Req -> {"none", "working", "completed", "failed", "canceled"}]
               /\ tasks' \subseteq Req /\ handling' \subseteq Req
    BY <2>1 DEF Server!HandlerEnds, Server!Pruned, TypeOK
  <2>2. ASSUME NEW r \in Req, \/ request_task_result(r) \/ CancelTask(r) \/ CrashAndRestart
        PROVE  /\ state' \in [Req -> {"none", "working", "completed", "failed", "canceled"}]
               /\ tasks' \subseteq Req /\ handling' \subseteq Req
    BY <2>2 DEF request_task_result, CancelTask, CrashAndRestart, Server!handle_send,
       Server!Blocked, Server!handle_cancel, Server!ServerRestarts, serverVars, TypeOK
  <2>3. CASE UNCHANGED <<state, tasks, handling>>
    BY <2>3 DEF TypeOK
  <2>4. CASE CrashAndRestart
    BY <2>4 DEF CrashAndRestart, Server!ServerRestarts, TypeOK
  <2>5. ASSUME NEW r \in Req, Handled(r) \/ HandlerFails(r) \/ AnswersAnother(r)
        PROVE  \E o \in {"completed", "failed"} : Server!HandlerEnds(r, o)
    BY <2>5 DEF Handled, HandlerFails, AnswersAnother
  <2> QED
    BY <2>1, <2>2, <2>3, <2>4, <2>5, Frames
\* The queue: the row, its retries, and the loop that has it in hand.
<1> DEFINE Queue == /\ row' \in [Req -> {"none", "pending", "running", "completed", "failed", "dead_letter"}]
                    /\ retry' \in [Req -> 0 .. RetryLimit]
                    /\ daemon' \in [at : {"idle", "handling", "done", "complete", "failed", "excuse"},
                                    req : Req \cup {None}]
                    /\ \A r \in Req : row'[r] \in {"none", "pending", "running", "failed"}
                                        => retry'[r] < RetryLimit
                    /\ daemon'.at # "idle" => daemon'.req \in Req /\ row'[daemon'.req] # "none"
                    /\ Holding'
<1>q. Queue
  <2>1. \A r \in Req : call'[r].at \in {"idle", "calling", "asking"}
                         => call[r].at \in {"idle", "calling", "asking"}
    <3>1. ASSUME NEW r \in Req, \/ request_task_result(r) \/ CallFails(r) \/ InsertTask(r)
                                \/ TakeAnswer(r) \/ GiveUp(r) \/ Handled(r) \/ HandlerFails(r)
                                \/ AnswersAnother(r) \/ \E e \in Event : FindAnswer(r, e),
                 NEW q \in Req, call'[q].at \in {"idle", "calling", "asking"}
          PROVE  call[q].at \in {"idle", "calling", "asking"}
      BY <3>1 DEF request_task_result, CallFails, InsertTask, TakeAnswer, GiveUp, Handled,
         HandlerFails, AnswersAnother, FindAnswer, TypeOK
    <3> QED
      BY <3>1, Frames
  <2>2. CASE UNCHANGED <<row, retry, daemon>>
    BY <2>1, <2>2 DEF TypeOK, Holding
  <2>3. ASSUME NEW r \in Req, InsertTask(r) PROVE Queue
    <3>1. row[r] = "none" /\ daemon' = daemon /\ retry' = retry /\ row' = [row EXCEPT ![r] = "pending"]
      BY <2>3 DEF InsertTask, Holding, queueVars
    <3>2. call'[r].at = "polling"
      BY <2>3 DEF InsertTask, TypeOK
    <3> QED
      BY <2>1, <3>1, <3>2 DEF TypeOK, Holding
  <2>4. ASSUME NEW r \in Req, Claim(r) PROVE Queue
    BY <2>4 DEF Claim, Daemon, TypeOK, Holding
  <2>5. CASE WorkDone \/ WorkFails \/ Answer \/ AnswerRaises \/ AnswerFailed
    <3>1. /\ UNCHANGED <<row, retry, call>> /\ daemon.at # "idle"
          /\ \/ /\ daemon.at \in {"handling", "done", "complete"}
                /\ \E at \in {"done", "complete", "failed"} : daemon' = [at |-> at, req |-> daemon.req]
             \/ daemon' = [at |-> "idle", req |-> None]
      BY <2>5 DEF WorkDone, WorkFails, Answer, AnswerRaises, AnswerFailed, Daemon
    <3> QED
      BY <3>1 DEF TypeOK, Holding
  <2>6. CASE CompleteTask
    BY <2>6 DEF CompleteTask, Daemon, TypeOK, Holding
  <2>7. CASE FailTask
    <3>1. PICK r \in Req : r = daemon.req
      BY <2>7 DEF FailTask, TypeOK
    <3>2. row[r] = "running" /\ retry[r] \in Nat /\ retry[r] < RetryLimit
      BY <2>7, <3>1 DEF FailTask, TypeOK, Holding
    <3>3. /\ UNCHANGED call /\ daemon' = [at |-> "excuse", req |-> r]
          /\ retry' = [retry EXCEPT ![r] = retry[r] + 1]
          /\ row' = [row EXCEPT ![r] = IF retry[r] + 1 >= RetryLimit THEN "dead_letter" ELSE "failed"]
      BY <2>7, <3>1 DEF FailTask, Daemon
    <3> QED
      BY <3>1, <3>2, <3>3 DEF TypeOK, Holding
  <2>8. CASE CrashAndRestart
    BY <2>8 DEF CrashAndRestart, Daemon, TypeOK, Holding
  <2> QED
    BY <2>2, <2>3, <2>4, <2>5, <2>6, <2>7, <2>8, Frames DEF Works
<1>e. /\ event' \in [Event -> EventRecord]
      /\ nextEvent' \in 1 .. MaxEvent + 1
  <2>1. ASSUME NEW e \in Event, UNCHANGED nextEvent, event' = [event EXCEPT ![e].acknowledged = TRUE]
        PROVE  /\ event' \in [Event -> EventRecord]
               /\ nextEvent' \in 1 .. MaxEvent + 1
    <3>1. PICK x \in EventRecord : x = event[e]
      BY DEF TypeOK, EventRecord
    <3>2. PICK y \in EventRecord :
            y = [x EXCEPT !.acknowledged = TRUE]
      BY DEF EventRecord
    <3>3. event' = [event EXCEPT ![e] = y]
      BY <2>1, <3>1, <3>2
    <3>4. event \in [Event -> EventRecord] /\ nextEvent \in 1 .. MaxEvent + 1
      BY DEF TypeOK, EventRecord
    <3> QED
      BY <2>1, <3>3, <3>4
  <2>2. ASSUME NEW r \in Req, NEW ok \in BOOLEAN, emit_event(r, ok)
        PROVE  /\ event' \in [Event -> EventRecord]
               /\ nextEvent' \in 1 .. MaxEvent + 1
    BY <2>2 DEF emit_event, TypeOK, Event, EventRecord
  <2>3. CASE UNCHANGED <<event, nextEvent>>
    BY <2>3 DEF TypeOK, EventRecord
  <2>4. ASSUME NEW r \in Req, TakeAnswer(r)
        PROVE  \E e \in Event : UNCHANGED nextEvent /\ event' = [event EXCEPT ![e].acknowledged = TRUE]
    BY <2>4 DEF TakeAnswer, TypeOK
  <2>5. ASSUME Answer \/ AnswerFailed
        PROVE  \E r \in Req, ok \in BOOLEAN : emit_event(r, ok)
    <3>1. PICK r \in Req : r = daemon.req
      BY <2>5 DEF Answer, AnswerFailed, TypeOK
    <3>2. emit_event(r, TRUE) \/ emit_event(r, FALSE)
      BY <2>5, <3>1 DEF Answer, AnswerFailed, emit_event
    <3> QED
      BY <3>2
  <2>6. ASSUME Acknowledge
        PROVE  \E e \in Event : UNCHANGED nextEvent /\ event' = [event EXCEPT ![e].acknowledged = TRUE]
    <3>1. alerts.sent \in Event
      BY <2>6 DEF Acknowledge, TypeOK, Event
    <3> QED
      BY <2>6, <3>1 DEF Acknowledge
  <2> QED
    BY <2>1, <2>2, <2>3, <2>4, <2>5, <2>6, Frames
<1>a. alerts' \in [batch : SUBSET Event, sent : 0 .. MaxEvent] /\ alerted' \subseteq Event
  <2>1. CASE SelectEvents
    BY <2>1 DEF SelectEvents, historyVars, TypeOK
  <2>2. CASE Acknowledge
    BY <2>2 DEF Acknowledge, historyVars, TypeOK
  <2>3. ASSUME NEW e \in Event, SendAlert(e) \/ SendFails(e)
        PROVE  alerts' \in [batch : SUBSET Event, sent : 0 .. MaxEvent] /\ alerted' \subseteq Event
    <3>1. CASE SendAlert(e)
      <4>1. e \in 0 .. MaxEvent
        BY DEF Event
      <4>2. alerts' = [alerts EXCEPT !.sent = e] /\ alerted' = alerted \cup {e}
        BY <3>1 DEF SendAlert
      <4> QED
        BY <4>1, <4>2 DEF TypeOK
    <3>2. CASE SendFails(e)
      BY <3>2 DEF SendFails, historyVars, TypeOK
    <3> QED
      BY <2>3, <3>1, <3>2
  <2> QED
    BY <2>1, <2>2, <2>3, Frames DEF TypeOK
<1>h. executed' \in [Req -> Nat] /\ lost' \in [Req -> Nat] /\ misled' \subseteq Req
  <2> DEFINE Counts == executed' \in [Req -> Nat] /\ lost' \in [Req -> Nat] /\ misled' \subseteq Req
  <2> USE DEF Executes, Loses, RaisesSomewhere
  <2>1. ASSUME NEW r \in Req, Handled(r) \/ HandlerFails(r) \/ AnswersAnother(r) PROVE Counts
    BY <2>1 DEF Handled, HandlerFails, AnswersAnother, TypeOK
  <2>2. CASE WorkDone \/ WorkFails \/ AnswerRaises \/ CrashAndRestart
    BY <2>2 DEF WorkDone, WorkFails, AnswerRaises, CrashAndRestart, TypeOK
  <2> QED
    BY <2>1, <2>2, Frames DEF TypeOK
<1>f. faults' \in 0 .. MaxFault
  <2> USE DEF Fault, TypeOK
  <2>1. ASSUME NEW r \in Req, \/ request_task_result(r) \/ Requests(r)
                              \/ Handled(r) \/ HandlerFails(r) \/ AnswersAnother(r)
                              \/ CancelTask(r) \/ Claim(r)
        PROVE  faults' \in 0 .. MaxFault
    BY <2>1 DEF request_task_result, Requests, CallFails, InsertTask, TakeAnswer, GiveUp, FindAnswer,
       Handled, HandlerFails, AnswersAnother, CancelTask, Claim
  <2>2. CASE Works \/ CrashAndRestart
    <3>1. CASE WorkFails \/ AnswerRaises \/ CrashAndRestart
      BY <3>1 DEF WorkFails, AnswerRaises, CrashAndRestart
    <3>2. CASE WorkDone \/ Answer \/ CompleteTask \/ FailTask \/ AnswerFailed
      BY <3>2 DEF WorkDone, Answer, CompleteTask, FailTask, AnswerFailed
    <3> QED
      BY <2>2, <3>1, <3>2 DEF Works
  <2>3. CASE SelectEvents \/ Acknowledge \/ \E e \in Event : SendAlert(e) \/ SendFails(e)
    BY <2>3 DEF SelectEvents, Acknowledge, SendAlert, SendFails
  <2> QED
    BY <2>1, <2>2, <2>3 DEF Next, vars
<1> QED
  BY <1>c, <1>s, <1>q, <1>e, <1>a, <1>h, <1>f DEF TypeOK, EventRecord

(***************************************************************************)
(* Answers                                                                 *)
(***************************************************************************)

\* How a row of events changes: the queue loop writes the next one, and what
\* is there is only marked as read.
LEMMA EventWritten ==
  ASSUME TypeOK, Events, [Next]_vars, NEW e \in Event
  PROVE  /\ event[e].req # None => event'[e].req = event[e].req /\ event'[e].ok = event[e].ok
         /\ \/ event'[e].req = event[e].req /\ event'[e].ok = event[e].ok /\ UNCHANGED nextEvent
            \/ e # nextEvent /\ event'[e] = event[e] /\ nextEvent' = nextEvent + 1
            \/ /\ Answer \/ AnswerFailed
               /\ e = nextEvent /\ event[e] = NoEvent /\ nextEvent' = nextEvent + 1
               /\ event'[e].req = daemon.req /\ daemon.req \in Req
               /\ event'[e].ok => Answer
               /\ ~event'[e].acknowledged
         /\ event'[e].acknowledged /\ ~event[e].acknowledged
              => \/ \E r \in Req : TakeAnswer(r) /\ call[r].event = e
                 \/ Acknowledge /\ alerts.sent = e
<1> USE RequestAssumption
<1>t. event \in [Event -> EventRecord]
  BY DEF TypeOK, EventRecord
<1>1. CASE UNCHANGED <<event, nextEvent>>
  BY <1>1
<1>2. ASSUME NEW f, UNCHANGED nextEvent, event' = [event EXCEPT ![f].acknowledged = TRUE]
      PROVE  /\ event'[e].req = event[e].req /\ event'[e].ok = event[e].ok
             /\ event'[e] # event[e] => e = f
  BY <1>t, <1>2 DEF EventRecord
<1>3. ASSUME NEW r \in Req, TakeAnswer(r)
      PROVE  UNCHANGED nextEvent /\ event' = [event EXCEPT ![call[r].event].acknowledged = TRUE]
  BY <1>3 DEF TakeAnswer
<1>4. Acknowledge => UNCHANGED nextEvent /\ event' = [event EXCEPT ![alerts.sent].acknowledged = TRUE]
  BY DEF Acknowledge
<1>5. ASSUME Answer \/ AnswerFailed
      PROVE  /\ nextEvent' = nextEvent + 1
             /\ IF e = nextEvent
                THEN /\ event[e] = NoEvent /\ event[e].req = None
                     /\ event'[e].req = daemon.req /\ daemon.req \in Req
                     /\ event'[e].ok => Answer
                     /\ ~event'[e].acknowledged
                ELSE event'[e] = event[e]
  <2>1. daemon.req \in Req
    BY <1>5 DEF Answer, AnswerFailed, TypeOK
  <2>2. e = nextEvent => event[e] = NoEvent
    BY DEF Events, Event
  <2>3. CASE Answer
    BY <1>t, <2>1, <2>2, <2>3 DEF Answer, emit_event, NoEvent
  <2>4. CASE AnswerFailed
    BY <1>t, <2>1, <2>2, <2>4 DEF AnswerFailed, emit_event, NoEvent
  <2> QED
    BY <1>5, <2>3, <2>4
<1>6. CASE \E r \in Req : TakeAnswer(r)
  <2>r. PICK r \in Req : TakeAnswer(r)
    BY <1>6
  <2>1. PICK f : TakeAnswer(r) /\ f = call[r].event
    BY <2>r
  <2>2. UNCHANGED nextEvent /\ event' = [event EXCEPT ![f].acknowledged = TRUE]
    BY <1>3, <2>1
  <2>3. event'[e].req = event[e].req /\ event'[e].ok = event[e].ok /\ (event'[e] # event[e] => e = f)
    BY <1>2, <2>2
  <2> QED
    BY <2>1, <2>2, <2>3
<1>7. CASE Acknowledge
  <2>1. PICK f : f = alerts.sent
    OBVIOUS
  <2> QED
    BY <1>2, <1>4, <1>7, <2>1
<1>8. CASE Answer \/ AnswerFailed
  BY <1>5, <1>8
<1> QED
  BY <1>1, <1>6, <1>7, <1>8, Frames

\* How a requester comes to what it holds.
LEMMA CallWritten ==
  ASSUME TypeOK, [Next]_vars, NEW r \in Req, call'[r] # call[r]
  PROVE  \/ /\ call[r].at \in {"idle", "calling", "asking"}
            /\ call'[r].at \in {"calling", "asking", "polling"}
            /\ call'[r].event = call[r].event
         \/ call[r].at = "polling" /\ call'[r].at = "gave_up" /\ call'[r].event = call[r].event
         \/ /\ Handled(r) \/ AnswersAnother(r)
            /\ call[r].at = "calling" /\ call'[r].at = "answered"
            /\ call'[r] = [at |-> "answered", event |-> call[r].event]
         \/ /\ call[r].at = "polling" /\ call'[r].at = "found"
            /\ \E e \in Event : FindAnswer(r, e) /\ event[e].req = r /\ call'[r] = [at |-> "found", event |-> e]
         \/ /\ TakeAnswer(r) /\ call[r].at = "found" /\ call'[r].at = "answered"
            /\ call'[r] = [at |-> "answered", event |-> call[r].event]
<1>1. ASSUME NEW q \in Req, q # r PROVE
        ~ \/ request_task_result(q) \/ CallFails(q) \/ InsertTask(q)
          \/ TakeAnswer(q) \/ GiveUp(q) \/ Handled(q) \/ HandlerFails(q)
          \/ AnswersAnother(q) \/ \E e \in Event : FindAnswer(q, e)
  BY <1>1 DEF request_task_result, CallFails, InsertTask, TakeAnswer, GiveUp, Handled, HandlerFails,
     AnswersAnother, FindAnswer, Goes, TypeOK
<1>2. CASE request_task_result(r) \/ CallFails(r) \/ InsertTask(r) \/ GiveUp(r) \/ HandlerFails(r)
  BY <1>2 DEF request_task_result, CallFails, InsertTask, GiveUp, HandlerFails, Goes, TypeOK
<1>3. CASE Handled(r) \/ AnswersAnother(r)
  BY <1>3 DEF Handled, AnswersAnother, Goes, TypeOK
<1>4. ASSUME NEW e \in Event, FindAnswer(r, e)
      PROVE  /\ call[r].at = "polling" /\ event[e].req = r
             /\ call'[r] = [at |-> "found", event |-> e] /\ call'[r].at = "found"
  BY <1>4 DEF FindAnswer, TypeOK
<1>5. CASE TakeAnswer(r)
  BY <1>5 DEF TakeAnswer, Goes, TypeOK
<1>6. \/ request_task_result(r) \/ CallFails(r) \/ InsertTask(r) \/ GiveUp(r) \/ HandlerFails(r)
      \/ Handled(r) \/ AnswersAnother(r) \/ TakeAnswer(r) \/ \E e \in Event : FindAnswer(r, e)
  <2>1. ~UNCHANGED call
    OBVIOUS
  <2> QED
    BY <1>1, <2>1, Frames
<1>7. CASE \E e \in Event : FindAnswer(r, e)
  BY <1>4, <1>7
<1> QED
  BY <1>2, <1>3, <1>5, <1>6, <1>7

\* Events are in order, and requesters hold their own.
LEMMA EventsStep == TypeOK /\ Events /\ [Next]_vars => Events'
<1> SUFFICES ASSUME TypeOK, Events, [Next]_vars PROVE Events'
  OBVIOUS
<1> USE RequestAssumption
<1>1. ASSUME NEW e \in Event
      PROVE  IF e < nextEvent' THEN event'[e].req \in Req ELSE event'[e] = NoEvent
  <2>1. nextEvent \in Nat /\ e \in Nat
    BY DEF TypeOK, Event
  <2>2. CASE event'[e].req = event[e].req /\ event'[e].ok = event[e].ok /\ UNCHANGED nextEvent
    <3>1. CASE e < nextEvent
      BY <2>2, <3>1 DEF Events
    <3>2. CASE ~(e < nextEvent)
      <4>1. event[e] = NoEvent
        BY <3>2 DEF Events
      <4>2. ASSUME NEW f, event' = [event EXCEPT ![f].acknowledged = TRUE] PROVE event'[e] = event[e]
        <5>1. [NoEvent EXCEPT !.acknowledged = TRUE] = NoEvent
          <6>1. \A x \in EventRecord : x.acknowledged = TRUE => [x EXCEPT !.acknowledged = TRUE] = x
            BY DEF EventRecord
          <6>2. NoEvent \in EventRecord /\ NoEvent.acknowledged = TRUE
            BY DEF EventRecord, NoEvent
          <6> QED
            BY <6>1, <6>2
        <5>2. event'[e] = IF e = f THEN [event[e] EXCEPT !.acknowledged = TRUE] ELSE event[e]
          BY <4>2 DEF TypeOK
        <5> QED
          BY <4>1, <5>1, <5>2
      <4>3. ~Answer /\ ~AnswerFailed
        BY <2>1, <2>2 DEF Answer, AnswerFailed, emit_event
      <4>4. event'[e] = event[e]
        <5>1. CASE Acknowledge
          <6>1. PICK f : f = alerts.sent
            OBVIOUS
          <6> QED
            BY <4>2, <5>1, <6>1 DEF Acknowledge
        <5>2. CASE \E r \in Req : TakeAnswer(r)
          <6>1. PICK r \in Req : TakeAnswer(r)
            BY <5>2
          <6> QED
            BY <4>2, <6>1 DEF TakeAnswer
        <5> QED
          BY <4>3, <5>1, <5>2, Frames
      <4> QED
        BY <2>2, <3>2, <4>1, <4>4
    <3> QED
      BY <3>1, <3>2
  <2>3. CASE e # nextEvent /\ event'[e] = event[e] /\ nextEvent' = nextEvent + 1
    BY <2>1, <2>3 DEF Events
  <2>4. CASE e = nextEvent /\ nextEvent' = nextEvent + 1 /\ event'[e].req \in Req
    BY <2>1, <2>4
  <2> QED
    BY <2>2, <2>3, <2>4, EventWritten
<1>2. ASSUME NEW r \in Req
      PROVE  IF call'[r].at \in {"found", "answered"}
             THEN call'[r].event # 0 => event'[call'[r].event].req = r
             ELSE call'[r].event = 0
  <2>1. ASSUME NEW e \in Event, event[e].req = r PROVE event'[e].req = r
    BY <2>1, EventWritten
  <2>2. CASE call'[r] = call[r]
    <3>1. call[r].event # 0 => call[r].event \in Event
      BY DEF TypeOK, Event
    <3> QED
      BY <2>1, <2>2, <3>1 DEF Events
  <2>3. CASE call'[r] # call[r]
    <3>1. call[r].event # 0 => call[r].event \in Event
      BY DEF TypeOK, Event
    <3>2. ASSUME NEW e \in Event, event[e].req = r, call'[r] = [at |-> "found", event |-> e]
          PROVE  event'[call'[r].event].req = r /\ call'[r].at = "found"
      BY <2>1, <3>2
    <3>3. CASE /\ call[r].at \in {"idle", "calling", "asking", "polling"}
               /\ call'[r].at \in {"calling", "asking", "polling", "gave_up"}
               /\ call'[r].event = call[r].event
      BY <3>3 DEF Events
    <3>4. CASE /\ call[r].at \in {"calling", "found"}
               /\ call'[r] = [at |-> "answered", event |-> call[r].event]
      <4>1. CASE call[r].event # 0
        <5>1. PICK e \in Event : e = call[r].event /\ event[e].req = r
          BY <3>1, <3>4, <4>1 DEF Events
        <5> QED
          BY <2>1, <3>4, <5>1
      <4>2. CASE call[r].event = 0
        BY <3>4, <4>2
      <4> QED
        BY <4>1, <4>2
    <3> QED
      BY <2>3, <3>2, <3>3, <3>4, CallWritten
  <2> QED
    BY <2>2, <2>3
<1>3. alerts'.sent # 0 => alerts'.sent \in alerted'
  <2>1. CASE SelectEvents
    BY <2>1 DEF SelectEvents, historyVars, Events
  <2>2. CASE Acknowledge
    BY <2>2 DEF Acknowledge
  <2>3. ASSUME NEW e \in Event, SendAlert(e) \/ SendFails(e)
        PROVE  alerts'.sent # 0 => alerts'.sent \in alerted'
    BY <2>3 DEF SendAlert, SendFails, historyVars, TypeOK, Events
  <2>4. CASE UNCHANGED <<alerts, alerted>>
    BY <2>4 DEF Events
  <2> QED
    BY <2>1, <2>2, <2>3, <2>4, Frames
<1> QED
  BY <1>1, <1>2, <1>3 DEF Events

\* What a step does to the count of a request's executions and of the lost ones:
\* one that is not lost at once is told over A2A, or the queue loop has it in hand.
LEMMA Executions ==
  ASSUME TypeOK, [Next]_vars, NEW r \in Req
  PROVE  /\ executed[r] \in Nat /\ lost[r] \in Nat
         /\ \/ executed'[r] = executed[r] /\ lost'[r] = lost[r]
            \/ executed'[r] = executed[r] + 1 /\ lost'[r] = lost[r] + 1
            \/ executed'[r] = executed[r] /\ lost'[r] = lost[r] + 1
            \/ /\ executed'[r] = executed[r] + 1 /\ lost'[r] = lost[r]
               /\ \/ Handled(r) /\ call[r].at = "calling" /\ Goes(r, "answered")
                  \/ WorkDone /\ daemon.req = r
         /\ Handled(r) => executed'[r] = executed[r] + 1
         /\ AnswersAnother(r) => r \in misled'
         /\ r \in misled => r \in misled'
<1> USE DEF Executes, Loses, RaisesSomewhere
<1>t. /\ executed \in [Req -> Nat] /\ lost \in [Req -> Nat]
      /\ executed[r] \in Nat /\ lost[r] \in Nat
  BY DEF TypeOK
<1>m. (AnswersAnother(r) => r \in misled') /\ (Handled(r) => executed'[r] = executed[r] + 1)
  BY <1>t DEF AnswersAnother, Handled
<1> DEFINE Count ==
      /\ \/ executed'[r] = executed[r] /\ lost'[r] = lost[r]
         \/ executed'[r] = executed[r] + 1 /\ lost'[r] = lost[r] + 1
         \/ executed'[r] = executed[r] /\ lost'[r] = lost[r] + 1
         \/ /\ executed'[r] = executed[r] + 1 /\ lost'[r] = lost[r]
            /\ \/ Handled(r) /\ call[r].at = "calling" /\ Goes(r, "answered")
               \/ WorkDone /\ daemon.req = r
      /\ r \in misled => r \in misled'
<1>1. ASSUME NEW q \in Req, Handled(q) PROVE Count
  <2>1. /\ executed' = [executed EXCEPT ![q] = executed[q] + 1] /\ UNCHANGED misled
        /\ \/ lost' = lost /\ call[q].at = "calling" /\ Goes(q, "answered")
           \/ lost' = [lost EXCEPT ![q] = lost[q] + 1]
    BY <1>1 DEF Handled
  <2>2. CASE q = r
    BY <1>t, <1>1, <2>1, <2>2
  <2>3. CASE q # r
    BY <1>t, <2>1, <2>3
  <2> QED
    BY <2>2, <2>3
<1>2. ASSUME NEW q \in Req, HandlerFails(q) \/ AnswersAnother(q) PROVE Count
  BY <1>t, <1>2 DEF HandlerFails, AnswersAnother
<1>3. ASSUME WorkDone PROVE Count
  BY <1>t, <1>3 DEF WorkDone
<1>4. ASSUME WorkFails \/ AnswerRaises \/ CrashAndRestart PROVE Count
  BY <1>t, <1>4 DEF WorkFails, AnswerRaises, CrashAndRestart
<1>5. ASSUME UNCHANGED <<executed, lost, misled>> PROVE Count
  BY <1>5
<1>6. Count
  BY <1>1, <1>2, <1>3, <1>4, <1>5, Frames
<1> QED
  BY <1>t, <1>m, <1>6

\* What says that the work was done is true.
LEMMA TruthStep ==
  ASSUME TypeOK, Events, Truth, [Next]_vars
  PROVE  Truth'
<1> USE RequestAssumption
<1>x. ASSUME NEW r \in Req, executed[r] > 0 PROVE executed'[r] > 0
  BY <1>x, Executions
<1>1. ASSUME NEW e \in Event, event'[e].req \in Req, event'[e].ok
      PROVE  executed'[event'[e].req] > 0
  <2>1. CASE event'[e].req = event[e].req /\ event'[e].ok = event[e].ok
    BY <1>x, <1>1, <2>1 DEF Truth
  <2>2. CASE Answer /\ event'[e].req = daemon.req
    <3>1. executed[daemon.req] > 0 /\ daemon.req \in Req
      BY <1>1, <2>2 DEF Answer, Truth
    <3>2. executed' = executed
      BY <2>2 DEF Answer, historyVars
    <3> QED
      BY <2>2, <3>1, <3>2
  <2> QED
    BY <1>1, <2>1, <2>2, EventWritten
<1>2. ASSUME daemon'.at \in {"done", "complete"} PROVE executed'[daemon'.req] > 0
  <2>1. CASE WorkDone
    <3>1. daemon.req \in Req /\ daemon'.req = daemon.req
          /\ executed' = [executed EXCEPT ![daemon.req] = executed[daemon.req] + 1]
      BY <2>1 DEF WorkDone, Daemon, Executes, TypeOK
    <3> QED
      BY <3>1 DEF TypeOK
  <2>2. CASE Answer
    <3>1. executed[daemon.req] > 0 /\ daemon.req \in Req /\ daemon'.req = daemon.req /\ executed' = executed
      BY <2>2 DEF Answer, Daemon, Truth, TypeOK, historyVars
    <3> QED
      BY <3>1
  <2>3. CASE UNCHANGED daemon
    <3>1. daemon.req \in Req /\ executed[daemon.req] > 0 /\ daemon' = daemon
      BY <1>2, <2>3 DEF Truth, TypeOK
    <3>2. PICK r \in Req : r = daemon.req
      BY <3>1
    <3> QED
      BY <1>x, <3>1, <3>2
  <2>4. ASSUME NEW r \in Req, InsertTask(r) \/ Claim(r)
        PROVE  UNCHANGED daemon \/ daemon'.at = "handling"
    BY <2>4 DEF InsertTask, Claim, Daemon
  <2>5. ASSUME WorkFails \/ CompleteTask \/ AnswerRaises \/ FailTask \/ AnswerFailed \/ CrashAndRestart
        PROVE  daemon'.at \in {"idle", "failed", "excuse"}
    <3>1. \E at \in {"idle", "failed", "excuse"} : \E q : daemon' = [at |-> at, req |-> q]
      BY <2>5 DEF WorkFails, CompleteTask, AnswerRaises, FailTask, AnswerFailed, CrashAndRestart, Daemon
    <3> QED
      BY <3>1
  <2> QED
    BY <1>2, <2>1, <2>2, <2>3, <2>4, <2>5, Frames DEF Works
<1>3. ASSUME NEW r \in Req, call'[r].at = "answered", call'[r].event = 0, r \notin misled'
      PROVE  executed'[r] > 0
  <2>1. CASE call'[r] = call[r]
    BY <1>x, <1>3, <2>1, Executions DEF Truth
  <2>2. CASE call'[r] # call[r]
    <3>1. ~(call[r].at = "found" /\ call'[r] = [at |-> "answered", event |-> call[r].event])
      BY <1>3 DEF TypeOK, Event
    <3>2. Handled(r)
      BY <1>3, <2>2, <3>1, CallWritten, Executions
    <3> QED
      BY <3>2, Executions
  <2> QED
    BY <2>1, <2>2
<1> QED
  BY <1>1, <1>2, <1>3 DEF Truth

\* How the row of a request and the loop that may have it in hand change.
LEMMA RowWritten ==
  ASSUME TypeOK, Holding, [Next]_vars, NEW r \in Req
  PROVE  /\ row'[r] # row[r] =>
              \/ row[r] = "none" /\ call[r].at = "asking"
              \/ row[r] \in {"pending", "failed", "running"}
         /\ daemon.req = r /\ daemon.at \in {"done", "complete"} =>
              \/ daemon'.req = r /\ daemon'.at \in {"done", "complete"}
              \/ row'[r] = "completed"
              \/ executed'[r] = executed[r] /\ lost'[r] = lost[r] + 1
<1>1. ASSUME NEW q \in Req, InsertTask(q) \/ Claim(q)
      PROVE  /\ row'[r] # row[r] => \/ row[r] = "none" /\ call[r].at = "asking"
                                    \/ row[r] \in {"pending", "failed"}
             /\ UNCHANGED daemon \/ daemon.at = "idle"
  <2>1. CASE InsertTask(q)
    BY <2>1 DEF InsertTask, Holding, TypeOK
  <2>2. CASE Claim(q)
    BY <2>2 DEF Claim, TypeOK
  <2> QED
    BY <1>1, <2>1, <2>2
<1>2. CASE WorkDone \/ WorkFails \/ AnswerFailed
  BY <1>2 DEF WorkDone, WorkFails, AnswerFailed
<1>3. CASE Answer
  BY <1>3 DEF Answer, Daemon
<1>4. CASE CompleteTask \/ FailTask
  <2>1. row[daemon.req] = "running" /\ daemon.req \in Req
    BY <1>4 DEF CompleteTask, FailTask, Holding, TypeOK
  <2>2. CASE CompleteTask
    BY <2>1, <2>2 DEF CompleteTask, TypeOK
  <2>3. CASE FailTask
    BY <2>1, <2>3 DEF FailTask, TypeOK
  <2> QED
    BY <1>4, <2>2, <2>3
<1>5. CASE AnswerRaises
  BY <1>5 DEF AnswerRaises, Loses, TypeOK
<1>6. CASE CrashAndRestart
  BY <1>6 DEF CrashAndRestart, Loses, TypeOK
<1>7. CASE UNCHANGED <<row, retry, daemon>>
  BY <1>7
<1> QED
  BY <1>1, <1>2, <1>3, <1>4, <1>5, <1>6, <1>7, Frames DEF Works

\* What is booked stays so, until the answer or the write-back fails.
LEMMA BookedStep ==
  ASSUME TypeOK, Holding, [Next]_vars, NEW r \in Req, Booked(r)
  PROVE  Booked(r)' \/ (executed'[r] = executed[r] /\ lost'[r] = lost[r] + 1)
<1>1. CASE call[r].at = "answered" /\ call[r].event = 0
  <2>1. call'[r] = call[r]
    BY <1>1, CallWritten
  <2> QED
    BY <1>1, <2>1 DEF Booked
<1>2. CASE row[r] = "completed"
  BY <1>2, RowWritten DEF Booked
<1>3. CASE daemon.req = r /\ daemon.at \in {"done", "complete"}
  BY <1>3, RowWritten DEF Booked
<1> QED
  BY <1>1, <1>2, <1>3 DEF Booked

\* A second execution is booked only after the first one was lost.
LEMMA OnceStep ==
  ASSUME TypeOK, Holding, Events, Once, [Next]_vars
  PROVE  Once'
<1> SUFFICES ASSUME NEW r \in Req PROVE Accounted(r)'
  BY DEF Once
<1> USE RequestAssumption
<1>d. Accounted(r) /\ executed[r] \in Nat /\ lost[r] \in Nat
  BY Executions DEF Once
<1>h. ASSUME Handled(r), call[r].at = "calling", Goes(r, "answered")
      PROVE  ~Booked(r) /\ Booked(r)'
  <2>1. call'[r].at = "answered" /\ call'[r].event = 0 /\ row[r] = "none"
    BY <1>h DEF Goes, Holding, Events, TypeOK
  <2> QED
    BY <1>h, <2>1 DEF Booked, Holding
<1>w. ASSUME WorkDone, daemon.req = r PROVE ~Booked(r) /\ Booked(r)'
  <2>1. row[r] = "running" /\ daemon.at = "handling" /\ daemon' = [at |-> "done", req |-> r]
    BY <1>w DEF WorkDone, Daemon, Holding
  <2> QED
    BY <1>d, <2>1 DEF Booked, Accounted
<1>1. executed'[r] <= lost'[r] + IF Booked(r)' THEN 1 ELSE 0
  <2>1. CASE executed'[r] = executed[r] /\ lost'[r] = lost[r] + 1
    BY <1>d, <2>1 DEF Accounted
  <2>2. CASE ~(executed'[r] = executed[r] /\ lost'[r] = lost[r] + 1)
    <3>1. Booked(r) => Booked(r)'
      BY <2>2, BookedStep
    <3> QED
      BY <1>d, <1>h, <1>w, <2>2, <3>1, Executions DEF Accounted
  <2> QED
    BY <2>1, <2>2
<1>2. ASSUME call'[r].at = "answered", call'[r].event = 0 PROVE row'[r] = "none"
  <2>1. CASE call'[r] = call[r]
    BY <1>d, <1>2, <2>1, RowWritten DEF Accounted
  <2>2. CASE call'[r] # call[r]
    <3>1. ~(call[r].at = "found" /\ call'[r] = [at |-> "answered", event |-> call[r].event])
      BY <1>2 DEF TypeOK, Event
    <3>2. (Handled(r) \/ AnswersAnother(r)) /\ call[r].at = "calling"
      BY <1>2, <2>2, <3>1, CallWritten
    <3> QED
      BY <3>2 DEF Handled, AnswersAnother, Holding, queueVars
  <2> QED
    BY <2>1, <2>2
<1> QED
  BY <1>1, <1>2 DEF Accounted

\* Who marks an event as read has sent it, or has it.
LEMMA SeenStep ==
  ASSUME TypeOK, Events, EventsAreSeen, [Next]_vars
  PROVE  EventsAreSeen'
<1> SUFFICES ASSUME NEW e \in Event, event'[e].acknowledged, event'[e].req # None
             PROVE  e \in alerted' \/ call'[event'[e].req] = [at |-> "answered", event |-> e]
  BY DEF EventsAreSeen
<1> USE RequestAssumption
<1>a. alerted \subseteq alerted'
  BY Frames DEF SelectEvents, Acknowledge, SendAlert, SendFails, historyVars
<1>r. event'[e].req = event[e].req /\ event[e].req \in Req
  <2>1. event'[e].req = event[e].req
    BY EventWritten
  <2>2. event[e].req \in Req
    BY <2>1, RequestAssumption DEF Events, NoEvent
  <2> QED
    BY <2>1, <2>2
<1>1. CASE event[e].acknowledged
  <2>1. CASE e \in alerted
    BY <1>a, <2>1
  <2>2. CASE call[event[e].req] = [at |-> "answered", event |-> e]
    <3>1. PICK r \in Req : r = event[e].req
      BY <1>r
    <3>2. call[r].at = "answered"
      BY <2>2, <3>1
    <3>3. call'[r] = call[r]
      BY <3>2, CallWritten
    <3> QED
      BY <1>r, <2>2, <3>1, <3>3
  <2> QED
    BY <1>1, <1>r, <2>1, <2>2 DEF EventsAreSeen
<1>2. CASE ~event[e].acknowledged
  <2>1. CASE Acknowledge /\ alerts.sent = e
    <3>1. e # 0
      BY DEF Event
    <3> QED
      BY <1>a, <2>1, <3>1 DEF Events
  <2>2. ASSUME NEW r \in Req, TakeAnswer(r), call[r].event = e
        PROVE  call'[event'[e].req] = [at |-> "answered", event |-> e]
    <3>1. e # 0 /\ call[r].at = "found"
      BY <2>2 DEF Event, TakeAnswer
    <3>2. event[e].req = r
      BY <2>2, <3>1 DEF Events
    <3>3. call'[r] = [at |-> "answered", event |-> e]
      BY <2>2 DEF TakeAnswer, Goes, TypeOK
    <3> QED
      BY <1>r, <3>2, <3>3
  <2> QED
    BY <1>2, <2>1, <2>2, EventWritten
<1> QED
  BY <1>1, <1>2

\* The server counts as everybody does.
LEMMA SameCardinality == \A S : Server!Cardinality(S) = Cardinality(S)
  BY DEF Server!Cardinality, Cardinality

\* The dict of tasks is pruned when a handler has ended.
LEMMA KeptStep ==
  ASSUME TypeOK, Kept, [Next]_vars
  PROVE  Kept'
<1> DEFINE Ended == {r \in tasks \ handling : state[r] = "completed"}
<1> USE RequestAssumption
<1>f. IsFiniteSet(tasks) /\ Cardinality(Ended) <= TaskLimit
  BY DEF Kept, TasksAreBounded
<1>e. IsFiniteSet(Ended) /\ Cardinality(Ended) \in Nat
  BY <1>f, FS_Subset, FS_CardinalityType
<1>1. ASSUME IsFiniteSet(tasks'), Ended' \subseteq Ended PROVE Kept'
  <2>1. Cardinality(Ended') <= Cardinality(Ended) /\ Cardinality(Ended') \in Nat
    BY <1>1, <1>e, FS_Subset, FS_CardinalityType
  <2> QED
    BY <1>1, <1>e, <1>f, <2>1 DEF Kept, TasksAreBounded
<1>2. ASSUME IsFiniteSet(tasks'), Cardinality(tasks') <= TaskLimit PROVE Kept'
  <2>1. Ended' \subseteq tasks'
    OBVIOUS
  <2>2. /\ Cardinality(Ended') <= Cardinality(tasks') /\ Cardinality(Ended') \in Nat
        /\ Cardinality(tasks') \in Nat
    BY <1>2, <2>1, FS_Subset, FS_CardinalityType
  <2> QED
    BY <1>2, <2>2 DEF Kept, TasksAreBounded
<1>3. ASSUME NEW r \in Req, NEW o \in {"completed", "failed"}, Server!HandlerEnds(r, o) PROVE Kept'
  <2>1. CASE Cardinality(tasks) > TaskLimit
    <3>1. tasks' \subseteq tasks /\ Cardinality(tasks') = TaskLimit
      BY <1>3, <2>1, SameCardinality DEF Server!HandlerEnds, Server!Pruned
    <3>2. IsFiniteSet(tasks')
      BY <1>f, <3>1, FS_Subset
    <3> QED
      BY <1>2, <3>1, <3>2
  <2>2. CASE ~(Cardinality(tasks) > TaskLimit)
    <3>1. tasks' = tasks
      BY <1>3, <2>2, SameCardinality DEF Server!HandlerEnds, Server!Pruned
    <3>2. Cardinality(tasks) \in Nat
      BY <1>f, FS_CardinalityType
    <3> QED
      BY <1>2, <1>f, <2>2, <3>1, <3>2
  <2> QED
    BY <2>1, <2>2
<1>4. ASSUME NEW r \in Req, request_task_result(r) PROVE Kept'
  <2>1. CASE Server!handle_send(r) \/ Server!Blocked(r)
    <3>1. tasks' = tasks \cup {r} /\ (handling' = handling \cup {r} \/ state'[r] = "failed")
      BY <2>1 DEF Server!handle_send, Server!Blocked, TypeOK
    <3>2. IsFiniteSet(tasks')
      BY <1>f, <3>1, FS_AddElement
    <3>3. \A q \in Req : q # r => state'[q] = state[q] /\ (q \in handling' <=> q \in handling)
      BY <2>1 DEF Server!handle_send, Server!Blocked, TypeOK
    <3>4. Ended' \subseteq Ended
      BY <3>1, <3>3 DEF TypeOK
    <3> QED
      BY <1>1, <3>2, <3>4
  <2>2. CASE UNCHANGED serverVars
    BY <1>f, <1>1, <2>2 DEF serverVars
  <2> QED
    BY <1>4, <2>1, <2>2 DEF request_task_result
<1>5. ASSUME NEW r \in Req, CancelTask(r) PROVE Kept'
  <2>1. /\ tasks' = tasks /\ handling' = handling
        /\ \A q \in Req : state'[q] = state[q] \/ state'[q] = "canceled"
    BY <1>5 DEF CancelTask, Server!handle_cancel, TypeOK
  <2>2. Ended' \subseteq Ended
    BY <2>1 DEF TypeOK
  <2> QED
    BY <1>1, <1>f, <2>1, <2>2
<1>6. CASE CrashAndRestart
  <2>1. tasks' = {}
    BY <1>6 DEF CrashAndRestart, Server!ServerRestarts
  <2>2. IsFiniteSet(tasks') /\ Ended' \subseteq Ended
    BY <2>1, FS_EmptySet
  <2> QED
    BY <1>1, <2>2
<1>7. CASE UNCHANGED <<state, tasks, handling>>
  BY <1>f, <1>1, <1>7
<1>8. ASSUME NEW r \in Req, Handled(r) \/ HandlerFails(r) \/ AnswersAnother(r) PROVE Kept'
  <2>1. \E o \in {"completed", "failed"} : Server!HandlerEnds(r, o)
    BY <1>8 DEF Handled, HandlerFails, AnswersAnother
  <2> QED
    BY <1>3, <2>1
<1> QED
  BY <1>4, <1>5, <1>6, <1>7, <1>8, Frames

(***************************************************************************)
(* Theorems                                                                *)
(***************************************************************************)

LEMMA Invariance == Spec => []IInv
<1>1. Init => IInv
  <2> SUFFICES ASSUME Init PROVE IInv
    OBVIOUS
  <2> USE RequestAssumption DEF Init, Server!ServerInit
  <2>1. TypeOK
    <3>1. [r \in Req |-> [at |-> "idle", event |-> 0]] \in
            [Req -> [at : {"idle", "calling", "asking", "polling", "found", "answered", "gave_up"},
                     event : 0 .. MaxEvent]]
      OBVIOUS
    <3> QED
      BY <3>1 DEF TypeOK, NoEvent
  <2>2. Holding /\ Once /\ Truth /\ Events /\ EventsAreSeen
    BY DEF Holding, Once, Accounted, Truth, Events, EventsAreSeen, NoEvent, Event
  <2>3. Kept
    <3>1. {r \in tasks \ handling : state[r] = "completed"} = {}
      OBVIOUS
    <3> QED
      BY <3>1, FS_EmptySet DEF Kept, TasksAreBounded
  <2> QED
    BY <2>1, <2>2, <2>3 DEF IInv
<1>2. IInv /\ [Next]_vars => IInv'
  BY TypeStep, EventsStep, TruthStep, OnceStep, SeenStep, KeptStep DEF IInv
<1> QED
  BY <1>1, <1>2, PTL DEF Spec

\* Every variable keeps its type, and no row is retried past its limit.
THEOREM TypeCorrect == Spec => []TypeOK
  BY Invariance, PTL DEF IInv

\* An answer that says the work was done is true, for any interleaving of the
\* call, the queue, the poll and Hermes' alerts (comms.py:103-160).
THEOREM TrueAnswers == Spec => []AnswersAreTrue
<1>1. IInv => AnswersAreTrue
  <2> SUFFICES ASSUME IInv, NEW r \in Req, call[r].at = "answered",
                      IF call[r].event = 0 THEN r \notin misled ELSE event[call[r].event].ok
               PROVE  executed[r] > 0
    BY DEF AnswersAreTrue
  <2>1. CASE call[r].event = 0
    BY <2>1 DEF IInv, Truth
  <2>2. CASE call[r].event # 0
    <3>1. call[r].event \in Event /\ event[call[r].event].req = r
      BY <2>2, RequestAssumption DEF IInv, Events, TypeOK, Event
    <3> QED
      BY <2>2, <3>1 DEF IInv, Truth
  <2> QED
    BY <2>1, <2>2
<1> QED
  BY <1>1, Invariance, PTL

\* All executions of a request but one were lost: work whose requester was told,
\* or whose row is completed, is never done again, for any requests, faults and
\* crashes (comms.py:103, daemon.py:818-827).
THEOREM OneExecution == Spec => []WorkIsDoneOnce
<1>1. IInv => WorkIsDoneOnce
  <2> SUFFICES ASSUME IInv, NEW r \in Req PROVE executed[r] <= 1 + lost[r]
    BY DEF WorkIsDoneOnce
  <2>1. executed[r] \in Nat /\ lost[r] \in Nat /\ Accounted(r)
    BY DEF IInv, Once, TypeOK
  <2> QED
    BY <2>1 DEF Accounted
<1> QED
  BY <1>1, Invariance, PTL

\* No event is marked as read that neither Hermes sent nor its requester holds
\* (alerts.py:46, comms.py:149).
THEOREM NothingUnseen == Spec => []EventsAreSeen
  BY Invariance, PTL DEF IInv

\* The A2A server keeps no more ended tasks than its limit, however many
\* handlers run at the same time (a2a_wrapper.py:188).
THEOREM BoundedTasks == Spec => []TasksAreBounded
<1>1. IInv => TasksAreBounded
  BY DEF IInv, Kept
<1> QED
  BY <1>1, Invariance, PTL

(***************************************************************************)
(* The rows of the requests implement a queue that leases jobs.            *)
(***************************************************************************)

LEMMA InitLeases == Init => Lease!LeaseInit
BY DEF Init, Lease!LeaseInit, PhaseOf

\* A row that is inserted is submitted.
LEMMA InsertLeases ==
  ASSUME TypeOK, Holding, NEW r \in Req, InsertTask(r)
  PROVE  Lease!Submit(r)
<1>1. row[r] = "none" /\ UNCHANGED retry /\ row' = [row EXCEPT ![r] = "pending"]
  BY DEF InsertTask, Holding
<1> QED
  BY <1>1 DEF TypeOK, PhaseOf, Lease!Submit

LEMMA ClaimLeases ==
  ASSUME TypeOK, NEW r \in Req, Claim(r)
  PROVE  Lease!Lease(r, "clawdbot")
BY DEF Claim, TypeOK, PhaseOf, Lease!Lease

\* Only what ClawdBot has in hand is ended, and it holds the lease of that.
LEMMA CompleteLeases ==
  ASSUME TypeOK, Holding, CompleteTask
  PROVE  daemon.req \in Req /\ Lease!Finish(daemon.req, "clawdbot")
<1>1. daemon.req \in Req /\ row[daemon.req] = "running"
  BY DEF CompleteTask, TypeOK, Holding
<1> QED
  BY <1>1 DEF CompleteTask, TypeOK, PhaseOf, Lease!Finish

\* A row that is still leased has not failed too often.
LEMMA FailLeases ==
  ASSUME TypeOK, Holding, FailTask
  PROVE  daemon.req \in Req /\ Lease!GiveUp(daemon.req, "clawdbot")
<1>1. PICK r \in Req : r = daemon.req
  BY DEF FailTask, TypeOK
<1>2. row[r] = "running" /\ retry[r] \in Nat /\ retry[r] < RetryLimit
  BY <1>1 DEF FailTask, TypeOK, Holding
<1>3. /\ retry' = [retry EXCEPT ![r] = retry[r] + 1]
      /\ row' = [row EXCEPT ![r] = IF retry[r] + 1 = RetryLimit THEN "dead_letter" ELSE "failed"]
  <2>1. retry[r] + 1 >= RetryLimit <=> retry[r] + 1 = RetryLimit
    BY <1>2, RequestAssumption
  <2>2. row' = [row EXCEPT ![r] = IF retry[r] + 1 >= RetryLimit THEN "dead_letter" ELSE "failed"]
    BY <1>1 DEF FailTask
  <2>3. retry' = [retry EXCEPT ![r] = retry[r] + 1]
    BY <1>1 DEF FailTask
  <2> QED
    BY <2>1, <2>2, <2>3
<1> QED
  BY <1>1, <1>2, <1>3 DEF TypeOK, PhaseOf, Lease!GiveUp

\* ClawdBot's rows are the ones that are running.
LEMMA RestartLeases ==
  ASSUME TypeOK, CrashAndRestart
  PROVE  Lease!ReturnLeases("clawdbot")
BY DEF CrashAndRestart, TypeOK, PhaseOf, Lease!ReturnLeases

LEMMA LeaseStep ==
  ASSUME TypeOK, Holding, [Next]_vars
  PROVE  UNCHANGED <<row, retry>> \/ Lease!LeaseNext
<1>1. CASE WorkDone \/ WorkFails \/ Answer \/ AnswerRaises \/ AnswerFailed
  BY <1>1 DEF WorkDone, WorkFails, Answer, AnswerRaises, AnswerFailed
<1>2. ASSUME NEW r \in Req, InsertTask(r) PROVE Lease!LeaseNext
  BY <1>2, InsertLeases DEF Lease!LeaseNext
<1>3. ASSUME NEW r \in Req, Claim(r) PROVE Lease!LeaseNext
  BY <1>3, ClaimLeases DEF Lease!LeaseNext
<1>4. CASE CompleteTask \/ FailTask
  BY <1>4, CompleteLeases, FailLeases DEF Lease!LeaseNext
<1>5. CASE CrashAndRestart
  BY <1>5, RestartLeases DEF Lease!LeaseNext
<1> QED
  BY <1>1, <1>2, <1>3, <1>4, <1>5, Frames DEF Works

\* ClawdBot's rows behave as leases, whatever the requesters, the A2A server and
\* Hermes do in between (agent_base.py:193-230, comms.py:103-160).
THEOREM Refinement == Spec => ImplementsLease /\ Lease!LeaseSpec
<1>1. IInv /\ [Next]_vars => UNCHANGED <<row, retry>> \/ Lease!LeaseNext
  BY LeaseStep DEF IInv
<1>2. UNCHANGED <<row, retry>> => UNCHANGED Lease!leaseVars
  BY DEF Lease!leaseVars, PhaseOf
<1> QED
  BY <1>1, <1>2, InitLeases, Invariance, PTL DEF Spec, ImplementsLease, Lease!LeaseSpec
=============================================================================
