---------------------------- MODULE RequestReply ----------------------------
(***************************************************************************)
(* request_task_result: Titan asks ClawdBot for a piece of work and waits  *)
(* for the answer.                                                         *)
(*                                                                         *)
(* It is asked over A2A first; if that fails, through a row of task_queue, *)
(* and the answer then comes as a row of events, which the requester polls *)
(* for.  Hermes' alert loop reads the same events, and both mark what they *)
(* have read.  ClawdBot may handle one request at its A2A server and in    *)
(* its queue loop at the same time.                                        *)
(***************************************************************************)
EXTENDS Naturals, FiniteSets

CONSTANTS
  Req,         \* request ids; each is used once
  None,
  TaskLimit,   \* tasks an A2A server keeps
  RetryLimit,  \* retries of a row of task_queue
  AlertLimit,  \* the LIMIT 20 of dispatch_alerts
  MaxEvent,    \* bound: rows of events
  MaxFault     \* bound: handlers that fail, statements that raise, crashes,
               \* lost responses, cancellations

ASSUME RequestAssumption ==
  /\ None \notin Req
  /\ TaskLimit \in Nat /\ RetryLimit \in Nat \ {0} /\ AlertLimit \in Nat
  /\ MaxEvent \in Nat /\ MaxFault \in Nat

VARIABLES
  call,           \* the requester: where it is, and the event it has found
  state, tasks, handling,  \* ClawdBot's A2A server
  row, retry,     \* task_queue: status and retry_count of the request's row
  daemon,         \* ClawdBot's queue loop: the row in hand
  event, nextEvent,  \* events
  alerts,         \* Hermes: the events it selected, the one it has just sent
  faults,
  \* history
  executed,       \* how often the work was done, or begun with effect
  lost,           \* how often it was done and neither the requester was told
                  \* over A2A nor the row completed
  misled,         \* requests that were answered with the outcome of others
  alerted         \* events that Hermes has sent

Server == INSTANCE A2AServer WITH Task <- Req

serverVars  == <<state, tasks, handling>>
queueVars   == <<row, retry, daemon>>
eventVars   == <<event, nextEvent>>
historyVars == <<executed, lost, misled, alerted>>
vars == <<call, serverVars, queueVars, eventVars, alerts, faults, historyVars>>

Event == 1 .. MaxEvent
NoEvent == [req |-> None, ok |-> FALSE, acknowledged |-> TRUE]

Init ==
  /\ call = [r \in Req |-> [at |-> "idle", event |-> 0]]
  /\ Server!ServerInit
  /\ row = [r \in Req |-> "none"] /\ retry = [r \in Req |-> 0]
  /\ daemon = [at |-> "idle", req |-> None]
  /\ event = [e \in Event |-> NoEvent] /\ nextEvent = 1
  /\ alerts = [batch |-> {}, sent |-> 0]
  /\ faults = 0
  /\ executed = [r \in Req |-> 0] /\ lost = [r \in Req |-> 0]
  /\ misled = {} /\ alerted = {}

(***************************************************************************)
(* Building blocks                                                         *)
(***************************************************************************)

Fault == faults < MaxFault /\ faults' = faults + 1

Goes(r, at) == call' = [call EXCEPT ![r].at = at]

Executes(r) == executed' = [executed EXCEPT ![r] = @ + 1]

\* An execution that nobody will know of.
Loses(r) == lost' = [lost EXCEPT ![r] = @ + 1]

\* What raised may have raised before the work or after it: the handlers do the
\* work first and then await an INSERT or an event of their own.
RaisesSomewhere(r) == UNCHANGED <<executed, lost>> \/ (Executes(r) /\ Loses(r))

Daemon(at, r) == daemon' = [at |-> at, req |-> r]

emit_event(r, ok) ==
  /\ nextEvent <= MaxEvent
  /\ event' = [event EXCEPT ![nextEvent] = [req |-> r, ok |-> ok, acknowledged |-> FALSE]]
  /\ nextEvent' = nextEvent + 1

Unread(e) == ~event[e].acknowledged

(***************************************************************************)
(* The call over A2A                                                       *)
(***************************************************************************)

request_task_result(r) ==
  /\ call[r].at = "idle"
  /\ Goes(r, "calling")
  /\ \/ Server!handle_send(r)
     \/ Server!Blocked(r)
     \/ UNCHANGED serverVars    \* no server is reached
  /\ UNCHANGED <<queueVars, eventVars, alerts, faults, historyVars>>

\* The handler did the work, and its caller, if it is still there, is told, or
\* the response is lost.
Handled(r) ==
  /\ Server!HandlerEnds(r, "completed")
  /\ Executes(r)
  /\ \/ call[r].at = "calling" /\ Goes(r, "answered") /\ UNCHANGED <<lost, faults>>
     \/ /\ Loses(r)
        /\ IF call[r].at = "calling" THEN Fault ELSE UNCHANGED faults
        /\ UNCHANGED call
  /\ UNCHANGED <<queueVars, eventVars, alerts, misled, alerted>>

\* The handler raised, before the work or after it, or returned an error.
HandlerFails(r) ==
  /\ Fault
  /\ \E outcome \in {"completed", "failed"} : Server!HandlerEnds(r, outcome)
  /\ IF call[r].at = "calling" THEN Goes(r, "asking") ELSE UNCHANGED call
  /\ RaisesSomewhere(r)
  /\ UNCHANGED <<queueVars, eventVars, alerts, misled, alerted>>

\* What the handler raised was a TypeError or a JSONDecodeError: the text of the
\* request is routed again by its words, and the caller told what came of that.
AnswersAnother(r) ==
  /\ Fault
  /\ call[r].at = "calling"
  /\ Server!HandlerEnds(r, "completed")
  /\ RaisesSomewhere(r)
  /\ Goes(r, "answered")
  /\ misled' = misled \cup {r}
  /\ UNCHANGED <<queueVars, eventVars, alerts, alerted>>

\* The server was not reached, blocked the request or died, or the client's
\* timeout is over.
CallFails(r) ==
  /\ call[r].at = "calling"
  /\ Goes(r, "asking")
  /\ UNCHANGED <<serverVars, queueVars, eventVars, alerts, faults, historyVars>>

\* Somebody cancels the task.
CancelTask(r) ==
  /\ Fault
  /\ Server!handle_cancel(r)
  /\ UNCHANGED <<call, queueVars, eventVars, alerts, historyVars>>

(***************************************************************************)
(* The request in task_queue                                               *)
(***************************************************************************)

InsertTask(r) ==
  /\ call[r].at = "asking"
  /\ row' = [row EXCEPT ![r] = "pending"]
  /\ Goes(r, "polling")
  /\ UNCHANGED <<serverVars, retry, daemon, eventVars, alerts, faults, historyVars>>

\* wait_for_event: the newest unread event with the request's id.
FindAnswer(r, e) ==
  /\ call[r].at = "polling"
  /\ event[e].req = r /\ Unread(e)
  /\ \A f \in Event : event[f].req = r /\ Unread(f) => f <= e
  /\ call' = [call EXCEPT ![r] = [at |-> "found", event |-> e]]
  /\ UNCHANGED <<serverVars, queueVars, eventVars, alerts, faults, historyVars>>

TakeAnswer(r) ==
  /\ call[r].at = "found"
  /\ event' = [event EXCEPT ![call[r].event].acknowledged = TRUE]
  /\ Goes(r, "answered")
  /\ UNCHANGED <<serverVars, queueVars, nextEvent, alerts, faults, historyVars>>

GiveUp(r) ==
  /\ call[r].at = "polling"
  /\ Goes(r, "gave_up")
  /\ UNCHANGED <<serverVars, queueVars, eventVars, alerts, faults, historyVars>>

(***************************************************************************)
(* ClawdBot's queue loop                                                   *)
(***************************************************************************)

Claim(r) ==
  /\ daemon.at = "idle"
  /\ row[r] \in {"pending", "failed"}
  /\ row' = [row EXCEPT ![r] = "running"]
  /\ Daemon("handling", r)
  /\ UNCHANGED <<call, serverVars, retry, eventVars, alerts, faults, historyVars>>

\* A wrong version: the answer goes out before the work is done.
AnswerEarly ==
  /\ daemon.at = "handling"
  /\ emit_event(daemon.req, TRUE)
  /\ Daemon("complete", daemon.req)
  /\ UNCHANGED <<call, serverVars, row, retry, alerts, faults, historyVars>>

WorkDone ==
  /\ daemon.at = "handling"
  /\ Executes(daemon.req)
  /\ Daemon("done", daemon.req)
  /\ UNCHANGED <<call, serverVars, row, retry, eventVars, alerts, faults, lost, misled, alerted>>

\* The handler raised, before the work or after it.
WorkFails ==
  /\ daemon.at = "handling"
  /\ Fault
  /\ RaisesSomewhere(daemon.req)
  /\ Daemon("failed", daemon.req)
  /\ UNCHANGED <<call, serverVars, row, retry, eventVars, alerts, misled, alerted>>

\* The task_result event comes before the write-back.
Answer ==
  /\ daemon.at = "done"
  /\ emit_event(daemon.req, TRUE)
  /\ Daemon("complete", daemon.req)
  /\ UNCHANGED <<call, serverVars, row, retry, alerts, faults, historyVars>>

\* A wrong version: the row is left to be claimed again.
CompleteTaskNot ==
  /\ daemon.at = "complete"
  /\ row' = [row EXCEPT ![daemon.req] = "pending"]
  /\ Daemon("idle", None)
  /\ UNCHANGED <<call, serverVars, retry, eventVars, alerts, faults, historyVars>>

CompleteTask ==
  /\ daemon.at = "complete"
  /\ row' = [row EXCEPT ![daemon.req] = "completed"]
  /\ Daemon("idle", None)
  /\ UNCHANGED <<call, serverVars, retry, eventVars, alerts, faults, historyVars>>

\* The event or the write-back raises: work that was done counts as failed.
AnswerRaises ==
  /\ daemon.at \in {"done", "complete"}
  /\ Fault
  /\ Loses(daemon.req)
  /\ Daemon("failed", daemon.req)
  /\ UNCHANGED <<call, serverVars, row, retry, eventVars, alerts, executed, misled, alerted>>

\* A wrong version: the limit is passed once.
FailTaskOnceMore ==
  /\ daemon.at = "failed"
  /\ retry' = [retry EXCEPT ![daemon.req] = @ + 1]
  /\ row' = [row EXCEPT ![daemon.req] =
               IF retry[daemon.req] + 1 > RetryLimit THEN "dead_letter" ELSE "failed"]
  /\ Daemon("excuse", daemon.req)
  /\ UNCHANGED <<call, serverVars, eventVars, alerts, faults, historyVars>>

FailTask ==
  /\ daemon.at = "failed"
  /\ retry' = [retry EXCEPT ![daemon.req] = @ + 1]
  /\ row' = [row EXCEPT ![daemon.req] =
               IF retry[daemon.req] + 1 >= RetryLimit THEN "dead_letter" ELSE "failed"]
  /\ Daemon("excuse", daemon.req)
  /\ UNCHANGED <<call, serverVars, eventVars, alerts, faults, historyVars>>

\* The event that says so comes after the write-back.
AnswerFailed ==
  /\ daemon.at = "excuse"
  /\ emit_event(daemon.req, FALSE)
  /\ Daemon("idle", None)
  /\ UNCHANGED <<call, serverVars, row, retry, alerts, faults, historyVars>>

\* ClawdBot dies; when it starts again it requeues the rows it was running.
CrashAndRestart ==
  /\ Fault
  /\ Server!ServerRestarts
  /\ row' = [r \in Req |-> IF row[r] = "running" THEN "pending" ELSE row[r]]
  /\ IF daemon.at \in {"done", "complete"} THEN Loses(daemon.req) ELSE UNCHANGED lost
  /\ Daemon("idle", None)
  /\ UNCHANGED <<call, retry, eventVars, alerts, executed, misled, alerted>>

(***************************************************************************)
(* Hermes: dispatch_alerts                                                 *)
(***************************************************************************)

SelectEvents ==
  LET unread == {e \in Event : Unread(e)} IN
    /\ alerts = [batch |-> {}, sent |-> 0] /\ unread # {}
    /\ alerts' = [alerts EXCEPT !.batch =
                    {e \in unread : Cardinality({f \in unread : f < e}) < AlertLimit}]
    /\ UNCHANGED <<call, serverVars, queueVars, eventVars, faults, historyVars>>

Oldest(e) == e \in alerts.batch /\ \A f \in alerts.batch : e <= f

SendAlert(e) ==
  /\ alerts.sent = 0 /\ Oldest(e)
  /\ alerts' = [alerts EXCEPT !.sent = e]
  /\ alerted' = alerted \cup {e}
  /\ UNCHANGED <<call, serverVars, queueVars, eventVars, faults, executed, lost, misled>>

\* Not sent: the event stays unread for the next round.
SendFails(e) ==
  /\ alerts.sent = 0 /\ Oldest(e)
  /\ alerts' = [alerts EXCEPT !.batch = @ \ {e}]
  /\ UNCHANGED <<call, serverVars, queueVars, eventVars, faults, historyVars>>

\* A wrong version: everything that was selected is acknowledged.
AcknowledgeBatch ==
  LET e == alerts.sent IN
    /\ e # 0
    /\ event' = [f \in Event |-> IF f \in alerts.batch
                                 THEN [event[f] EXCEPT !.acknowledged = TRUE] ELSE event[f]]
    /\ alerts' = [batch |-> {}, sent |-> 0]
    /\ UNCHANGED <<call, serverVars, queueVars, nextEvent, faults, historyVars>>

Acknowledge ==
  LET e == alerts.sent IN
    /\ e # 0
    /\ event' = [event EXCEPT ![e].acknowledged = TRUE]
    /\ alerts' = [batch |-> alerts.batch \ {e}, sent |-> 0]
    /\ UNCHANGED <<call, serverVars, queueVars, nextEvent, faults, historyVars>>

Requests(r) ==
  \/ CallFails(r) \/ InsertTask(r) \/ TakeAnswer(r) \/ GiveUp(r)
  \/ \E e \in Event : FindAnswer(r, e)

Works ==
  \/ WorkDone \/ WorkFails \/ Answer \/ CompleteTask \/ AnswerRaises
  \/ FailTask \/ AnswerFailed

Next ==
  \/ \E r \in Req : \/ request_task_result(r) \/ Requests(r)
                    \/ Handled(r) \/ HandlerFails(r) \/ AnswersAnother(r)
                    \/ CancelTask(r) \/ Claim(r)
  \/ Works \/ CrashAndRestart
  \/ SelectEvents \/ Acknowledge
  \/ \E e \in Event : SendAlert(e) \/ SendFails(e)

Spec == Init /\ [][Next]_vars

(***************************************************************************)
(* Properties                                                              *)
(***************************************************************************)

TypeOK ==
  /\ call \in [Req -> [at : {"idle", "calling", "asking", "polling", "found", "answered",
                             "gave_up"},
                       event : 0 .. MaxEvent]]
  /\ state \in [Req -> {"none", "working", "completed", "failed", "canceled"}]
  /\ tasks \subseteq Req /\ handling \subseteq Req
  /\ row \in [Req -> {"none", "pending", "running", "completed", "failed", "dead_letter"}]
  /\ retry \in [Req -> 0 .. RetryLimit]
  /\ daemon \in [at : {"idle", "handling", "done", "complete", "failed", "excuse"},
                 req : Req \cup {None}]
  /\ event \in [Event -> [req : Req \cup {None}, ok : BOOLEAN, acknowledged : BOOLEAN]]
  /\ nextEvent \in 1 .. MaxEvent + 1
  /\ alerts \in [batch : SUBSET Event, sent : 0 .. MaxEvent]
  /\ faults \in 0 .. MaxFault
  /\ executed \in [Req -> Nat] /\ lost \in [Req -> Nat]
  /\ misled \subseteq Req /\ alerted \subseteq Event
  /\ \A r \in Req : row[r] \in {"none", "pending", "running", "failed"} => retry[r] < RetryLimit
  /\ daemon.at # "idle" => daemon.req \in Req /\ row[daemon.req] # "none"
  /\ \A r \in Req : call[r].at = "found" => call[r].event \in Event

\* Who got an answer that says the work was done got it for work that was done,
\* over A2A or as an event, whatever was retried, canceled or answered twice,
\* unless its request was taken for another (a2a_server.py:328).
AnswersAreTrue ==
  \A r \in Req :
    /\ call[r].at = "answered"
    /\ IF call[r].event = 0 THEN r \notin misled ELSE event[call[r].event].ok
    => executed[r] > 0

\* Each repetition of the work is paid for by an execution that was lost: its
\* A2A call was over or its response lost, its handler raised after it, or its
\* answer or write-back failed (comms.py:103, daemon.py:818-827).  Work whose
\* requester was told, or whose row is completed, is never done again.
WorkIsDoneOnce ==
  \A r \in Req : executed[r] <= 1 + lost[r]

\* No event is marked as read that nobody has seen: Hermes sent it, or the
\* requester has it that it was meant for.  Hermes does take answers their
\* requesters still poll for, and nothing else does (alerts.py:46, comms.py:149).
EventsAreSeen ==
  \A e \in Event : event[e].acknowledged /\ event[e].req # None
    => e \in alerted \/ call[event[e].req] = [at |-> "answered", event |-> e]

\* The server forgets tasks: it keeps no more completed ones than its limit
\* allows, however many handlers end at the same time (a2a_wrapper.py:188).
TasksAreBounded ==
  Cardinality({r \in tasks \ handling : state[r] = "completed"}) <= TaskLimit

\* What is a lease of the queue for a row of ClawdBot's.
PhaseOf(r) ==
  CASE row[r] \in {"pending", "failed"} -> "open"
    [] row[r] = "running"     -> "leased"
    [] row[r] = "completed"   -> "done"
    [] row[r] = "dead_letter" -> "dead"
    [] OTHER                  -> "none"

Lease == INSTANCE LeaseQueue WITH
  Job <- Req, Worker <- {"clawdbot"}, Nobody <- "nobody", Attempts <- RetryLimit,
  phase <- [r \in Req |-> PhaseOf(r)],
  holder <- [r \in Req |-> IF row[r] = "running" THEN "clawdbot" ELSE "nobody"],
  failures <- retry

\* The requests' rows are leased as the daemons' queue promises it
\* (agent_base.py:193-230): what the requester relies on here is what TaskQueue,
\* which implements the same LeaseQueue, does with several daemons.  A step that
\* leaves the rows alone is a stutter: it is named first because most steps are.
ImplementsLease ==
  /\ Lease!LeaseInit
  /\ [][UNCHANGED <<row, retry>> \/ Lease!LeaseNext]_(Lease!leaseVars)

=============================================================================
