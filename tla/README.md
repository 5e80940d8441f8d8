# TLA+ models of Objective Hertz

Objective Hertz is a small company run by programs: a handful of Python daemons
find leads, write and send e-mails, answer replies, build web sites and invoice
for them. They share one Postgres database and talk through it. This directory
holds TLA+ models of the parts where the order of events decides whether the
system is right, the TLC configurations that check them on small instances,
and theorems checked by TLAPS for every instance.

Paths below are relative to `src/`.

## 1. Inventory

### Components, state, operations, interactions

| Component | Keeps | Does | Talks to |
|---|---|---|---|
| **Daemon base** (`shared/agent_base.py`, `shared/db.py`) | `task_queue` rows; per process `_running`, `_shutdown_requested`, `_current_work` | `insert_task`, `get_pending_tasks`, `claim_task`, `complete_task`, `fail_task`, `requeue_stale_tasks`, `request_shutdown`, `finalize_shutdown`, `emit_event` | every daemon through the table and `events` |
| **Titan** (`titan/`) | `clients`, `email_sequences`, `outbound_email_log`, `review_queue`, `deals`, `interactions` | the sales pipeline: discover, research, compose, send, follow up, close, build, deploy, invoice; an A2A server that runs the same stages on request | Instantly, Hermes (alerts, review), ClawdBot (deploys), Perseus |
| **ClawdBot** (`clawdbot/`) | nothing of its own | browser, phone and deploy tasks taken from the queue | Titan and Perseus through `task_queue` |
| **Perseus** (`perseus/`) and, as its replacement, the orchestrator's **PerseusScheduler** (`openjarvis/vassals/perseus_scheduler.py`) | `titan_paused`, `clawdbot_paused` in `system_config` | budget enforcement, health checks, priorities, nightly learning, pruning of old rows | everybody's tables; A2A |
| **Hermes** (`hermes/`) | `titan_manual_pause`, decisions on `review_queue`, `acknowledged` on events | delivers alerts to Telegram; `/pause`, `/resume`, `/approve`, `/reject` | operator, `events`, `system_config` |
| **Orchestrator** (`orchestrator.py`) and **supervisor** (`openjarvis/vassals/supervisor.py`) | child processes, restart counters, rows of type `operator_command` | start, monitor, restart and stop the daemons; run operator commands | processes, A2A, `task_queue` |
| **Communication** (`shared/comms.py`, `shared/oj_bridge.py`, `shared/capability_router.py`, `shared/a2a_wrapper.py`) | states of A2A tasks | dispatch over A2A with a fallback to the queue; request and awaited result event | all of the above |
| **Money** (`tools/budget_guard.py`, `tools/payment_router.py`) | spending rows; payment links | `check_budget`, `create_invoice`, `check_new_payments` | Titan, Perseus, Stripe, Wise |
| **Warm-up** (`titan/deliverability.py`) | `warm_up_phase`, `warmup_day`, `email_daily_target`; reads `outreach_metrics` | ramp of the daily sending ceiling, the budget of a batch | `send_emails`, `sync_campaign_analytics` |
| Conway, framework, vendored tools, frontends | — | experimental wallet (off by default), the OpenJarvis framework, third-party code, user interfaces | — |

### What is hard

* **Nothing spans two statements.** Almost every `execute` is a transaction of its
  own, and coroutines of one process, several processes and the operator
  interleave between any two. What was read may be stale when it is used.
* **A process may die between any two statements**: crashes, and the kill that
  follows a shutdown that drained for too long.
* **Outside services answer late, unreadably or not at all** after having acted.
* **The same work is reached by several paths**: the pipeline loop, the queue
  handler, the A2A handler and the operator's commands call the same functions.
* **Retries** come from three places: `fail_task`, the next pipeline cycle and a
  restart's requeue.
* **Some rows are selected by status only**, so a status nobody selects is a
  place where work gets lost.

`PROJECT.json` lists each hazard at its line, with the property that covers it or the
reason why none does.

### What makes each component correct

| Component | Correct means | Stated as |
|---|---|---|
| Task queue | a row is worked on by one daemon at a time; no row is orphaned; retries are bounded; a burial is announced; finished rows stay finished; handled rows are served | `ExclusiveExecution`, `RunningIsHeld`, `ExecutionBudget`, `DeadLetterAlerted`, `FinishedIsFinal`, `NoStarvation`, `ImplementsLease` |
| Outbound e-mail | the audit log tells the truth; nothing is lost; nothing is sent twice; review mode is respected | `LogIsTruthful`, `SentMeansDelivered`, `NoRepeatUnlessContended`, `ReviewPrecedesSend`, and the refuted `NoRepeat` |
| Pause and budget | spending over the cap stops the workers and a fine budget restarts them; a manual pause holds | `BudgetIsEnforced`, `ExceededStopsTitan`, `FlagsAgree`, `PauseIsHonoured`, and the refuted `ManualPauseHolds` |
| Lead lifecycle | a lead gets one first e-mail and each follow-up once; its status follows the table; an opt-out is final and every request for one is honoured | `FirstContactOnce`, `FollowUpsOnce`, `MovesFollowTable`, `OptOutStops`, and the refuted `OptOutIsHonoured` |
| Deals | one deal per lead; only delivered sites are billed, payments settle their own deal; no lead is left where nobody looks; proposals are reviewed while that is required | `OneDealPerLead`, `ImplementsLedger`, `NoLeadForgotten`, `ProposalsAreReviewed` |
| Supervisor | no process is lost; restarts are bounded; a crashed vassal runs again; a shutdown leaves nothing behind | `NoOrphans`, `RestartsAreBounded`, `NoVassalForgotten`, `CrashedRunsAgain`, `ShutdownStopsAll` |
| Requests between agents | answers are true; work is repeated only when its success was lost; no event is lost unseen; the A2A server's memory is bounded | `AnswersAreTrue`, `WorkIsDoneOnce`, `EventsAreSeen`, `TasksAreBounded` |
| Warm-up | a day stays under its ceiling, the ceiling on the ramp, and the warm-up gets on | `CeilingHolds`, `RampIsRespected`; that it does *not* get on is `RampStandsStill` |

## 2. Modules and the code they model

### `TaskQueue` — the table and the daemons that poll it

State: one variable per column (`status`, `retry` = `retry_count`, `owner` =
`assigned_agent`, `ttype` = `task_type`, `nextId` = the SERIAL), per daemon a
control point `pc`, the rest of the polled window `batch`, the row in hand `cur`
(`_current_work`) and membership of `stopping` (`_shutdown_requested`). The other
variables are history: `runs`, `requeued`, `stranded`, `crashed`, `alerted`.

| Action | Code |
|---|---|
| `DedupeCheck`, `DedupeInsert`, `DirectInsert` | `insert_task`: the duplicate check and the INSERT are two transactions |
| `Start` | `start()`, with `requeue_stale_tasks` for the daemons in `Requeues` |
| `Poll` | `get_pending_tasks`: `LIMIT` first, then the filter by handler |
| `Claim`, `ClaimMissed` | `claim_task`'s conditional UPDATE, matched or not |
| `HandlerEnds` | the handler returns or raises |
| `Complete`, `CompleteRaises`, `Fail`, `FailRaises`, `Alert`, `AlertRaises` | the write-back in the daemons' loop, with each statement failing |
| `EndBatch`, `RequestShutdown`, `Exit`, `Crash` | end of window, SIGTERM, graceful end, death |
| `Prune` | Perseus' daily DELETE |

`LeaseQueue` is the abstract specification: a job is leased to one worker, only
its holder ends the lease, failures are bounded. `TaskQueue` implements it under
the refinement mapping `PhaseBar`, `HolderBar`, although `complete_task` and
`fail_task` are UPDATEs by id that look at neither status nor owner.

Assumptions. *One live process per agent name*: `requeue_stale_tasks` at start
would release the rows of a living twin. The repository has two ways to start
each daemon (the launchd plists and the orchestrator's supervisor); the model
describes an installation that uses one. The handler tables the code ships are
disjoint; the safety run lets them coincide and the theorems hold for any table. The pause
flags are not part of this module (a paused daemon does not poll), so
`NoStarvation` speaks of daemons that are not paused.

### `OutboundEmail` and `AuditLog` — from a draft to Instantly

State: the columns of `clients` (`lead`, `followUps`), `email_sequences` (`seq*`),
`review_queue` (`item*`) and `outbound_email_log` (`log*`) that matter; for each
*sender* a control point, its list, and the sequence, log row and item in hand.
`TitanSender` are concurrent invocations of `send_emails` in Titan's process (its
loop, its queue handler, its A2A handler), `Reviewer` is Hermes' command handler.
`delivered` are the log rows whose `add_lead` Instantly accepted, `ambiguous` those
of them whose call nevertheless raised here, `contended` the sequences two senders
held at once.

| Action | Code |
|---|---|
| `SendEmails`, `EndList`, `TakeLead` | `send_emails`, `_add_lead_to_campaign` with the micro-review |
| `QueueItem`, `CheckQueued`, `WriteQueued` | `_queue_for_review`: INSERT, then `transition_lead`'s SELECT and UPDATE |
| `ApproveReview`, `RejectReview` | `titan/review_mode.py`; neither looks at the item's status |
| `Gate` … `FinaliseFailed` | `send_to_instantly`, one action per statement |
| `Track`; `CheckTransition`, `CommitReview`, `MarkApproved` | what Titan, and what Hermes, writes after a send |
| `StatementRaises`, `CrashOf` | an exception at any statement, the death of either process |
| `FollowUp`, `Reply`, `HardBounce`, `LeaveReviewMode` | the rest of the pipeline, as single steps |

Abstractions: texts, scores and campaigns are gone; `"replied"` stands for every
status a reply leads to except `unsubscribed`; `"sent"` for every later status of a
sequence; `LIMIT`, the daily budget and the provider buckets become "any part of
what is due". Reading `review_mode` and selecting the leads is one step: the flag
only ever goes from true to false. The footer and the deliverability lookup of
`send_to_instantly` write nothing and are left out. The dedupe for messages without
a sequence (proposals) is not modelled.

`AuditLog` is the abstract specification of `outbound_email_log`: a row is recorded
before its mail is handed over and handed over at most once, it is settled once, as
failed only if no yes was seen, and as sent only if the mail was accepted or an alert
says that somebody guessed; a sequence counts as sent on the same grounds.
`OutboundEmail` implements it. Writing it down showed one step a reader would not
expect: a row can be handed over *after* it was settled as sent, when a slow sender is
between its INSERT and `add_lead` and another one finds the pending row, assumes the
mail went out and raises the alert (`Accept`'s second disjunct).

### `PauseControl` — who stops the spenders

State: the three flags of `system_config`, the month's budget (`ok`, `warning`,
`exceeded`), the control points of `_enforce_budget`, of the scheduler's tick and of
the operator's command, and which workers are inside a cycle. `guard`, chosen at the start, says
which guard the installation runs: Perseus' daemon, or the scheduler that its docstring
says replaces it. `torn` records that a writer was interrupted or that two of them
overlapped. In the scheduler's branch two things are modelled as they are and not
as they read: it writes Titan's flag only, and at zero per cent it does nothing
(its fallback calls `BudgetGuard.percent_used()`, which does not exist).

### `LeadStateMachine` and `LeadLifecycle` — from discovery to the first answer

`LeadStateMachine` is `VALID_TRANSITIONS` and `can_transition`, shared by the two
modules that call `transition_lead`. `LeadLifecycle` keeps the columns of `clients`,
`email_sequences`, `review_queue` and the inbox that the stages select by, and in
`job` what each concurrent invocation has in hand: its stage, its control point, the
lead, the sequence, the status it has read. The pipeline loop, the queue handlers and
the A2A handlers call the same functions, so any number of invocations of any stage
may run.

| Action | Code |
|---|---|
| `research_leads`, `compose_emails`, `ComposeOne` | `titan/pipeline/lead_research.py`, `email_compose.py`: the selection, the INSERT of the draft, the transition |
| `send_emails`, `QueueForReview`, `Gate`, `Track`; `approve_review`, `TrackApproved` | sending as far as the lead's status is concerned (`OutboundEmail` has the rest) |
| `SendFollowUps`, `QueueFollowUp`, `CountFollowUp` | `_send_follow_ups`: the INSERT and the UPDATE of `follow_up_count` are two transactions |
| `process_reply` | `_process_reply`: the transition whose answer nobody looks at, then the reply is marked read |
| `CheckTransition`, `Refused`, `WriteTransition`, `Returns` | `transition_lead`: SELECT, table, UPDATE |
| `Answers`, `HardBounce`, `Declines`, `LeaveReviewMode` | the lead, Instantly, the operator, the tenth sale |
| `Interrupt` | a statement raises, or the process dies, between any two statements |

History: `shared` (two invocations composed for a lead, or followed it up, at once),
`torn` (one was interrupted between its INSERT and its UPDATE), `overwritten` (a status
was written over one the writer had not read), `optedOut`, `lapsed` (an opted-out lead
passed the gate). The properties name exactly these as the ways they can fail.

### `DealPipeline` and `SaleLedger` — from interest to payment

State: `status`; proposals in `review_queue` (`item`); the counter of sales; `deals`;
at the providers, the link under an idempotency key (`linkOf`), whom a reference was
issued for (`refOwner`) and the references `check_new_payments` reports; `job` as above.

| Action | Code |
|---|---|
| `process_interested_leads`, `DemoAccepted`, `DemoBlocked`, `Propose`, `OfferSent`, `OfferFailed` | `close_deal.py`: whether approval is needed is read before the demo is built |
| `approve_review`, `MarkApproved`, `reject_review` | the operator's decision on a proposal |
| `mark_sale_closed`, `Tally` | the sale and the counter, in two statements |
| `build_sites`, `SiteBuilt`, `SiteFailed` | `build_site.py`: the lead moves to `building` first |
| `send_invoices`, `FindDeal`, `CreateStripe`, `CreateWise`, `InsertDeal` | `invoice.py` and `payment_router.py`: look for a pending deal, create the link, insert |
| `check_payments`, `BookPayment`; `Pay`, `Expire` | payments are reported while they are recent, and booked by reference |
| `Interrupt` | as above |

`SaleLedger` is the abstract specification: who got a site may be billed, every
reference has one debtor, a bill is settled by money received under its reference and
stays settled. `DealPipeline` implements it.

Assumptions. `mark_sale_closed` has no caller in the repository; it is called as its
docstring says, once a sale is confirmed. Stripe reports PaymentIntent ids and Wise
transfer ids while `deals` keeps the payment link's or the quote's id, so with the
code as it is no payment would ever be matched; `Pay` assumes a provider that reports
the reference it handed out. `deploy_sites` looks whether sites answer and changes
nothing.

### `Supervisor` and `ProcessPool` — the orchestrator's child processes

All of it runs on one event loop, so an action is what a coroutine does between two
awaits: `start` and `stop` up to its first await are operators that the actions share.

| Action | Code |
|---|---|
| `probe_and_start`, `BootEnds` | `_probe_and_start_vassals`: adopt what answers, spawn the rest, start the monitor |
| `MonitorFindsDead`, `RestartCrashed` | `_monitor_loop`, before and after its backoff |
| `restart`, `RestartStarts` | `vassal_restart`, `VassalSupervisor.restart` |
| `PollSeesDead`, `PollRaises`, `Kill` | `stop`'s polling loop; the process it polls may be `None` by then |
| `Shutdown`, `StopNext`, `AllStopped`, `CleanupTimesOut` | `_cleanup` and `stop_all` under their time limit |
| `Dies` | the operating system |

Processes are numbered per vassal; number 0 is one that was adopted. Nobody watches or
stops an adopted process, and a restart spawns a second instance next to it: the
properties speak of the spawned ones, because no promise is made about the others.

`ProcessPool` is the abstract specification: of each daemon one process runs at a time,
the supervisor starts it on a limited credit that is void once it shuts down, and a
request starts one at most. `Supervisor` implements it; boot and monitor spend the
credit, a spawn that fails or finds the daemon running is a start that does nothing.

`PollersSawIt`, a guard of the restart, is about time: a coroutine sleeps at least one
second before it starts a vassal again, and those that poll its predecessor look every
half second.

### `A2AServer` and `RequestReply` — work asked of another agent

`A2AServer` is the dictionary of tasks of `shared/a2a_wrapper.py`: send, handler,
cancel, pruning, restart. `RequestReply` composes one with the requester, the row of
`task_queue`, ClawdBot's loop, the `events` table and Hermes' alert loop.

| Action | Code |
|---|---|
| `request_task_result`, `Handled`, `HandlerFails`, `CallFails`, `InsertTask` | `shared/comms.py:66-111`: A2A first, the queue if the call fails; a lost response is a call that fails while the handler goes on |
| `AnswersAnother` | `handle_a2a` of `clawdbot/a2a_server.py`: a TypeError or JSONDecodeError raised inside the handler has the request routed again, by its words, and the caller gets that outcome |
| `FindAnswer`, `TakeAnswer`, `GiveUp` | `wait_for_event`: SELECT, UPDATE, time-out |
| `CancelTask` | `tasks/cancel` |
| `Claim` … `AnswerFailed` | `_process_task_queue` of `clawdbot/daemon.py`, one action per statement |
| `CrashAndRestart` | ClawdBot dies; its rows are requeued and its A2A tasks are gone |
| `SelectEvents`, `SendAlert`, `SendFails`, `Acknowledge` | `dispatch_alerts` |

A handler that raises may have done its work: those of ClawdBot work first and then
await an `emit_event` or an UPDATE of their own (`clawdbot/daemon.py:877`, `:903`,
`:962`, `:1023`, `:1233-1277`), and the A2A wrapper and the queue loop catch whatever
comes out of them. So `HandlerFails`, `WorkFails` and `AnswersAnother` may or may not
execute (`RaisesSomewhere`). `executed` counts the runs of a handler that had an effect,
and `lost` those whose success nobody recorded: the response was lost or its caller
gone, the handler raised after the work, the event or the write-back failed, or the
process died before the write-back. `WorkIsDoneOnce` says that every run but one was
lost: work that was reported over A2A, or whose row is completed, is never done again.
It does not say that work is done once, and it is not: nothing in the code makes a
second run harmless. `misled` is the one exception of `AnswersAreTrue`: over A2A, the
outcome of a rerouted request passes for that of the one that was asked.

The rows implement `LeaseQueue`, the specification that `TaskQueue` implements too: what
`request_task_result` relies on is what several daemons over the table provide
(`ImplementsLease`).

Hermes and the requester poll the same events and each marks what it read. The
`timeout` argument of `call_agent` is not used by the code; the client's own 120 s
limit is what makes a call fail.

### `Warmup` — the daily ceiling

State: `email_daily_target`, `warm_up_phase` and `warmup_day` of `system_config`, the
day's `outreach_metrics` (`reported`), what was really handed to Instantly today and
ever, and the control points of the checks, the batches and the synchronisation.

| Action | Code |
|---|---|
| `AskPhase`, `ReadDay`, `Graduate`, `CompareToRamp`, `LowerToRamp`, `ReadSent`, `Advance` | `_enforce_warmup_volume`, one action per statement |
| `AskWarm`, `ReadRates`, `SetTarget` | `_adjust_daily_ceiling`; the rates themselves are a choice |
| `ReadTarget`, `TakeBudget`, `SendOne`, `EndBatch` | `get_send_budget_today` and the batch of `send_emails` |
| `SendApproved` | `/approve`, which does not ask for the budget |
| `FetchAnalytics`, `StoreAnalytics`, `Midnight` | `sync_campaign_analytics` and the change of `CURRENT_DATE` |

`_check_domain_health` is left out: nothing in the repository writes `bounces` or
`spam_complaints`, so it finds every domain healthy, and `is_domain_paused` has no
caller. What Instantly's "sent" counts, the day or the campaign, is a choice at the
start (`counts`). Three consequences of the code are theorems here. The ceiling is
overrun exactly where a budget did not see the day's e-mails (`blind`): the copy of the
metrics is refreshed every half hour and batches leave every ten minutes. The
warm-up only ever lowers the ceiling (`CeilingOnlyFalls`). So after day 1 has set it to 10, day 2 waits for 12
e-mails that the ceiling forbids (`RampStandsStill`); only a day that went over the ceiling, or mail
sent before the first check, moves it on.

### How the modules relate

`DealPipeline` continues where `LeadLifecycle` ends, over the table in
`LeadStateMachine`; `RequestReply` instantiates `A2AServer`; `TaskQueue` and
`RequestReply` implement `LeaseQueue`, `DealPipeline` implements `SaleLedger`,
`OutboundEmail` `AuditLog` and `Supervisor` `ProcessPool`. The other modules meet in what
each leaves open: `Supervisor`'s kill is a `Crash` of `TaskQueue`; an invocation of
`OutboundEmail`, `LeadLifecycle` and `DealPipeline` is a handler of `TaskQueue`, whose
retries they cover by letting invocations start at any time; a paused worker of
`PauseControl` is a daemon that does not poll; a batch that `Warmup` bounds is an
invocation of `SendEmails`; a follow-up `LeadLifecycle` queues once is one sequence of
`OutboundEmail`.

The MC modules hold the values and the symmetry for TLC, the Proofs modules the proofs.
A definition introduced as "a wrong version" is a plausible bug; it is used by
nothing, and put in place of the definition next to it, it makes the property
`PROJECT.json` pairs it with fail.

## 3. The runs

### Runs that pass

| Run | Instance | Shows |
|---|---|---|
| `queue_safety` | two daemons with the same handlers, one of which does not requeue; a deduplicating producer and direct ones; 2 rows, 2 attempts, 1 crash, 1 stop, 1 lost write-back | the safety of the queue, and that `TaskQueue` implements `LeaseQueue` |
| `queue_liveness` | one daemon, 3 rows, a window of 2, an unhandled type that is more urgent; 1 crash, 1 stop, 1 lost write-back | every handled row ends, unless unhandled rows fill the window |
| `email` | two senders in Titan and Hermes, one lead, 2 sequences, 2 items, 4 log rows, 1 fault, the follow-up flagged by the micro-review | the audit log is truthful; duplicates need contention or an ambiguous answer; nothing is lost; review mode holds; `OutboundEmail` implements `AuditLog` |
| `pause` | either guard, chosen at the start; 3 commands, 2 months, 1 fault | flags agree, a pause holds and the budget is enforced by Perseus' daemon as long as no writer was interrupted or met another; either guard ends up stopping Titan |
| `lead_lifecycle` | one lead, two invocations, 1 follow-up, 3 sequences, 1 reply, 1 fault | one first e-mail, each follow-up once, opt-outs hold, statuses follow the table, but for the named overlaps and interruptions |
| `deal_pipeline` | one lead, two invocations, both providers, 2 deals, 2 references, a threshold of 1 sale, 1 fault | nobody is forgotten or billed twice but in the named cases, proposals are reviewed, the deals are a ledger |
| `supervisor` | two vassals, two restart requests, 1 restart by the monitor, 2 deaths or failed spawns | no orphans, bounded restarts, crashed vassals run again, an orderly shutdown leaves nothing, `Supervisor` implements `ProcessPool` |
| `request_reply` | two requests, 2 attempts, 2 events, 1 task kept, 2 faults | answers are true, each repetition is paid for by a run whose success was lost, events are seen, tasks are forgotten, the rows implement `LeaseQueue` |
| `warmup` | two checks, one batch at a time, a ramp of two days, 3 e-mails, 1 midnight | the ceiling holds, follows the ramp, only falls during the warm-up, which stands still |

### Runs that find a disagreement with the repository's own words

| Run | Refutes | In short |
|---|---|---|
| `email_repeat` | "Dedupe seq-backed sends" (`titan/compliance.py:166`) | two senders find no log row, both call `add_lead` |
| `pause_manual` | "Perseus won't auto-unpause" (`hermes/telegram_bot.py:192`), "(unless manually paused)" (`openjarvis/vassals/perseus_scheduler.py:233`) | the scheduler clears Titan's flag at the next tick with a fine budget; it never reads the manual one |
| `lead_optout` | "Missing an unsubscribe request is a legal violation" (`titan/pipeline/follow_up.py:151`) | a first reply that opts out is refused by the transition table, marked read, and follow-ups go on |

The passing properties next to them say how far the promise does hold:
`NoRepeatUnlessContended`, `PauseIsHonoured` and `OptOutStops` carry exactly the proviso
that the refuted ones lack.

More consequences of the code are in the models and have no run of their own:

* `insert_task`'s duplicate check (`shared/db.py:106`, tested by
  `tests/test_task_dedupe.py:14`) lets two producers through that check before either
  inserts (`DedupeCheck`, `DedupeInsert`).
* The tracking UPDATE after a send (`titan/pipeline/email_send.py:380`) overwrites an
  `unsubscribed` that arrived meanwhile; the state machine calls that status terminal.
* The first follow-up carries step 1, so tracking it takes the lead back to
  `email_sent` (`titan/pipeline/follow_up.py:255`), which
  `tests/test_email_send_followups.py:56` says a follow-up should not do.
* An opt-out that lands between `Gate` and `Accepted` is not seen.
* A whole `/pause` that fits between `AskManual` and `ResumeTitan` of Perseus' daemon is
  undone, and a `/resume` across the daemon's two writes leaves ClawdBot running over
  budget (`perseus/daemon.py:231-235`).
* A build that fails, or a proposal that is interrupted, leaves its lead in a status
  that no stage selects (`dropped` in `DealPipeline`).
* A TypeError inside a handler of ClawdBot's A2A server, raised before or after its work,
  is taken for an unreadable request; the request is routed again by its words and
  whatever that yields is the answer (`clawdbot/a2a_server.py:328`, `misled`).
* `stop` polls a process that the monitor may have set to `None`; the AttributeError ends
  the restart, or the cleanup, that called it (`PollRaises` in `Supervisor`).

### Bounds, and why they are enough

The bounds are the constants named `Max…` (`MaxTask`, `MaxCrash`, `MaxSeq`, `MaxDeal`,
`MaxEvent`, `MaxSent`, …): they stop counters, and the guards they appear in are the
only ones the code does not have.

* Two rows and two daemons are what contention needs: two claims of one row, or one
  row overtaken by another. `RetryLimit = 2` (3 in the code) gives a first failure
  that is retried and a second that buries. `BatchLimit = 2` (50) makes the window
  overflow with 3 rows, which the liveness run needs.
* Two sequences are a first e-mail and its follow-up; three leave room for a duplicate
  of either. Four log rows are two attempts for each, or four for one of them. Two
  items let the operator approve one sequence twice, and approve one item while
  another is open.
* Three commands are `/pause`, `/resume`, `/pause`; two months let the budget run
  over, recover, and run over again.
* One lead and two invocations are what any race over a lead needs; leads do not
  interact. Two deals and two references are a deal and a duplicate, from one provider
  or from both.
* Two vassals make `stop_all` come to one while something happens to the other; two
  requests overlap with each other and with the monitor.
* One fault hits any statement once; where a fault of the retry matters (processes that
  die again, requests that fail over both channels) there are two.
* `lead_lifecycle` follows a lead until it was disturbed twice: one that is
  `overwritten` and also `shared` or `torn` is excepted by all the invariants, and its
  successors are cut off by the constraint `AtMostOneDisturbance`. Its replies do not
  unsubscribe, hard bounces do; `lead_optout` has replies that do, and the theorems have
  any.
* `warmup` has the ramp <<2, 4>> for 10, 15, …, 600: 80 per cent of the second day is 3,
  more than the first day lets through, as in the code. Three e-mails are enough to go
  over a ceiling of 2 by one batch or one `/approve`.
* Every symmetry is between values no definition names, in runs without liveness
  properties.

Every module's type invariant is proved; the runs repeat `TaskQueue`'s only, where it says
that a daemon has a row in hand exactly while it works on one.

The instances are small; the theorems below remove the bounds for all safety properties
the runs check.

Deadlock is checked except where the system really stops: after the orchestrator's
shutdown (`supervisor`), and when every request has ended (`request_reply`).

### Fairness

* `TaskQueue`: weak fairness of `Start(a)` (the supervisor or launchd starts a daemon
  that is down; the supervisor does so up to its restart limit) and of
  `AgentStep(a)` (the event loop keeps running and handlers end: the calls they make
  have time-outs). Producers, faults and pruning are not fair.
* `PauseControl`: weak fairness of the guards' ticks (a loop with a sleep), of a
  command that was begun (its coroutine goes on) and of the end of a cycle. Nothing is
  assumed of commands, spending, months or faults.
* `Supervisor`: the event loop runs every coroutine whose sleep is over, and each sweep
  of the monitor comes to every vassal. Nothing is assumed of deaths, requests or the
  shutdown.
* The other modules state no liveness and assume no fairness.

## 4. What is proved

All theorems hold for every value of the constants that satisfies the module's
`ASSUME` (the limits are natural numbers, names do not clash, and little more): any
number of daemons, producers, senders, leads, rows, vassals and requests, any handler
table, any number of faults. Each module's invariants checked by TLC are not inductive
by themselves; what `IInv` adds is the argument.

**`TaskQueueProofs`** — `TypeCorrect`, `Exclusion`, `NoOrphans`, `BoundedExecution`,
`DeadLettersAlerted`, `FinalRows`, `Refinement`. That nobody else ends my lease depends
on what I have in hand being my own running row:

* `HeldIsOwned`: the row in hand names its holder and is running, or is the dead
  letter about to be announced. `owner` is a function, so exclusion follows;
* `FreshIds`: an unused id has no history;
* `RunningIsOwned`, `CrashedIsDown`: a running row has an owner, a crashed daemon
  holds nothing, which is why a restart may release its rows;
* `RetryBound`, `RunsAccounted`: each run of a handler was counted as a failure, was
  requeued, or is the last one. The execution budget is arithmetic from there.

**`OutboundEmailProofs`** — `TypeCorrect`, `AuditIsTruthful`, `NothingLost`,
`DedupeSuffices`, `OperatorSeesFirst`, `Refinement`. The invariant has three parts: about the tables
(`TableInv`, with `OlderFailed`: of the rows of a sequence nobody contended for all but
the latest failed, which makes looking at the *latest* row enough); about each sender
(`SenderInv`: `KnowsRow`, `InsertFree`, `Reviewed`); and about two senders (`Apart`: they
hold different sequences, or the sequence is contended, and never write the same row).
For the refinement, `SeqOrder` adds that only a stored sequence is ever in a list, in
hand or with the operator, so that a new one is not yet among those that count as sent.

**`PauseControlProofs`** — `TypeCorrect` for either guard; `PausedTogether` and
`PauseHolds` for `guard = "daemon"`. The invariant says what each writer still knows
at each of its control points (`PerseusKnows`, `HermesKnows`) as long as nothing was
torn, and that then at most one of them is at work (`OneWriter`).

**`LeadLifecycleProofs`** — `TypeCorrect`, `FollowedUpOnce`, `ContactedOnce`,
`OptOutLasts`, `TableIsFollowed`. `JobOK` says what an invocation knows of the row it has
in hand, `Rows` that sequences are written in order, `OptedOut` that who opted out is
unsubscribed unless overwritten. `FollowUps` and `Composing` carry the two "once"
properties: for a lead nobody shared or tore, at most one invocation is at work, and the
rows written agree with `follow_up_count`, or with the status, up to the one step that
invocation has in hand.

**`DealPipelineProofs`** — `TypeCorrect`, `ProposalsReviewed`, `OneDeal`,
`NobodyForgotten`, `TableIsFollowed`, `Refinement`. `JobOK` and `Rows` as above; `Billing`: one invocation at a
time bills a lead that is deployed, and before its INSERT there is no deal; `Owing`: an
invoice under way has its deal. `NoLeadForgotten` is part of the invariant, because a
lead is forgotten only if the invocation that moved it was. `TableIsFollowed` is the
second half of `LeadLifecycle`'s theorem of that name and has no run of its own.

**`SupervisorProofs`** — `TypeCorrect`, `NothingOrphaned`, `RestartsBounded`,
`NobodyForgotten`, `ShutdownIsComplete`, `Refinement`. `Booting`: nobody else acts during boot;
`Cleaning`: what the cleanup has come to runs no more, unless it still waits for it or a
late restart started it; `Counted`: spawns, the monitor's remaining restarts and the
requests that will still start a vassal add up, which is also what makes the monitor's
credit and the waiting requests of `ProcessPool` a function of the supervisor's state.

**`RequestReplyProofs`** — `TypeCorrect`, `TrueAnswers`, `OneExecution`, `NothingUnseen`,
`BoundedTasks`, `Refinement`. `Holding`: nothing is queued before the call has failed, and
the row in hand is running; `Events`: a requester finds only its own; `Truth`: who says
the work is done says so afterwards; `Once`: an execution that was not lost is booked in
one place only, as an answer over A2A, a completed row or the row in hand, so a second
one can be booked only after the first was lost; `Kept`: the dictionary is finite, so
that pruning can be counted (`FiniteSetTheorems`).

**`WarmupProofs`** — `TypeCorrect`, `CeilingIsHeld`, `RampRespected`, `CeilingFalls`,
`RampStalls`, for any ramp that starts with its lowest value and asks on every later
day for more than the first one allows (`WarmupAssumption`, `RampAssumption`). `Knows`
says what a check still knows of the ceiling it compared, and that none is about to
raise it during the warm-up; `Config`, that the ceiling is then the seed or the first
day's; `Budgets`, that one sender at a time has what the others left; `Standing`, that
on orderly days the metrics never show more than the first day's ramp.

**Model-checked only:** `NoStarvation`, `BudgetIsEnforced`, `ExceededStopsTitan` and
`CrashedRunsAgain` (liveness under fairness is beyond the prover), and the three
violations, which are counterexamples by nature.

## 5. What is not modelled

* *Nothing to interleave*: LLM calls, prompts, scraping, HTTP clients, formatting,
  dashboards, logging, the vendored tools and the framework, the frontends. They are
  nearly all of the repository's lines. Reporting (health, learning, registries) only
  reads.
* *Left out of modelled parts*: the drain of running work on shutdown and its time
  limits (a daemon that is cut off is a `Crash` of `TaskQueue`), registrations and
  heartbeats, opens and soft bounces, the dedupe of messages without a sequence, the
  scores of the capability router, A2A push messages, the expiry of Stripe's
  idempotency keys, Conway's payments.
* *Not in reach of a property*: whether a payment provider reports the ids that `deals`
  keeps, the capacity of the pipes the supervised daemons log to, and Hermes' window of
  twenty alerts that can never be sent, which depends on an outside service.
* *What could come next*: the orchestrator's loop over operator commands (its rows are
  marked running and never requeued, `orchestrator.py:487`), and the drain composed with
  `TaskQueue`.

`PROJECT.json` gives the reason for every component.
