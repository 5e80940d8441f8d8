---------------------------- MODULE OutboundEmail ----------------------------
(***************************************************************************)
(* From a drafted e-mail to a lead handed to Instantly.                    *)
(*                                                                         *)
(* Titan's send_emails (its pipeline loop, its queue handler and its A2A   *)
(* handler may run at once) and the operator's /approve in Hermes all go   *)
(* through the compliance gate send_to_instantly, which reads the lead,    *)
(* reads the outbound log, writes a log row, calls Instantly and finalises *)
(* the row.  Each statement is a transaction of its own and each of the    *)
(* two processes can die between any two of them.                          *)
(***************************************************************************)
EXTENDS Naturals

CONSTANTS
  Client,         \* leads, each with a distinct e-mail address
  TitanSender,    \* concurrent invocations of send_emails in Titan
  Reviewer,       \* Hermes' command handler
  NoClient,       \* the client of a sequence that does not exist
  Flagged,        \* sequences whose text the micro-review flags
  FollowUpLimit,  \* the literal 7 of _send_follow_ups
  MaxSeq,         \* bound: rows of email_sequences
  MaxItem,        \* bound: rows of review_queue
  MaxLog,         \* bound: rows of outbound_email_log
  MaxFault        \* bound: crashes, database errors and failed API calls

ASSUME MailAssumption ==
  /\ NoClient \notin Client
  /\ TitanSender \cap Reviewer = {}
  /\ FollowUpLimit \in Nat /\ MaxSeq \in Nat /\ MaxItem \in Nat
  /\ MaxLog \in Nat /\ MaxFault \in Nat
  /\ Flagged \subseteq 1 .. MaxSeq

VARIABLES
  lead, followUps,                        \* clients: status, follow_up_count
  seqClient, seqStep, seqStatus, nextSeq, \* email_sequences
  reviewMode,                             \* system_config.review_mode
  itemSeq, itemStatus, nextItem,          \* review_queue (email drafts)
  logSeq, logStatus, nextLog,             \* outbound_email_log
  \* each sender: control point, leads left of its SELECT, and the sequence,
  \* log row and review item in hand
  pc, todo, job, row, item,
  alerted,    \* sequences for which "pending outbound log on retry" was raised
  delivered,  \* log rows whose add_lead Instantly accepted
  ambiguous,  \* those of them whose call nevertheless raised here
  contended,  \* history: sequences two senders held at the same time
  faults

leadVars   == <<lead, followUps>>
seqVars    == <<seqClient, seqStep, seqStatus, nextSeq>>
reviewVars == <<reviewMode, itemSeq, itemStatus, nextItem>>
logVars    == <<logSeq, logStatus, nextLog>>
senderVars == <<pc, todo, job, row, item>>
mailVars   == <<delivered, ambiguous>>
vars == <<leadVars, seqVars, reviewVars, logVars, senderVars, alerted,
          mailVars, contended, faults>>

Sender == TitanSender \cup Reviewer
Seq    == 1 .. MaxSeq
Item   == 1 .. MaxItem
Log    == 1 .. MaxLog
None   == 0

\* "replied" stands for every status a reply leads to but "unsubscribed".
LeadStatus == {"email_drafted", "email_queued", "email_sent", "followed_up",
               "replied", "unsubscribed"}

Control == {"idle", "queueing", "moving", "writing", "list", "gate", "dedupe",
            "warn", "resolve", "insert", "call", "sent", "refused", "track",
            "commit", "approve"}

\* A sequence is in hand to be put to the operator, not to be sent.
Queueing == {"moving", "writing"}

(***************************************************************************)
(* Reading the tables                                                      *)
(***************************************************************************)

\* The SELECT of send_emails and of _queue_for_review.
Due == {q \in Seq : /\ seqStatus[q] = "pending"
                    /\ lead[seqClient[q]] \in {"email_drafted", "followed_up"}}

Rows(q) == {r \in Log : r < nextLog /\ logSeq[r] = q}

\* A wrong order: the oldest row.
Oldest(q, r) == r \in Rows(q) /\ \A u \in Rows(q) : u >= r

\* ORDER BY created_at DESC LIMIT 1.
Latest(q, r) == r \in Rows(q) /\ \A u \in Rows(q) : u <= r

-----------------------------------------------------------------------------
\* Every client has the first draft that compose_emails stored.
Init ==
  /\ lead = [c \in Client |-> "email_drafted"]
  /\ followUps = [c \in Client |-> 0]
  /\ nextSeq \in 1 .. MaxSeq + 1
  /\ seqClient \in [Seq -> Client \cup {NoClient}]
  /\ \A q \in Seq : seqClient[q] = NoClient <=> q >= nextSeq
  /\ \A c \in Client : \E q \in Seq : \A p \in Seq : seqClient[p] = c <=> p = q
  /\ seqStep = [q \in Seq |-> IF q < nextSeq THEN 1 ELSE 0]
  /\ seqStatus = [q \in Seq |-> IF q < nextSeq THEN "pending" ELSE "absent"]
  /\ reviewMode \in BOOLEAN
  /\ itemSeq = [i \in Item |-> None]
  /\ itemStatus = [i \in Item |-> "absent"]
  /\ nextItem = 1
  /\ logSeq = [r \in Log |-> None]
  /\ logStatus = [r \in Log |-> "absent"]
  /\ nextLog = 1
  /\ pc = [s \in Sender |-> "idle"]
  /\ todo = [s \in Sender |-> {}]
  /\ job = [s \in Sender |-> None]
  /\ row = [s \in Sender |-> None]
  /\ item = [s \in Sender |-> None]
  /\ alerted = {} /\ delivered = {} /\ ambiguous = {} /\ contended = {}
  /\ faults = 0

(***************************************************************************)
(* Building blocks: a sender moves on, or lets go of the sequence in hand  *)
(***************************************************************************)

Goto(s, label) ==
  /\ pc' = [pc EXCEPT ![s] = label]
  /\ UNCHANGED <<todo, job, item>>

\* Titan goes on with the next lead of its list, Hermes answers the operator.
Release(s) ==
  /\ pc' = [pc EXCEPT ![s] = IF s \in TitanSender THEN "list" ELSE "idle"]
  /\ job' = [job EXCEPT ![s] = None]
  /\ row' = [row EXCEPT ![s] = None]
  /\ item' = [item EXCEPT ![s] = None]
  /\ UNCHANGED todo

Hold(s, q) ==
  /\ job' = [job EXCEPT ![s] = q]
  /\ contended' = IF \E other \in Sender \ {s} :
                       job[other] = q /\ pc[other] \notin Queueing
                    THEN contended \cup {q} ELSE contended

Fault ==
  /\ faults < MaxFault
  /\ faults' = faults + 1

(***************************************************************************)
(* send_emails: select, then queue for review or send one by one           *)
(***************************************************************************)

\* A wrong version: the review mode is not looked at.
SendEmailsUnreviewed(s) ==
  /\ s \in TitanSender /\ pc[s] = "idle"
  /\ \E chosen \in SUBSET Due \ {{}} : todo' = [todo EXCEPT ![s] = chosen]
  /\ pc' = [pc EXCEPT ![s] = "list"]
  /\ UNCHANGED <<leadVars, seqVars, reviewVars, logVars, job, row, item,
                 alerted, mailVars, contended, faults>>

\* LIMIT, the daily budget and the provider buckets leave any part of what
\* is due, possibly nothing.
SendEmails(s) ==
  /\ s \in TitanSender /\ pc[s] = "idle"
  /\ \E chosen \in SUBSET Due :
       /\ todo' = [todo EXCEPT ![s] = chosen]
       /\ pc' = [pc EXCEPT ![s] = IF chosen = {} THEN "idle"
                                  ELSE IF reviewMode THEN "queueing" ELSE "list"]
  /\ UNCHANGED <<leadVars, seqVars, reviewVars, logVars, job, row, item,
                 alerted, mailVars, contended, faults>>

EndList(s) ==
  /\ pc[s] \in {"queueing", "list"}
  /\ \/ todo[s] = {}
     \/ pc[s] = "queueing" /\ nextItem > MaxItem   \* the bound, not the code
  /\ pc' = [pc EXCEPT ![s] = "idle"]
  /\ todo' = [todo EXCEPT ![s] = {}]
  /\ UNCHANGED <<leadVars, seqVars, reviewVars, logVars, job, row, item,
                 alerted, mailVars, contended, faults>>

\* _queue_for_review: INSERT INTO review_queue ...
QueueItem(s, q) ==
  /\ pc[s] = "queueing" /\ q \in todo[s]
  /\ nextItem \in Item
  /\ itemSeq' = [itemSeq EXCEPT ![nextItem] = q]
  /\ itemStatus' = [itemStatus EXCEPT ![nextItem] = "pending_review"]
  /\ nextItem' = nextItem + 1
  /\ todo' = [todo EXCEPT ![s] = @ \ {q}]
  /\ job' = [job EXCEPT ![s] = q]
  /\ pc' = [pc EXCEPT ![s] = "moving"]
  /\ UNCHANGED <<leadVars, seqVars, reviewMode, logVars, row, item, alerted,
                 mailVars, contended, faults>>

\* ... then transition_lead(client, "email_queued") for a step-1 sequence: it
\* reads the lead and gives up unless the lead is still "email_drafted" ...
CheckQueued(s) ==
  LET q == job[s] IN
  /\ pc[s] = "moving"
  /\ IF seqStep[q] = 1 /\ lead[seqClient[q]] = "email_drafted"
       THEN /\ pc' = [pc EXCEPT ![s] = "writing"]
            /\ UNCHANGED job
       ELSE /\ pc' = [pc EXCEPT ![s] = "queueing"]
            /\ job' = [job EXCEPT ![s] = None]
  /\ UNCHANGED <<leadVars, seqVars, reviewVars, logVars, todo, row, item,
                 alerted, mailVars, contended, faults>>

\* ... and writes it with an UPDATE that does not look again.
WriteQueued(s) ==
  /\ pc[s] = "writing"
  /\ lead' = [lead EXCEPT ![seqClient[job[s]]] = "email_queued"]
  /\ pc' = [pc EXCEPT ![s] = "queueing"]
  /\ job' = [job EXCEPT ![s] = None]
  /\ UNCHANGED <<followUps, seqVars, reviewVars, logVars, todo, row, item,
                 alerted, mailVars, contended, faults>>

\* _add_lead_to_campaign: a flagged draft is skipped, others meet the gate.
TakeLead(s, q) ==
  /\ pc[s] = "list" /\ q \in todo[s]
  /\ todo' = [todo EXCEPT ![s] = @ \ {q}]
  /\ IF q \in Flagged
       THEN UNCHANGED <<pc, job, contended>>
       ELSE Hold(s, q) /\ pc' = [pc EXCEPT ![s] = "gate"]
  /\ UNCHANGED <<leadVars, seqVars, reviewVars, logVars, row, item, alerted,
                 mailVars, faults>>

(***************************************************************************)
(* /approve and /reject: neither looks at the item's status                *)
(***************************************************************************)

ApproveReview(s, i) ==
  /\ s \in Reviewer /\ pc[s] = "idle"
  /\ i < nextItem
  /\ Hold(s, itemSeq[i])
  /\ item' = [item EXCEPT ![s] = i]
  /\ pc' = [pc EXCEPT ![s] = "gate"]
  /\ UNCHANGED <<leadVars, seqVars, reviewVars, logVars, todo, row, alerted,
                 mailVars, faults>>

RejectReview(s, i) ==
  /\ s \in Reviewer /\ pc[s] = "idle"
  /\ i < nextItem
  /\ itemStatus' = [itemStatus EXCEPT ![i] = "rejected"]
  /\ UNCHANGED <<leadVars, seqVars, reviewMode, itemSeq, nextItem, logVars,
                 senderVars, alerted, mailVars, contended, faults>>

(***************************************************************************)
(* send_to_instantly                                                       *)
(***************************************************************************)

\* 1. Unsubscribe gate.
Gate(s) ==
  /\ pc[s] = "gate"
  /\ IF lead[seqClient[job[s]]] = "unsubscribed"
       THEN Release(s)
       ELSE Goto(s, "dedupe") /\ UNCHANGED row
  /\ UNCHANGED <<leadVars, seqVars, reviewVars, logVars, alerted, mailVars,
                 contended, faults>>

\* 2.5 Dedupe against the latest log row of the sequence: none or failed ...
NotYetSent(s) ==
  /\ pc[s] = "dedupe"
  /\ \A r \in Log : Latest(job[s], r) => logStatus[r] = "failed"
  /\ Goto(s, "insert")
  /\ UNCHANGED <<leadVars, seqVars, reviewVars, logVars, row, alerted,
                 mailVars, contended, faults>>

\* ... sent: report success without sending ...
AlreadySent(s) ==
  /\ pc[s] = "dedupe"
  /\ \E r \in Log : Latest(job[s], r) /\ logStatus[r] = "sent"
  /\ Goto(s, "track")
  /\ UNCHANGED <<leadVars, seqVars, reviewVars, logVars, row, alerted,
                 mailVars, contended, faults>>

\* A wrong version of the next action: the alert is skipped.
FindsPendingQuietly(s) ==
  /\ pc[s] = "dedupe"
  /\ \E r \in Log : /\ Latest(job[s], r) /\ logStatus[r] = "pending"
                    /\ row' = [row EXCEPT ![s] = r]
  /\ Goto(s, "resolve")
  /\ UNCHANGED <<leadVars, seqVars, reviewVars, logVars, alerted, mailVars,
                 contended, faults>>

\* ... pending: an earlier attempt got lost on the way; assume it was sent,
FindsPending(s) ==
  /\ pc[s] = "dedupe"
  /\ \E r \in Log : /\ Latest(job[s], r) /\ logStatus[r] = "pending"
                    /\ row' = [row EXCEPT ![s] = r]
  /\ Goto(s, "warn")
  /\ UNCHANGED <<leadVars, seqVars, reviewVars, logVars, alerted, mailVars,
                 contended, faults>>

\* raise an urgent alert,
WarnOperator(s) ==
  /\ pc[s] = "warn"
  /\ alerted' = alerted \cup {job[s]}
  /\ Goto(s, "resolve")
  /\ UNCHANGED <<leadVars, seqVars, reviewVars, logVars, row, mailVars,
                 contended, faults>>

\* and finalise the row.  The log's trigger only lets pending rows change:
\* if the row was finalised meanwhile, the UPDATE raises.
ResolvePending(s) ==
  /\ pc[s] = "resolve"
  /\ IF logStatus[row[s]] = "pending"
       THEN /\ logStatus' = [logStatus EXCEPT ![row[s]] = "sent"]
            /\ Goto(s, "track") /\ UNCHANGED row
       ELSE Release(s) /\ UNCHANGED logStatus
  /\ UNCHANGED <<leadVars, seqVars, reviewVars, logSeq, nextLog, alerted,
                 mailVars, contended, faults>>

\* 3. The audit row, before the send.
InsertLog(s) ==
  /\ pc[s] = "insert"
  /\ nextLog \in Log
  /\ logSeq' = [logSeq EXCEPT ![nextLog] = job[s]]
  /\ logStatus' = [logStatus EXCEPT ![nextLog] = "pending"]
  /\ nextLog' = nextLog + 1
  /\ row' = [row EXCEPT ![s] = nextLog]
  /\ Goto(s, "call")
  /\ UNCHANGED <<leadVars, seqVars, reviewVars, alerted, mailVars, contended,
                 faults>>

\* No audit row, no send (also what happens here at the bound MaxLog).
InsertFails(s) ==
  /\ pc[s] = "insert"
  /\ Fault \/ (nextLog > MaxLog /\ UNCHANGED faults)
  /\ Release(s)
  /\ UNCHANGED <<leadVars, seqVars, reviewVars, logVars, alerted, mailVars,
                 contended>>

\* 4. add_lead: accepted ...
Accepted(s) ==
  /\ pc[s] = "call"
  /\ delivered' = delivered \cup {row[s]}
  /\ Goto(s, "sent")
  /\ UNCHANGED <<leadVars, seqVars, reviewVars, logVars, row, alerted,
                 ambiguous, contended, faults>>

\* ... accepted, but the answer is lost or unreadable: an exception here ...
AcceptedUnseen(s) ==
  /\ pc[s] = "call" /\ Fault
  /\ delivered' = delivered \cup {row[s]}
  /\ ambiguous' = ambiguous \cup {row[s]}
  /\ Goto(s, "refused")
  /\ UNCHANGED <<leadVars, seqVars, reviewVars, logVars, row, alerted, contended>>

\* ... or refused.
Refused(s) ==
  /\ pc[s] = "call" /\ Fault
  /\ Goto(s, "refused")
  /\ UNCHANGED <<leadVars, seqVars, reviewVars, logVars, row, alerted,
                 mailVars, contended>>

\* A wrong version: the log has no trigger.
FinaliseAnyway(r, outcome) == logStatus' = [logStatus EXCEPT ![r] = outcome]

\* UPDATE by id; what the trigger refuses leaves the row as it is.
Finalise(r, outcome) ==
  logStatus' = IF logStatus[r] = "pending"
                 THEN [logStatus EXCEPT ![r] = outcome] ELSE logStatus

\* After a success, an exception here is only logged ...
FinaliseSent(s) ==
  /\ pc[s] = "sent"
  /\ Finalise(row[s], "sent")
  /\ Goto(s, "track")
  /\ UNCHANGED <<leadVars, seqVars, reviewVars, logSeq, nextLog, row, alerted,
                 mailVars, contended, faults>>

FinaliseLost(s) ==
  /\ pc[s] = "sent" /\ Fault
  /\ Goto(s, "track")
  /\ UNCHANGED <<leadVars, seqVars, reviewVars, logVars, row, alerted,
                 mailVars, contended>>

\* A wrong version of the next action: the failure is reported as a success.
FinaliseFailedAsSent(s) ==
  /\ pc[s] = "refused"
  /\ Finalise(row[s], "failed")
  /\ Goto(s, "track")
  /\ UNCHANGED <<leadVars, seqVars, reviewVars, logSeq, nextLog, row, alerted,
                 mailVars, contended, faults>>

\* ... after a failure it propagates: either way the lead is given up for now.
FinaliseFailed(s) ==
  /\ pc[s] = "refused"
  /\ Finalise(row[s], "failed")
  /\ Release(s)
  /\ UNCHANGED <<leadVars, seqVars, reviewVars, logSeq, nextLog, alerted,
                 mailVars, contended, faults>>

(***************************************************************************)
(* Tracking a successful send                                              *)
(***************************************************************************)

\* Titan, one transaction: a raw UPDATE of the lead when the step is 1.
Track(s) ==
  LET q == job[s] IN
  /\ pc[s] = "track" /\ s \in TitanSender
  /\ seqStatus' = [seqStatus EXCEPT ![q] = "sent"]
  /\ lead' = IF seqStep[q] = 1
               THEN [lead EXCEPT ![seqClient[q]] = "email_sent"] ELSE lead
  /\ Release(s)
  /\ UNCHANGED <<followUps, seqClient, seqStep, nextSeq, reviewVars, logVars,
                 alerted, mailVars, contended, faults>>

\* Hermes, one READ COMMITTED transaction: transition_lead reads the lead and
\* refuses unless it is still queued; the item then stays pending_review ...
CheckTransition(s) ==
  LET q == job[s] IN
  /\ pc[s] = "track" /\ s \in Reviewer
  /\ IF seqStep[q] = 1 /\ lead[seqClient[q]] # "email_queued"
       THEN Release(s)
       ELSE Goto(s, "commit") /\ UNCHANGED row
  /\ UNCHANGED <<leadVars, seqVars, reviewVars, logVars, alerted, mailVars,
                 contended, faults>>

\* ... and otherwise writes lead and sequence.
CommitReview(s) ==
  LET q == job[s] IN
  /\ pc[s] = "commit"
  /\ seqStatus' = [seqStatus EXCEPT ![q] = "sent"]
  /\ lead' = IF seqStep[q] = 1
               THEN [lead EXCEPT ![seqClient[q]] = "email_sent"] ELSE lead
  /\ Goto(s, "approve") /\ UNCHANGED row
  /\ UNCHANGED <<followUps, seqClient, seqStep, nextSeq, reviewVars, logVars,
                 alerted, mailVars, contended, faults>>

MarkApproved(s) ==
  /\ pc[s] = "approve"
  /\ itemStatus' = [itemStatus EXCEPT ![item[s]] = "approved"]
  /\ Release(s)
  /\ UNCHANGED <<leadVars, seqVars, reviewMode, itemSeq, nextItem, logVars,
                 alerted, mailVars, contended, faults>>

(***************************************************************************)
(* What goes wrong                                                         *)
(***************************************************************************)

\* A statement raises.  Per-lead exceptions are caught by the loop over the
\* leads, Hermes' by the bot; one while queueing ends the whole invocation.
StatementRaises(s) ==
  /\ pc[s] \in {"gate", "dedupe", "warn", "resolve", "refused", "track",
                "commit", "approve"} \cup Queueing
  /\ Fault
  /\ IF pc[s] \in Queueing
       THEN /\ pc' = [pc EXCEPT ![s] = "idle"]
            /\ todo' = [todo EXCEPT ![s] = {}]
            /\ job' = [job EXCEPT ![s] = None]
            /\ UNCHANGED <<row, item>>
       ELSE Release(s)
  /\ UNCHANGED <<leadVars, seqVars, reviewVars, logVars, alerted, mailVars,
                 contended>>

\* A process dies with everything it had in hand.
CrashOf(process) ==
  /\ \E s \in process : pc[s] # "idle"
  /\ Fault
  /\ pc' = [s \in Sender |-> IF s \in process THEN "idle" ELSE pc[s]]
  /\ todo' = [s \in Sender |-> IF s \in process THEN {} ELSE todo[s]]
  /\ job' = [s \in Sender |-> IF s \in process THEN None ELSE job[s]]
  /\ row' = [s \in Sender |-> IF s \in process THEN None ELSE row[s]]
  /\ item' = [s \in Sender |-> IF s \in process THEN None ELSE item[s]]
  /\ UNCHANGED <<leadVars, seqVars, reviewVars, logVars, alerted, mailVars,
                 contended>>

(***************************************************************************)
(* The rest of the pipeline                                                *)
(***************************************************************************)

\* _compose_and_queue_follow_up; its step number is follow_up_count + 1, so
\* the first follow-up has the step number of the first e-mail.
FollowUp(c) ==
  /\ lead[c] \in {"email_sent", "followed_up"}
  /\ followUps[c] < FollowUpLimit
  /\ nextSeq \in Seq
  /\ seqClient' = [seqClient EXCEPT ![nextSeq] = c]
  /\ seqStep' = [seqStep EXCEPT ![nextSeq] = followUps[c] + 1]
  /\ seqStatus' = [seqStatus EXCEPT ![nextSeq] = "pending"]
  /\ nextSeq' = nextSeq + 1
  /\ followUps' = [followUps EXCEPT ![c] = @ + 1]
  /\ lead' = [lead EXCEPT ![c] = "followed_up"]
  /\ UNCHANGED <<reviewVars, logVars, senderVars, alerted, mailVars, contended,
                 faults>>

Mailed(c) == \E r \in delivered : seqClient[logSeq[r]] = c

\* A hard bounce found by sync_campaign_analytics: unconditional.  ("sent"
\* stands for every status of a sent sequence: opened, replied, bounced.)
HardBounce(c) ==
  /\ Mailed(c)
  /\ lead' = [lead EXCEPT ![c] = "unsubscribed"]
  /\ UNCHANGED <<followUps, seqVars, reviewVars, logVars, senderVars, alerted,
                 mailVars, contended, faults>>

\* _process_reply, through transition_lead: a first reply, then an opt-out.
Reply(c) ==
  /\ Mailed(c)
  /\ \/ /\ lead[c] \in {"email_sent", "followed_up"}
        /\ lead' = [lead EXCEPT ![c] = "replied"]
     \/ /\ lead[c] = "replied"
        /\ lead' = [lead EXCEPT ![c] = "unsubscribed"]
  /\ UNCHANGED <<followUps, seqVars, reviewVars, logVars, senderVars, alerted,
                 mailVars, contended, faults>>

\* set_config("review_mode", False) once enough sales are closed.
LeaveReviewMode ==
  /\ reviewMode
  /\ reviewMode' = FALSE
  /\ UNCHANGED <<leadVars, seqVars, itemSeq, itemStatus, nextItem, logVars,
                 senderVars, alerted, mailVars, contended, faults>>

-----------------------------------------------------------------------------
GateStep(s) ==
  \/ Gate(s)
  \/ NotYetSent(s) \/ AlreadySent(s) \/ FindsPending(s)
  \/ WarnOperator(s) \/ ResolvePending(s)
  \/ InsertLog(s) \/ InsertFails(s)
  \/ Accepted(s) \/ AcceptedUnseen(s) \/ Refused(s)
  \/ FinaliseSent(s) \/ FinaliseLost(s) \/ FinaliseFailed(s)

SenderStep(s) ==
  \/ SendEmails(s) \/ EndList(s)
  \/ \E q \in Seq : QueueItem(s, q) \/ TakeLead(s, q)
  \/ CheckQueued(s) \/ WriteQueued(s)
  \/ \E i \in Item : ApproveReview(s, i) \/ RejectReview(s, i)
  \/ GateStep(s)
  \/ Track(s) \/ CheckTransition(s) \/ CommitReview(s) \/ MarkApproved(s)
  \/ StatementRaises(s)

PipelineStep ==
  \/ \E c \in Client : FollowUp(c) \/ HardBounce(c) \/ Reply(c)
  \/ LeaveReviewMode

Next ==
  \/ \E s \in Sender : SenderStep(s)
  \/ CrashOf(TitanSender) \/ CrashOf(Reviewer)
  \/ PipelineStep

Spec == Init /\ [][Next]_vars

-----------------------------------------------------------------------------
(***************************************************************************)
(* Properties                                                              *)
(***************************************************************************)

\* Columns and control points are in range, and a sender has a sequence in
\* hand exactly between taking it and letting go of it.
TypeOK ==
  /\ lead \in [Client -> LeadStatus]
  /\ followUps \in [Client -> 0 .. FollowUpLimit]
  /\ seqClient \in [Seq -> Client \cup {NoClient}]
  /\ seqStep \in [Seq -> Nat]
  /\ seqStatus \in [Seq -> {"absent", "pending", "sent"}]
  /\ nextSeq \in 1 .. MaxSeq + 1
  /\ reviewMode \in BOOLEAN
  /\ itemSeq \in [Item -> Seq \cup {None}]
  /\ itemStatus \in [Item -> {"absent", "pending_review", "approved", "rejected"}]
  /\ nextItem \in 1 .. MaxItem + 1
  /\ logSeq \in [Log -> Seq \cup {None}]
  /\ logStatus \in [Log -> {"absent", "pending", "sent", "failed"}]
  /\ nextLog \in 1 .. MaxLog + 1
  /\ pc \in [Sender -> Control]
  /\ todo \in [Sender -> SUBSET Seq]
  /\ job \in [Sender -> Seq \cup {None}]
  /\ row \in [Sender -> Log \cup {None}]
  /\ item \in [Sender -> Item \cup {None}]
  /\ alerted \subseteq Seq
  /\ delivered \subseteq Log /\ ambiguous \subseteq delivered
  /\ contended \subseteq Seq
  /\ faults \in 0 .. MaxFault
  /\ \A s \in Sender : job[s] = None <=> pc[s] \in {"idle", "queueing", "list"}

\* The audit log tells the truth about Instantly: a "failed" row was not
\* accepted, unless the answer was lost, and a "sent" row was accepted, unless
\* the operator was alerted that its outcome had to be guessed.
LogIsTruthful ==
  \A r \in Log :
    /\ logStatus[r] = "failed" /\ r \in delivered => r \in ambiguous
    /\ logStatus[r] = "sent" => r \in delivered \/ logSeq[r] \in alerted

\* No e-mail is silently lost: a sequence that counts as sent was accepted
\* by Instantly at least once, or its alert was raised.
SentMeansDelivered ==
  \A q \in Seq : seqStatus[q] = "sent" =>
    q \in alerted \/ \E r \in delivered : logSeq[r] = q

\* The dedupe step works across crashes, retries, re-approvals and lost
\* finalisations: Instantly gets a sequence twice only if it accepted it
\* behind an error, or if two senders held the sequence at the same time.
NoRepeatUnlessContended ==
  \A r1, r2 \in delivered \ ambiguous :
    logSeq[r1] = logSeq[r2] /\ logSeq[r1] \notin contended => r1 = r2

\* In review mode nothing leaves without having been put to the operator.
ReviewPrecedesSend ==
  reviewMode => \A r \in delivered : \E i \in Item : itemSeq[i] = logSeq[r]

\* What the dedupe is for, without the proviso: an accepted sequence is not
\* handed to Instantly again.
NoRepeat ==
  \A r1, r2 \in delivered \ ambiguous : logSeq[r1] = logSeq[r2] => r1 = r2

\* The tables are an audit log.
Audit == INSTANCE AuditLog WITH
  Mail <- Seq, Row <- Log, NoMail <- None,
  about <- logSeq, outcome <- logStatus, accepted <- delivered,
  unseen <- ambiguous, warned <- alerted,
  done <- {q \in Seq : seqStatus[q] = "sent"}

\* The gate keeps an audit log (init-db.sql, the log's trigger): whoever sends,
\* retries, approves twice or dies, a hand-over is recorded before it happens
\* and happens once per row, and a row that was settled on good grounds is
\* never changed again.
ImplementsAuditLog == Audit!Spec

=============================================================================
