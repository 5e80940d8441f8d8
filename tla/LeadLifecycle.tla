--------------------------- MODULE LeadLifecycle ---------------------------
(***************************************************************************)
(* A lead from its discovery to its first interest.                        *)
(*                                                                         *)
(* Invocations of Titan's stages (the pipeline loop, the queue handlers    *)
(* and the A2A handlers run the same functions, at the same time if it so  *)
(* happens) and the operator's /approve move leads along the table of      *)
(* LeadStateMachine.  Each of them reads the lead, works for a while and   *)
(* then writes: a row of email_sequences, the follow-up counter, and the   *)
(* status, which transition_lead reads and writes in two statements.       *)
(***************************************************************************)
EXTENDS Naturals, LeadStateMachine

CONSTANTS
  Lead,           \* rows of clients, each with its own address
  Worker,         \* invocations that handle one lead at a time
  None,
  FollowUpLimit,  \* the literal 7 of _send_follow_ups
  Wishes,         \* what replies ask for: "unsubscribe", "other"
  MaxSeq,         \* bound: rows of email_sequences
  MaxReply,       \* bound: replies
  MaxFault        \* bound: statements that raise, processes that die

ASSUME LifecycleAssumption ==
  /\ None \notin Lead
  /\ Wishes \subseteq {"unsubscribe", "other"}
  /\ FollowUpLimit \in Nat /\ MaxSeq \in Nat /\ MaxReply \in Nat /\ MaxFault \in Nat

VARIABLES
  status, followUps,  \* clients: status, follow_up_count
  seq, nextSeq,       \* email_sequences
  reviewMode,         \* system_config.review_mode
  queued,             \* sequences with an item in review_queue
  reply, nextReply,   \* Instantly's inbox
  job,                \* what each worker is doing
  faults,
  \* history
  shared,       \* leads two workers composed for, or followed up, at once
  torn,         \* leads whose composing or follow-up was interrupted half-way
  overwritten,  \* leads whose status was written over unread
  optedOut,     \* leads that were unsubscribed at some time
  lapsed        \* opted-out leads that passed the compliance gate again

leadVars    == <<status, followUps>>
mailVars    == <<seq, nextSeq, queued>>
inboxVars   == <<reply, nextReply>>
historyVars == <<shared, torn, overwritten, optedOut, lapsed>>
vars == <<leadVars, reviewMode, mailVars, inboxVars, job, faults, historyVars>>

Seq   == 1 .. MaxSeq
Reply == 1 .. MaxReply

Stages == {"research", "compose", "queue", "send", "approve", "follow", "reply"}
Points == {"idle", "work", "count", "check", "write", "call"}

NoSeq   == [lead |-> None, kind |-> "none", step |-> 0, status |-> "absent"]
NoReply == [lead |-> None, wish |-> "none", state |-> "absent"]
Idle == [at |-> "idle", stage |-> "none", lead |-> None, seq |-> 0, step |-> 0,
         reply |-> 0, target |-> "none", read |-> "none"]

-----------------------------------------------------------------------------
Init ==
  /\ status = [l \in Lead |-> "discovered"]
  /\ followUps = [l \in Lead |-> 0]
  /\ seq = [s \in Seq |-> NoSeq] /\ nextSeq = 1
  /\ reviewMode = TRUE /\ queued = {}
  /\ reply = [r \in Reply |-> NoReply] /\ nextReply = 1
  /\ job = [w \in Worker |-> Idle]
  /\ faults = 0
  /\ shared = {} /\ torn = {} /\ overwritten = {} /\ optedOut = {} /\ lapsed = {}

(***************************************************************************)
(* Building blocks                                                         *)
(***************************************************************************)

\* A worker picks up a lead that a SELECT returned.
Begin(w, stage, l) ==
  /\ job[w] = Idle
  /\ job' = [job EXCEPT ![w] = [Idle EXCEPT !.at = "work", !.stage = stage, !.lead = l]]

SameWork(w, stage, l) ==
  \E v \in Worker \ {w} : job[v].stage = stage /\ job[v].lead = l

Does(w, stage) == job[w].at = "work" /\ job[w].stage = stage

\* The worker calls transition_lead.
Aims(w, target) ==
  job' = [job EXCEPT ![w].at = "check", ![w].target = target]

Stops(w) == job' = [job EXCEPT ![w] = Idle]

\* INSERT INTO email_sequences ... 'pending'
Store(l, kind, step) ==
  /\ nextSeq <= MaxSeq
  /\ seq' = [seq EXCEPT ![nextSeq] =
               [lead |-> l, kind |-> kind, step |-> step, status |-> "pending"]]
  /\ nextSeq' = nextSeq + 1

(***************************************************************************)
(* Research and composing                                                  *)
(***************************************************************************)

\* Neither the SELECT nor the research writes anything transition_lead reads.
research_leads(w, l) ==
  /\ status[l] = "discovered"
  /\ job[w] = Idle
  /\ job' = [job EXCEPT ![w] = [Idle EXCEPT !.at = "check", !.stage = "research",
                                  !.lead = l, !.target = "researched"]]
  /\ UNCHANGED <<leadVars, reviewMode, mailVars, inboxVars, faults, historyVars>>

\* A wrong version: drafted leads are selected too.
compose_emails_again(w, l) ==
  /\ status[l] \in {"researched", "email_drafted"}
  /\ Begin(w, "compose", l)
  /\ shared' = IF SameWork(w, "compose", l) THEN shared \cup {l} ELSE shared
  /\ UNCHANGED <<leadVars, reviewMode, mailVars, inboxVars, faults, torn, overwritten, optedOut, lapsed>>

compose_emails(w, l) ==
  /\ status[l] = "researched"
  /\ Begin(w, "compose", l)
  /\ shared' = IF SameWork(w, "compose", l) THEN shared \cup {l} ELSE shared
  /\ UNCHANGED <<leadVars, reviewMode, mailVars, inboxVars, faults, torn, overwritten, optedOut, lapsed>>

ComposeOne(w) ==
  /\ Does(w, "compose")
  /\ Store(job[w].lead, "draft", 1)
  /\ Aims(w, "email_drafted")
  /\ UNCHANGED <<leadVars, reviewMode, queued, inboxVars, faults, historyVars>>

(***************************************************************************)
(* Sending                                                                 *)
(***************************************************************************)

\* The SELECT of send_emails and of _queue_for_review.
Due(s) == /\ seq[s].status = "pending"
          /\ status[seq[s].lead] \in {"email_drafted", "followed_up"}

send_emails(w, s) ==
  /\ Due(s)
  /\ job[w] = Idle
  /\ job' = [job EXCEPT ![w] =
       [Idle EXCEPT !.at = "work", !.stage = IF reviewMode THEN "queue" ELSE "send",
                    !.lead = seq[s].lead, !.seq = s, !.step = seq[s].step,
                    !.read = status[seq[s].lead]]]
  /\ UNCHANGED <<leadVars, reviewMode, mailVars, inboxVars, faults, historyVars>>

\* _queue_for_review: only a first e-mail moves its lead.
QueueForReview(w) ==
  /\ Does(w, "queue")
  /\ queued' = queued \cup {job[w].seq}
  /\ IF job[w].step = 1 THEN Aims(w, "email_queued") ELSE Stops(w)
  /\ UNCHANGED <<leadVars, reviewMode, seq, nextSeq, inboxVars, faults, historyVars>>

\* A wrong version: the status of the lead is not looked at.
GateOpen(w) ==
  /\ Does(w, "send")
  /\ lapsed' = IF job[w].lead \in optedOut THEN lapsed \cup {job[w].lead} ELSE lapsed
  /\ job' = [job EXCEPT ![w].at = "call"]
  /\ UNCHANGED <<leadVars, reviewMode, mailVars, inboxVars, faults, shared, torn, overwritten, optedOut>>

\* send_to_instantly turns unsubscribed leads away.
Gate(w) ==
  /\ Does(w, "send")
  /\ IF status[job[w].lead] = "unsubscribed"
     THEN Stops(w) /\ UNCHANGED lapsed
     ELSE /\ job' = [job EXCEPT ![w].at = "call"]
          /\ lapsed' = IF job[w].lead \in optedOut THEN lapsed \cup {job[w].lead} ELSE lapsed
  /\ UNCHANGED <<leadVars, reviewMode, mailVars, inboxVars, faults, shared, torn, overwritten, optedOut>>

\* /approve looks at neither the item's status nor the sequence's, and then
\* passes the same gate.
approve_review(w, s) ==
  /\ s \in queued
  /\ job[w] = Idle
  /\ status[seq[s].lead] # "unsubscribed"
  /\ job' = [job EXCEPT ![w] = [Idle EXCEPT !.at = "call", !.stage = "approve",
                                  !.lead = seq[s].lead, !.seq = s, !.step = seq[s].step]]
  /\ lapsed' = IF seq[s].lead \in optedOut THEN lapsed \cup {seq[s].lead} ELSE lapsed
  /\ UNCHANGED <<leadVars, reviewMode, mailVars, inboxVars, faults, shared, torn, overwritten, optedOut>>

\* Titan's tracking transaction: a raw UPDATE, by id.
Track(w) ==
  /\ job[w].at = "call" /\ job[w].stage = "send"
  /\ seq' = [seq EXCEPT ![job[w].seq].status = "sent"]
  /\ LET l == job[w].lead IN
       IF job[w].step = 1
       THEN /\ status' = [status EXCEPT ![l] = "email_sent"]
            /\ overwritten' = IF status[l] = job[w].read THEN overwritten ELSE overwritten \cup {l}
       ELSE UNCHANGED <<status, overwritten>>
  /\ Stops(w)
  /\ UNCHANGED <<followUps, reviewMode, nextSeq, queued, inboxVars, faults, shared, torn, optedOut, lapsed>>

\* Hermes: a first e-mail must still take its lead to email_sent, in the same
\* transaction, or the sequence stays pending.
TrackApproved(w) ==
  /\ job[w].at = "call" /\ job[w].stage = "approve"
  /\ IF job[w].step = 1
     THEN Aims(w, "email_sent") /\ UNCHANGED seq
     ELSE Stops(w) /\ seq' = [seq EXCEPT ![job[w].seq].status = "sent"]
  /\ UNCHANGED <<leadVars, reviewMode, nextSeq, queued, inboxVars, faults, historyVars>>

(***************************************************************************)
(* Follow-ups                                                              *)
(***************************************************************************)

\* The three days since the last contact may have passed at any time.
SendFollowUps(w, l) ==
  /\ status[l] \in {"email_sent", "followed_up"}
  /\ followUps[l] < FollowUpLimit
  /\ job[w] = Idle
  /\ job' = [job EXCEPT ![w] = [Idle EXCEPT !.at = "work", !.stage = "follow",
                                  !.lead = l, !.step = followUps[l] + 1]]
  /\ shared' = IF SameWork(w, "follow", l) THEN shared \cup {l} ELSE shared
  /\ UNCHANGED <<leadVars, reviewMode, mailVars, inboxVars, faults, torn, overwritten, optedOut, lapsed>>

QueueFollowUp(w) ==
  /\ Does(w, "follow")
  /\ Store(job[w].lead, "follow_up", job[w].step)
  /\ job' = [job EXCEPT ![w].at = "count"]
  /\ UNCHANGED <<leadVars, reviewMode, queued, inboxVars, faults, historyVars>>

\* A wrong version: the counter is left alone.
CountFollowUpNot(w) ==
  /\ job[w].at = "count"
  /\ Aims(w, "followed_up")
  /\ UNCHANGED <<leadVars, reviewMode, mailVars, inboxVars, faults, historyVars>>

CountFollowUp(w) ==
  /\ job[w].at = "count"
  /\ followUps' = [followUps EXCEPT ![job[w].lead] = job[w].step]
  /\ Aims(w, "followed_up")
  /\ UNCHANGED <<status, reviewMode, mailVars, inboxVars, faults, historyVars>>

(***************************************************************************)
(* Replies                                                                 *)
(***************************************************************************)

\* What process_reply makes of an intent; questions and out-of-office
\* messages share the last branch.
TargetOf(intent) ==
  CASE intent = "interested"     -> "interested"
    [] intent = "not_interested" -> "lost"
    [] intent = "unsubscribe"    -> "unsubscribed"
    [] OTHER                     -> "replied"

\* _classify_reply: a keyword scan recognises an opt-out, a model guesses
\* the rest.
Intents(wish) ==
  IF wish = "unsubscribe" THEN {"unsubscribe"}
  ELSE {"interested", "not_interested", "question", "unsubscribe", "out_of_office"}

process_reply(w, r) ==
  /\ reply[r].state = "unread"
  /\ job[w] = Idle
  /\ \E intent \in Intents(reply[r].wish) :
       job' = [job EXCEPT ![w] = [Idle EXCEPT !.at = "check", !.stage = "reply",
                 !.lead = reply[r].lead, !.reply = r, !.target = TargetOf(intent)]]
  /\ UNCHANGED <<leadVars, reviewMode, mailVars, inboxVars, faults, historyVars>>

(***************************************************************************)
(* transition_lead: a SELECT, then an UPDATE by id                         *)
(***************************************************************************)

\* The caller goes on: it looks at the answer of transition_lead in none of
\* these stages, and a reply that was processed is marked read, which may fail.
Returns(w) ==
  /\ Stops(w)
  /\ UNCHANGED nextReply
  /\ IF job[w].stage = "reply"
     THEN \/ /\ reply' = [reply EXCEPT ![job[w].reply].state = "read"]
             /\ UNCHANGED faults
          \/ /\ faults < MaxFault /\ faults' = faults + 1
             /\ UNCHANGED reply
     ELSE UNCHANGED <<reply, faults>>

\* transition_lead returns False and nobody minds.
Refused(w) ==
  /\ job[w].at = "check"
  /\ ~can_transition(status[job[w].lead], job[w].target)
  /\ Returns(w)
  /\ UNCHANGED <<leadVars, reviewMode, mailVars, historyVars>>

CheckTransition(w) ==
  /\ job[w].at = "check"
  /\ can_transition(status[job[w].lead], job[w].target)
  /\ job' = [job EXCEPT ![w].at = "write", ![w].read = status[job[w].lead]]
  /\ UNCHANGED <<leadVars, reviewMode, mailVars, inboxVars, faults, historyVars>>

\* An approved sequence is marked sent by the same transaction.
WriteTransition(w) ==
  /\ job[w].at = "write"
  /\ LET l == job[w].lead IN
       /\ status' = [status EXCEPT ![l] = job[w].target]
       /\ overwritten' = IF status[l] = job[w].read THEN overwritten ELSE overwritten \cup {l}
       /\ optedOut' = IF job[w].target = "unsubscribed" THEN optedOut \cup {l} ELSE optedOut
  /\ seq' = IF job[w].stage = "approve"
            THEN [seq EXCEPT ![job[w].seq].status = "sent"] ELSE seq
  /\ Returns(w)
  /\ UNCHANGED <<followUps, reviewMode, nextSeq, queued, shared, torn, lapsed>>

(***************************************************************************)
(* The leads and the faults                                                *)
(***************************************************************************)

Mailed(l) == \E s \in Seq : seq[s].lead = l /\ seq[s].status = "sent"

Answers(l, wish) ==
  /\ Mailed(l) /\ nextReply <= MaxReply
  /\ reply' = [reply EXCEPT ![nextReply] = [lead |-> l, wish |-> wish, state |-> "unread"]]
  /\ nextReply' = nextReply + 1
  /\ UNCHANGED <<leadVars, reviewMode, mailVars, job, faults, historyVars>>

\* _sync_sequence_engagement: a raw UPDATE for a hard bounce.
HardBounce(l) ==
  /\ Mailed(l)
  /\ status' = [status EXCEPT ![l] = "unsubscribed"]
  /\ optedOut' = optedOut \cup {l}
  /\ UNCHANGED <<followUps, reviewMode, mailVars, inboxVars, job, faults, shared, torn, overwritten, lapsed>>

\* mark_sale_closed: sales_completed reached the threshold.
LeaveReviewMode ==
  /\ reviewMode
  /\ reviewMode' = FALSE
  /\ UNCHANGED <<leadVars, mailVars, inboxVars, job, faults, historyVars>>

\* Text that cannot be parsed or does not pass validation, a model that
\* advises against a follow-up, a flagged draft, a send Instantly refuses.
Declines(w) ==
  /\ \/ Does(w, "compose") \/ Does(w, "follow") \/ Does(w, "send")
     \/ job[w].at = "call"
  /\ Stops(w)
  /\ UNCHANGED <<leadVars, reviewMode, mailVars, inboxVars, faults, historyVars>>

\* The draft or the follow-up is stored and what should follow is not.
HalfDone(w) ==
  \/ job[w].at = "count"
  \/ job[w].at \in {"check", "write"} /\ job[w].stage = "compose"

\* A statement or an outside call raises, or the process dies.
Interrupt(w) ==
  /\ job[w] # Idle
  /\ faults < MaxFault
  /\ faults' = faults + 1
  /\ torn' = IF HalfDone(w) THEN torn \cup {job[w].lead} ELSE torn
  /\ Stops(w)
  /\ UNCHANGED <<leadVars, reviewMode, mailVars, inboxVars, shared, overwritten, optedOut, lapsed>>

Picks(w) ==
  \/ \E l \in Lead : research_leads(w, l) \/ compose_emails(w, l) \/ SendFollowUps(w, l)
  \/ \E s \in Seq : send_emails(w, s) \/ approve_review(w, s)
  \/ \E r \in Reply : process_reply(w, r)

Works(w) ==
  \/ ComposeOne(w) \/ QueueForReview(w) \/ Gate(w)
  \/ Track(w) \/ TrackApproved(w)
  \/ Declines(w)
  \/ QueueFollowUp(w) \/ CountFollowUp(w)
  \/ CheckTransition(w) \/ Refused(w) \/ WriteTransition(w)

Next ==
  \/ LeaveReviewMode
  \/ \E w \in Worker : Picks(w) \/ Works(w) \/ Interrupt(w)
  \/ \E l \in Lead : HardBounce(l) \/ \E wish \in Wishes : Answers(l, wish)

Spec == Init /\ [][Next]_vars

(***************************************************************************)
(* Properties                                                              *)
(***************************************************************************)

\* The columns and the workers' records stay in range, a worker knows the
\* lead it handles, and what it is about to write was allowed by the table
\* from the status it read.
TypeOK ==
  /\ status \in [Lead -> LeadStatus]
  /\ followUps \in [Lead -> 0 .. FollowUpLimit]
  /\ seq \in [Seq -> [lead : Lead \cup {None}, kind : {"none", "draft", "follow_up"},
                      step : 0 .. FollowUpLimit + 1, status : {"absent", "pending", "sent"}]]
  /\ nextSeq \in 1 .. MaxSeq + 1
  /\ reviewMode \in BOOLEAN
  /\ queued \subseteq Seq
  /\ reply \in [Reply -> [lead : Lead \cup {None}, wish : {"none", "unsubscribe", "other"},
                          state : {"absent", "unread", "read"}]]
  /\ nextReply \in 1 .. MaxReply + 1
  /\ job \in [Worker -> [at : Points, stage : Stages \cup {"none"}, lead : Lead \cup {None},
                         seq : 0 .. MaxSeq, step : 0 .. FollowUpLimit + 1, reply : 0 .. MaxReply,
                         target : LeadStatus \cup {"none"}, read : LeadStatus \cup {"none"}]]
  /\ faults \in 0 .. MaxFault
  /\ shared \subseteq Lead /\ torn \subseteq Lead /\ overwritten \subseteq Lead
  /\ lapsed \subseteq optedOut /\ optedOut \subseteq Lead
  /\ \A w \in Worker : /\ job[w].at = "idle" <=> job[w] = Idle
                       /\ job[w] # Idle => job[w].lead \in Lead
                       /\ job[w].at = "write" =>
                            /\ job[w].read \in LeadStatus
                            /\ job[w].target \in TRANSITIONS[job[w].read]

SameFollowUp(s, t) ==
  /\ s # t
  /\ seq[s].kind = "follow_up" /\ seq[t].kind = "follow_up"
  /\ seq[s].lead = seq[t].lead /\ seq[s].step = seq[t].step

\* Each follow-up is written once, unless two invocations followed the lead up
\* at the same time or one was interrupted between the INSERT of the sequence
\* and the UPDATE of follow_up_count (follow_up.py:298-317).
FollowUpsOnce ==
  \A s, t \in Seq : SameFollowUp(s, t) => seq[s].lead \in shared \cup torn

\* A lead gets one first e-mail, unless two invocations composed for it at the
\* same time, composing was interrupted between the INSERT and the transition,
\* or a late transition made the lead look new again (email_compose.py:204-210).
FirstContactOnce ==
  \A s, t \in Seq :
    s # t /\ seq[s].kind = "draft" /\ seq[t].kind = "draft" /\ seq[s].lead = seq[t].lead
      => seq[s].lead \in shared \cup torn \cup overwritten

\* The gate lets nothing through for a lead that opted out or bounced, unless
\* a writer that had read the lead before wrote its status over unread: then
\* the opt-out is lost for good (state_machine.py:53, email_send.py:380).
OptOutStops == lapsed \subseteq overwritten

\* A status changes along the table, except that Titan's tracking UPDATE and
\* a hard bounce do not ask, and that a late writer may leave the table.
MovesFollowTable ==
  [][\A l \in Lead : status'[l] # status[l] =>
       \/ status'[l] \in TRANSITIONS[status[l]]
       \/ status'[l] = "email_sent" /\ \E w \in Worker : job[w].lead = l /\ job[w].at = "call"
       \/ status'[l] = "unsubscribed"
       \/ l \in overwritten']_vars

\* "Missing an unsubscribe request is a legal violation": a reply that asks to
\* be left alone and was marked read has unsubscribed its lead.
OptOutIsHonoured ==
  \A r \in Reply : reply[r].state = "read" /\ reply[r].wish = "unsubscribe"
                     => reply[r].lead \in optedOut

=============================================================================
