------------------------ MODULE LeadLifecycleProofs ------------------------
(***************************************************************************)
(* Proofs about LeadLifecycle, for any leads, invocations, follow-up limit *)
(* and any number of replies and interruptions.                            *)
(***************************************************************************)
EXTENDS LeadLifecycle, TLAPS

JobRecord ==
  [at : Points, stage : Stages \cup {"none"}, lead : Lead \cup {None}, seq : 0 .. MaxSeq,
   step : 0 .. FollowUpLimit + 1, reply : 0 .. MaxReply,
   target : LeadStatus \cup {"none"}, read : LeadStatus \cup {"none"}]

SeqRecord ==
  [lead : Lead \cup {None}, kind : {"none", "draft", "follow_up"},
   step : 0 .. FollowUpLimit + 1, status : {"absent", "pending", "sent"}]

\* Where each stage wants a lead to go.
Aimed ==
  {<<"research", "researched">>, <<"compose", "email_drafted">>, <<"queue", "email_queued">>,
   <<"approve", "email_sent">>, <<"follow", "followed_up">>, <<"reply", "interested">>,
   <<"reply", "lost">>, <<"reply", "unsubscribed">>, <<"reply", "replied">>}

(***************************************************************************)
(* The inductive invariant                                                 *)
(***************************************************************************)

\* What an invocation knows about what it has in hand.
JobOK(j) ==
  /\ j # Idle => j.lead \in Lead
  /\ j.at \in {"check", "write"} <=> j.target # "none"
  /\ j.target # "none" => <<j.stage, j.target>> \in Aimed
  /\ j.at = "write" => j.read \in LeadStatus /\ j.target \in TRANSITIONS[j.read]
  /\ j.at = "call" => j.stage \in {"send", "approve"}
  /\ j.at = "count" => j.stage = "follow"
  /\ j.stage \in {"queue", "send", "approve"} => j.seq \in Seq /\ seq[j.seq] # NoSeq
  /\ j.stage = "send" => j.read \in {"email_drafted", "followed_up"}
  /\ j.stage = "follow" => j.step \in 0 .. FollowUpLimit
  /\ j.stage = "reply" => j.reply \in Reply

Jobs == \A w \in Worker : JobOK(job[w])

\* Sequences are written in order, and replies come from leads.
Rows ==
  /\ \A s \in Seq : IF s < nextSeq THEN seq[s].lead \in Lead /\ seq[s] # NoSeq
                    ELSE seq[s] = NoSeq
  /\ \A s \in queued : seq[s] # NoSeq
  /\ \A r \in Reply : reply[r].state = "unread" => reply[r].lead \in Lead

\* Who opted out is unsubscribed, unless a late writer took that back.
OptedOut ==
  \A l \in optedOut : l \in overwritten \/ status[l] = "unsubscribed"

Busy(w, stage, l) == job[w].stage = stage /\ job[w].lead = l

\* One invocation at a time follows a lead up: it has the next step in hand,
\* and it alone has written a step that the counter does not have yet.
FollowedUp(l) ==
  /\ \A v, w \in Worker : Busy(v, "follow", l) /\ Busy(w, "follow", l) => v = w
  /\ \A w \in Worker : Busy(w, "follow", l) /\ job[w].at \in {"work", "count"}
                         => job[w].step = followUps[l] + 1
  /\ \A s \in Seq : seq[s].lead = l /\ seq[s].kind = "follow_up" =>
       \/ seq[s].step <= followUps[l]
       \/ /\ seq[s].step = followUps[l] + 1
          /\ \E w \in Worker : Busy(w, "follow", l) /\ job[w].at = "count"
  /\ \A s, t \in Seq : SameFollowUp(s, t) => seq[s].lead # l

FollowUps == \A l \in Lead \ (shared \cup torn) : FollowedUp(l)

Draft(s, l) == seq[s].lead = l /\ seq[s].kind = "draft"
Drafted(l)  == \E s \in Seq : Draft(s, l)

\* One invocation at a time composes for a lead; while it works there is no
\* draft, and a lead that has one is moved on before it can be picked up again.
Composed(l) ==
  /\ \A v, w \in Worker : Busy(v, "compose", l) /\ Busy(w, "compose", l) => v = w
  /\ \A w \in Worker : Busy(w, "compose", l) /\ job[w].at = "work" => ~Drafted(l)
  /\ \A s, t \in Seq : Draft(s, l) /\ Draft(t, l) => s = t
  /\ status[l] = "discovered" => ~Drafted(l) /\ \A w \in Worker : ~Busy(w, "compose", l)
  /\ status[l] = "researched" /\ Drafted(l) =>
       \E w \in Worker : Busy(w, "compose", l) /\ job[w].at \in {"check", "write"}

Composing == \A l \in Lead \ (shared \cup torn \cup overwritten) : Composed(l)

IInv == TypeOK /\ Rows /\ Jobs /\ OptedOut /\ OptOutStops /\ FollowUps /\ Composing

(***************************************************************************)
(* Invocations                                                             *)
(***************************************************************************)

\* The transitions the proofs rely on.
LEMMA Table ==
  /\ \A s \in LeadStatus : TRANSITIONS[s] \subseteq LeadStatus
  /\ \A s \in LeadStatus : /\ "discovered" \notin TRANSITIONS[s]
                           /\ "researched" \in TRANSITIONS[s] => s = "discovered"
  /\ TRANSITIONS["unsubscribed"] = {} /\ "email_drafted" \in TRANSITIONS["researched"]
  BY DEF TRANSITIONS, LeadStatus

LEMMA IdleFacts ==
  /\ Idle \in JobRecord
  /\ Idle.at = "idle" /\ Idle.stage = "none" /\ Idle.lead = None
  /\ Idle.target = "none" /\ Idle.read = "none"
<1>1. Idle \in JobRecord
  BY LifecycleAssumption DEF JobRecord, Points, Idle
<1> QED
  BY <1>1 DEF Idle

WorkerActs(w) == Picks(w) \/ Works(w) \/ Interrupt(w)

\* A row keeps what an invocation has read of it.
Grows ==
  \A s \in Seq : seq[s] # NoSeq => /\ seq'[s] # NoSeq /\ seq'[s].lead = seq[s].lead
                                   /\ seq'[s].kind = seq[s].kind /\ seq'[s].step = seq[s].step

LEMMA OthersKeep ==
  ASSUME Grows, NEW j \in JobRecord, JobOK(j)
  PROVE  JobOK(j)'
  BY DEF JobOK, Grows

\* Who writes what.
LEMMA Writers ==
  ASSUME [Next]_vars
  PROVE  /\ \/ UNCHANGED <<status, overwritten, optedOut>>
            \/ \E w \in Worker : Track(w) \/ WriteTransition(w)
            \/ \E l \in Lead : HardBounce(l)
         /\ UNCHANGED followUps \/ \E w \in Worker : CountFollowUp(w)
         /\ \/ UNCHANGED <<seq, nextSeq>>
            \/ \E w \in Worker : \/ ComposeOne(w) \/ QueueFollowUp(w)
                                 \/ Track(w) \/ TrackApproved(w) \/ WriteTransition(w)
         /\ UNCHANGED queued \/ \E w \in Worker : QueueForReview(w)
         /\ \/ UNCHANGED <<reply, nextReply>>
            \/ \E w \in Worker : Refused(w) \/ WriteTransition(w)
            \/ \E l \in Lead, wish \in Wishes : Answers(l, wish)
         /\ \/ UNCHANGED lapsed
            \/ \E w \in Worker : Gate(w) \/ \E s \in Seq : approve_review(w, s)
         /\ shared \subseteq shared' /\ torn \subseteq torn'
<1> USE DEF leadVars, mailVars, inboxVars, historyVars
<1>1. ASSUME NEW w \in Worker, Picks(w)
      PROVE  /\ UNCHANGED <<status, followUps, seq, nextSeq, queued, reply, nextReply, torn,
                            overwritten, optedOut>>
             /\ shared \subseteq shared'
             /\ UNCHANGED lapsed \/ \E s \in Seq : approve_review(w, s)
  BY <1>1 DEF Picks, research_leads, compose_emails, SendFollowUps, send_emails, approve_review,
     process_reply
<1>2. ASSUME NEW w \in Worker, Interrupt(w)
      PROVE  /\ UNCHANGED <<status, followUps, seq, nextSeq, queued, reply, nextReply, shared,
                            overwritten, optedOut, lapsed>>
             /\ torn \subseteq torn'
  BY <1>2 DEF Interrupt
<1>3. ASSUME NEW w \in Worker, Works(w)
      PROVE  /\ UNCHANGED <<status, overwritten, optedOut>> \/ Track(w) \/ WriteTransition(w)
             /\ UNCHANGED followUps \/ CountFollowUp(w)
             /\ \/ UNCHANGED <<seq, nextSeq>> \/ ComposeOne(w) \/ QueueFollowUp(w)
                \/ Track(w) \/ TrackApproved(w) \/ WriteTransition(w)
             /\ UNCHANGED queued \/ QueueForReview(w)
             /\ UNCHANGED <<reply, nextReply>> \/ Refused(w) \/ WriteTransition(w)
             /\ UNCHANGED lapsed \/ Gate(w)
             /\ UNCHANGED <<shared, torn>>
  BY <1>3 DEF Works, ComposeOne, QueueForReview, Gate, Track, TrackApproved, Declines,
     QueueFollowUp, CountFollowUp, CheckTransition, Refused, WriteTransition
<1>4. ASSUME NEW l \in Lead, HardBounce(l)
      PROVE  UNCHANGED <<followUps, seq, nextSeq, queued, reply, nextReply, shared, torn, lapsed>>
  BY <1>4 DEF HardBounce
<1>5. ASSUME NEW l \in Lead, NEW wish \in Wishes, Answers(l, wish)
      PROVE  UNCHANGED <<status, followUps, seq, nextSeq, queued, shared, torn, overwritten,
                         optedOut, lapsed>>
  BY <1>5 DEF Answers
<1>6. CASE LeaveReviewMode \/ UNCHANGED vars
  BY <1>6 DEF LeaveReviewMode, vars
<1> QED
  BY <1>1, <1>2, <1>3, <1>4, <1>5, <1>6 DEF Next

\* A sequence is written by the stage that composes or follows up, and then
\* only marked as sent.
LEMMA SeqWritten ==
  ASSUME TypeOK, Rows, Jobs, [Next]_vars, NEW s \in Seq
  PROVE  /\ seq'[s] \in SeqRecord
         /\ \/ /\ seq'[s].lead = seq[s].lead /\ seq'[s].kind = seq[s].kind
               /\ seq'[s].step = seq[s].step
               /\ seq[s] = NoSeq => seq'[s] = NoSeq
               /\ seq[s] # NoSeq => seq'[s] # NoSeq
            \/ /\ s = nextSeq /\ seq[s] = NoSeq /\ seq'[s] # NoSeq
               /\ \E w \in Worker :
                    /\ ComposeOne(w) \/ QueueFollowUp(w)
                    /\ job[w].lead \in Lead /\ seq'[s].lead = job[w].lead
                    /\ ComposeOne(w) => seq'[s].kind = "draft" /\ seq'[s].step = 1
                    /\ QueueFollowUp(w) => seq'[s].kind = "follow_up" /\ seq'[s].step = job[w].step
                    /\ nextSeq' = nextSeq + 1
<1> USE LifecycleAssumption
<1>t. seq \in [Seq -> SeqRecord] /\ job \in [Worker -> JobRecord] /\ nextSeq \in 1 .. MaxSeq + 1
  BY DEF TypeOK, SeqRecord, JobRecord
<1>n. NoSeq \in SeqRecord /\ NoSeq.lead = None /\ NoSeq.status = "absent"
  BY DEF NoSeq, SeqRecord
<1>1. CASE UNCHANGED <<seq, nextSeq>>
  BY <1>t, <1>1
<1>2. ASSUME NEW q \in Seq, seq[q] # NoSeq, seq' = [seq EXCEPT ![q].status = "sent"]
      PROVE  /\ seq'[s] \in SeqRecord
             /\ seq'[s].lead = seq[s].lead /\ seq'[s].kind = seq[s].kind
             /\ seq'[s].step = seq[s].step
             /\ seq[s] = NoSeq => seq'[s] = NoSeq
             /\ seq[s] # NoSeq => seq'[s] # NoSeq
  <2>1. CASE s = q
    <3>1. seq'[s] = [seq[s] EXCEPT !.status = "sent"]
      BY <1>t, <1>2, <2>1
    <3>2. seq'[s].status = "sent"
      BY <1>t, <3>1 DEF SeqRecord
    <3> QED
      BY <1>t, <1>n, <1>2, <2>1, <3>1, <3>2 DEF SeqRecord
  <2>2. CASE s # q
    BY <1>t, <1>2, <2>2
  <2> QED
    BY <2>1, <2>2
<1>3. ASSUME NEW w \in Worker, Track(w) \/ TrackApproved(w) \/ WriteTransition(w)
      PROVE  \/ UNCHANGED seq
             \/ \E q \in Seq : seq[q] # NoSeq /\ seq' = [seq EXCEPT ![q].status = "sent"]
  <2>1. JobOK(job[w])
    BY DEF Jobs
  <2> QED
    BY <1>3, <2>1 DEF JobOK, Track, TrackApproved, WriteTransition
<1>4. ASSUME NEW w \in Worker, NEW l \in Lead, NEW kind \in {"draft", "follow_up"},
             NEW step \in 0 .. FollowUpLimit + 1, Store(l, kind, step)
      PROVE  /\ seq'[s] \in SeqRecord
             /\ \/ seq'[s] = seq[s]
                \/ /\ s = nextSeq /\ seq[s] = NoSeq /\ seq'[s] # NoSeq
                   /\ seq'[s].lead = l /\ seq'[s].kind = kind /\ seq'[s].step = step
                   /\ nextSeq' = nextSeq + 1
  <2>1. PICK x \in SeqRecord : x = [lead |-> l, kind |-> kind, step |-> step, status |-> "pending"]
    BY DEF SeqRecord
  <2>2. seq' = [seq EXCEPT ![nextSeq] = x] /\ nextSeq' = nextSeq + 1
    BY <1>4, <2>1 DEF Store
  <2>3. CASE s = nextSeq
    <3>1. seq[s] = NoSeq
      BY <2>3 DEF Rows, Seq
    <3>2. seq'[s] = x
      BY <1>t, <2>2, <2>3
    <3> QED
      BY <1>n, <2>1, <2>2, <2>3, <3>1, <3>2
  <2>4. CASE s # nextSeq
    BY <1>t, <2>2, <2>4
  <2> QED
    BY <2>3, <2>4
<1>5. ASSUME NEW w \in Worker, ComposeOne(w) \/ QueueFollowUp(w)
      PROVE  /\ job[w].lead \in Lead /\ job[w].step \in 0 .. FollowUpLimit + 1
             /\ ComposeOne(w) => Store(job[w].lead, "draft", 1) /\ ~QueueFollowUp(w)
             /\ QueueFollowUp(w) => Store(job[w].lead, "follow_up", job[w].step)
  BY <1>t, <1>5, IdleFacts DEF ComposeOne, QueueFollowUp, Does, Jobs, JobOK, JobRecord
<1>6. ASSUME NEW w \in Worker, ComposeOne(w) \/ QueueFollowUp(w)
      PROVE  /\ seq'[s] \in SeqRecord
             /\ \/ seq'[s] = seq[s]
                \/ /\ s = nextSeq /\ seq[s] = NoSeq /\ seq'[s] # NoSeq
                   /\ job[w].lead \in Lead /\ seq'[s].lead = job[w].lead
                   /\ ComposeOne(w) => seq'[s].kind = "draft" /\ seq'[s].step = 1
                   /\ QueueFollowUp(w) => seq'[s].kind = "follow_up" /\ seq'[s].step = job[w].step
                   /\ nextSeq' = nextSeq + 1
  <2>1. PICK l \in Lead, step \in 0 .. FollowUpLimit + 1 : l = job[w].lead /\ step = job[w].step
    BY <1>5, <1>6
  <2>2. CASE ComposeOne(w)
    <3>1. Store(l, "draft", 1) /\ ~QueueFollowUp(w)
      BY <1>5, <2>1, <2>2 DEF Store
    <3>2. 1 \in 0 .. FollowUpLimit + 1
      OBVIOUS
    <3> QED
      BY <1>4, <2>1, <3>1, <3>2
  <2>3. CASE QueueFollowUp(w)
    <3>1. Store(l, "follow_up", step)
      BY <1>5, <2>1, <2>3 DEF Store
    <3>2. ~ComposeOne(w)
      BY <1>5, <2>3
    <3> QED
      BY <1>4, <2>1, <3>1, <3>2
  <2> QED
    BY <1>6, <2>2, <2>3
<1>7. CASE \E w \in Worker : ComposeOne(w) \/ QueueFollowUp(w)
  BY <1>6, <1>7
<1>8. CASE \E w \in Worker : Track(w) \/ TrackApproved(w) \/ WriteTransition(w)
  BY <1>2, <1>3, <1>8, <1>t
<1> QED
  BY <1>1, <1>7, <1>8, Writers

LEMMA GrowStep == TypeOK /\ Rows /\ Jobs /\ [Next]_vars => Grows
  BY SeqWritten DEF Grows

\* w has made a step and knows what it should.
Advanced(w) ==
  /\ job' \in [Worker -> JobRecord]
  /\ \A v \in Worker \ {w} : job'[v] = job[v]
  /\ JobOK(job[w])'
  /\ job'[w].at = "idle" <=> job'[w] = Idle

\* One that puts down what it had in hand knows nothing.
LEMMA Rests ==
  ASSUME TypeOK, NEW w \in Worker, Stops(w)
  PROVE  Advanced(w)
<1>1. JobOK(Idle)'
  BY IdleFacts DEF JobOK
<1>2. job \in [Worker -> JobRecord]
  BY DEF TypeOK, JobRecord
<1> QED
  BY <1>1, <1>2, IdleFacts DEF Advanced, JobOK, Stops

\* One that takes something in hand knows what it has read.
LEMMA Advances ==
  ASSUME TypeOK, NEW w \in Worker, NEW j \in JobRecord, job' = [job EXCEPT ![w] = j],
         JobOK(j)', j.at # "idle"
  PROVE  Advanced(w)
<1>1. job \in [Worker -> JobRecord]
  BY DEF TypeOK, JobRecord
<1> QED
  BY <1>1, IdleFacts DEF Advanced, JobOK

\* An invocation that picks up a lead, a sequence or a reply.
LEMMA PickStep ==
  ASSUME TypeOK, Rows, Grows, NEW w \in Worker, Picks(w)
  PROVE  Advanced(w)
<1>b. FollowUpLimit \in Nat /\ MaxSeq \in Nat /\ MaxReply \in Nat
  BY LifecycleAssumption
<1>1. ASSUME NEW l \in Lead, research_leads(w, l) PROVE Advanced(w)
  <2>1. PICK j \in JobRecord : j = [Idle EXCEPT !.at = "check", !.stage = "research",
                                      !.lead = l, !.target = "researched"]
    BY IdleFacts DEF LeadStatus, JobRecord, Points, Stages
  <2>2. job' = [job EXCEPT ![w] = j]
    BY <1>1, <2>1 DEF research_leads
  <2>3. JobOK(j)' /\ j.at # "idle"
    BY <2>1, IdleFacts DEF JobOK, Aimed
  <2> QED
    BY <2>1, <2>2, <2>3, Advances
<1>2. ASSUME NEW l \in Lead, compose_emails(w, l) PROVE Advanced(w)
  <2>1. PICK j \in JobRecord : j = [Idle EXCEPT !.at = "work", !.stage = "compose", !.lead = l]
    BY IdleFacts DEF JobRecord, Points, Stages
  <2>2. job' = [job EXCEPT ![w] = j]
    BY <1>2, <2>1 DEF compose_emails, Begin
  <2>3. JobOK(j)' /\ j.at # "idle"
    BY <2>1, IdleFacts DEF JobOK
  <2> QED
    BY <2>1, <2>2, <2>3, Advances
<1>3. ASSUME NEW l \in Lead, SendFollowUps(w, l) PROVE Advanced(w)
  <2>1. followUps[l] \in 0 .. FollowUpLimit /\ followUps[l] + 1 \in 0 .. FollowUpLimit
    BY <1>b, <1>3 DEF SendFollowUps, TypeOK
  <2>2. PICK n \in 0 .. FollowUpLimit : n = followUps[l] + 1
    BY <2>1
  <2>3. n \in 0 .. FollowUpLimit + 1
    BY <1>b
  <2>4. PICK j \in JobRecord : j = [Idle EXCEPT !.at = "work", !.stage = "follow", !.lead = l,
                                      !.step = n]
    BY <2>3, IdleFacts DEF JobRecord, Points, Stages
  <2>5. job' = [job EXCEPT ![w] = j]
    BY <1>3, <2>2, <2>4 DEF SendFollowUps
  <2>6. JobOK(j)' /\ j.at # "idle"
    BY <2>4, IdleFacts DEF JobOK
  <2> QED
    BY <2>4, <2>5, <2>6, Advances
<1>4. ASSUME NEW s \in Seq, send_emails(w, s) PROVE Advanced(w)
  <2>1. seq[s] # NoSeq /\ seq[s].lead \in Lead
    BY <1>4 DEF send_emails, Due, Rows, NoSeq
  <2>2. PICK l \in Lead, n \in 0 .. FollowUpLimit + 1 : l = seq[s].lead /\ n = seq[s].step
    BY <2>1 DEF TypeOK
  <2>3. PICK r \in {"email_drafted", "followed_up"} : r = status[l]
    BY <1>4, <2>2 DEF send_emails, Due
  <2>4. PICK g \in {"queue", "send"} : g = IF reviewMode THEN "queue" ELSE "send"
    OBVIOUS
  <2>5. s \in 0 .. MaxSeq /\ r \in LeadStatus /\ seq'[s] # NoSeq
    BY <1>b, <2>1 DEF Seq, LeadStatus, Grows
  <2>6. PICK j \in JobRecord : j = [Idle EXCEPT !.at = "work", !.stage = g, !.lead = l,
                                      !.seq = s, !.step = n, !.read = r]
    BY <2>5, IdleFacts DEF JobRecord, Points, Stages
  <2>7. job' = [job EXCEPT ![w] = j]
    BY <1>4, <2>2, <2>3, <2>4, <2>6 DEF send_emails
  <2>8. JobOK(j)' /\ j.at # "idle"
    BY <2>5, <2>6, IdleFacts DEF JobOK
  <2> QED
    BY <2>6, <2>7, <2>8, Advances
<1>5. ASSUME NEW s \in Seq, approve_review(w, s) PROVE Advanced(w)
  <2>1. seq[s] # NoSeq /\ seq[s].lead \in Lead
    BY <1>5 DEF approve_review, Rows
  <2>2. PICK l \in Lead, n \in 0 .. FollowUpLimit + 1 : l = seq[s].lead /\ n = seq[s].step
    BY <2>1 DEF TypeOK
  <2>5. s \in 0 .. MaxSeq /\ seq'[s] # NoSeq
    BY <1>b, <2>1 DEF Seq, Grows
  <2>6. PICK j \in JobRecord : j = [Idle EXCEPT !.at = "call", !.stage = "approve", !.lead = l,
                                      !.seq = s, !.step = n]
    BY <2>5, IdleFacts DEF JobRecord, Points, Stages
  <2>7. job' = [job EXCEPT ![w] = j]
    BY <1>5, <2>2, <2>6 DEF approve_review
  <2>8. JobOK(j)' /\ j.at # "idle"
    BY <2>5, <2>6, IdleFacts DEF JobOK
  <2> QED
    BY <2>6, <2>7, <2>8, Advances
<1>6. ASSUME NEW r \in Reply, process_reply(w, r) PROVE Advanced(w)
  <2>1. reply[r].lead \in Lead
    BY <1>6 DEF process_reply, Rows
  <2>2. PICK l \in Lead : l = reply[r].lead
    BY <2>1
  <2>3. PICK intent \in Intents(reply[r].wish) :
          job' = [job EXCEPT ![w] = [Idle EXCEPT !.at = "check", !.stage = "reply",
                    !.lead = reply[r].lead, !.reply = r, !.target = TargetOf(intent)]]
    BY ONLY <1>6, Zenon DEF process_reply
  <2>4. PICK t \in {"interested", "lost", "unsubscribed", "replied"} : t = TargetOf(intent)
    BY DEF TargetOf
  <2>5. r \in 0 .. MaxReply /\ t \in LeadStatus
    BY <1>b DEF Reply, LeadStatus
  <2>6. PICK j \in JobRecord : j = [Idle EXCEPT !.at = "check", !.stage = "reply", !.lead = l,
                                      !.reply = r, !.target = t]
    BY <2>5, IdleFacts DEF JobRecord, Points, Stages
  <2>7. job' = [job EXCEPT ![w] = j]
    BY <2>2, <2>3, <2>4, <2>6
  <2>8. JobOK(j)' /\ j.at # "idle"
    BY <2>6, IdleFacts DEF JobOK, Aimed
  <2> QED
    BY <2>6, <2>7, <2>8, Advances
<1> QED
  BY <1>1, <1>2, <1>3, <1>4, <1>5, <1>6 DEF Picks

\* An invocation that goes on with what it has in hand, or drops it.
LEMMA WorkStep ==
  ASSUME TypeOK, Rows, Jobs, Grows, NEW w \in Worker, Works(w) \/ Interrupt(w)
  PROVE  Advanced(w)
<1>k. PICK k \in JobRecord : k = job[w]
  BY DEF TypeOK, JobRecord, Points
<1>t. JobOK(k) /\ JobOK(k)' /\ job \in [Worker -> JobRecord]
  BY <1>k, OthersKeep DEF TypeOK, Jobs, JobOK, JobRecord, Points
<1>1. CASE Stops(w)
  BY <1>1, Rests
\* A call of transition_lead begins.
<1>2. ASSUME NEW target \in LeadStatus, <<k.stage, target>> \in Aimed, k.at \in {"work", "count", "call"},
             Aims(w, target)
      PROVE  Advanced(w)
  <2>1. PICK j \in JobRecord : j = [k EXCEPT !.at = "check", !.target = target]
    BY DEF JobRecord, Points
  <2>2. job' = [job EXCEPT ![w] = j]
    BY <1>k, <1>t, <1>2, <2>1 DEF Aims
  <2>3. /\ j.at = "check" /\ j.stage = k.stage /\ j.lead = k.lead /\ j.seq = k.seq
        /\ j.step = k.step /\ j.reply = k.reply /\ j.target = target /\ j.read = k.read
    BY <2>1
  <2>4. k.lead \in Lead /\ target # "none" /\ k.stage # "send"
    BY <1>t, <1>2, IdleFacts DEF JobOK, Aimed, LeadStatus
  <2>5. JobOK(j)' /\ j.at # "idle"
    BY <1>t, <1>2, <2>3, <2>4 DEF JobOK
  <2> QED
    BY <2>1, <2>2, <2>5, Advances
<1>3. CASE \/ ComposeOne(w)
           \/ QueueForReview(w) /\ ~Stops(w)
           \/ TrackApproved(w) /\ ~Stops(w)
           \/ CountFollowUp(w)
  <2>1. {"email_drafted", "email_queued", "email_sent", "followed_up"} \subseteq LeadStatus
    BY DEF LeadStatus
  <2>2. CASE ComposeOne(w)
    BY <1>k, <1>2, <2>1, <2>2 DEF ComposeOne, Does, Aimed
  <2>3. CASE QueueForReview(w) /\ ~Stops(w)
    BY <1>k, <1>2, <2>1, <2>3 DEF QueueForReview, Does, Aimed
  <2>4. CASE TrackApproved(w) /\ ~Stops(w)
    BY <1>k, <1>2, <2>1, <2>4 DEF TrackApproved, Aimed
  <2>5. CASE CountFollowUp(w)
    BY <1>k, <1>t, <1>2, <2>1, <2>5 DEF CountFollowUp, Aimed, JobOK
  <2> QED
    BY <1>3, <2>2, <2>3, <2>4, <2>5
<1>4. CASE CheckTransition(w)
  <2>1. /\ k.at = "check" /\ k.lead \in Lead /\ status[k.lead] \in LeadStatus
        /\ k.target \in TRANSITIONS[status[k.lead]]
    BY <1>k, <1>t, <1>4, IdleFacts DEF CheckTransition, can_transition, JobOK, TypeOK
  <2>2. PICK s \in LeadStatus : s = status[k.lead]
    BY <2>1
  <2>3. PICK j \in JobRecord : j = [k EXCEPT !.at = "write", !.read = s]
    BY DEF JobRecord, Points
  <2>4. job' = [job EXCEPT ![w] = j]
    BY <1>k, <1>t, <1>4, <2>2, <2>3 DEF CheckTransition
  <2>5. k.stage # "send"
    BY <1>t, <2>1 DEF JobOK, Aimed
  <2>6. JobOK(j)' /\ j.at # "idle"
    BY <1>t, <2>1, <2>2, <2>3, <2>5, IdleFacts DEF JobOK
  <2> QED
    BY <2>3, <2>4, <2>6, Advances
\* One that goes on to the next statement.
<1>5. ASSUME NEW at \in {"call", "count"}, job' = [job EXCEPT ![w].at = at], k.at = "work",
             k.stage = IF at = "call" THEN "send" ELSE "follow"
      PROVE  Advanced(w)
  <2>1. PICK j \in JobRecord : j = [k EXCEPT !.at = at]
    BY <1>5 DEF JobRecord, Points
  <2>2. job' = [job EXCEPT ![w] = j]
    BY <1>k, <1>t, <1>5, <2>1
  <2>3. JobOK(j)' /\ j.at # "idle"
    BY <1>t, <1>5, <2>1, IdleFacts DEF JobOK
  <2> QED
    BY <2>1, <2>2, <2>3, Advances
<1>6. CASE QueueFollowUp(w) \/ (Gate(w) /\ ~Stops(w))
  <2>1. CASE QueueFollowUp(w)
    BY <1>k, <1>5, <2>1 DEF QueueFollowUp, Does
  <2>2. CASE Gate(w) /\ ~Stops(w)
    BY <1>k, <1>5, <2>2 DEF Gate, Does
  <2> QED
    BY <1>6, <2>1, <2>2
<1>7. Track(w) \/ Declines(w) \/ Interrupt(w) \/ Refused(w) \/ WriteTransition(w) => Stops(w)
  BY DEF Track, Declines, Interrupt, Refused, WriteTransition, Returns
<1> QED
  BY <1>1, <1>3, <1>4, <1>6, <1>7 DEF Works

\* A step is one of an invocation or leaves all of them alone.
LEMMA Acting ==
  ASSUME TypeOK, Rows, Jobs, [Next]_vars
  PROVE  \A v \in Worker : job'[v] = job[v] \/ (WorkerActs(v) /\ \A w \in Worker \ {v} : job'[w] = job[w])
<1>1. UNCHANGED job \/ \E w \in Worker : WorkerActs(w)
  BY DEF Next, WorkerActs, LeaveReviewMode, HardBounce, Answers, vars
<1>2. ASSUME NEW w \in Worker, WorkerActs(w) PROVE Advanced(w)
  BY <1>2, PickStep, WorkStep, GrowStep DEF WorkerActs
<1> QED
  BY <1>1, <1>2 DEF Advanced

\* Whoever acts, every invocation knows what it should.
LEMMA JobsStep ==
  ASSUME TypeOK, Rows, Jobs, [Next]_vars
  PROVE  /\ Jobs' /\ job' \in [Worker -> JobRecord]
         /\ \A w \in Worker : job'[w].at = "idle" <=> job'[w] = Idle
<1> DEFINE Rest(v) == JobOK(job[v])' /\ (job'[v].at = "idle" <=> job'[v] = Idle)
<1>g. Grows
  BY GrowStep
<1>t. job \in [Worker -> JobRecord]
  BY DEF TypeOK, JobRecord
<1>1. ASSUME NEW v \in Worker, job'[v] = job[v] PROVE Rest(v)
  <2>1. PICK k \in JobRecord : k = job[v]
    BY <1>t
  <2>2. JobOK(k)'
    BY <1>g, <2>1, OthersKeep DEF Jobs, JobOK
  <2> QED
    BY <1>1, <2>1, <2>2 DEF JobOK, TypeOK
<1>2. ASSUME NEW w \in Worker, WorkerActs(w)
      PROVE  job' \in [Worker -> JobRecord] /\ \A v \in Worker : Rest(v)
  <2>1. Advanced(w)
    BY <1>g, <1>2, PickStep, WorkStep DEF WorkerActs
  <2> QED
    BY <1>1, <2>1 DEF Advanced
<1>3. CASE UNCHANGED job
  BY <1>1, <1>3, <1>t DEF Jobs
<1>4. UNCHANGED job \/ \E w \in Worker : WorkerActs(w)
  BY DEF Next, WorkerActs, LeaveReviewMode, HardBounce, Answers, vars
<1> QED
  BY <1>2, <1>3, <1>4 DEF Jobs

\* What an invocation at work has in hand.
LEMMA Held ==
  ASSUME Jobs, NEW w \in Worker, job[w].at # "idle"
  PROVE  job[w].lead \in Lead /\ JobOK(job[w])
  BY IdleFacts DEF Jobs, JobOK

\* Every variable keeps its type.
LEMMA TypeStep == TypeOK /\ Rows /\ Jobs /\ [Next]_vars => TypeOK'
<1> SUFFICES ASSUME TypeOK, Rows, Jobs, [Next]_vars PROVE TypeOK'
  OBVIOUS
<1> USE DEF leadVars, mailVars, inboxVars, historyVars
<1>b. /\ FollowUpLimit \in Nat /\ MaxSeq \in Nat /\ MaxReply \in Nat /\ MaxFault \in Nat
      /\ faults \in 0 .. MaxFault /\ nextSeq \in 1 .. MaxSeq + 1 /\ nextReply \in 1 .. MaxReply + 1
  BY LifecycleAssumption DEF TypeOK
<1>1. /\ job' \in [Worker -> JobRecord] /\ Jobs'
      /\ \A w \in Worker : job'[w].at = "idle" <=> job'[w] = Idle
  BY JobsStep
<1>2. seq' \in [Seq -> SeqRecord] /\ nextSeq' \in 1 .. MaxSeq + 1
  <2>1. \A s \in Seq : seq'[s] \in SeqRecord
    BY SeqWritten
  <2>2. UNCHANGED seq \/ \E q, x : seq' = [seq EXCEPT ![q] = x]
    BY Writers DEF ComposeOne, QueueFollowUp, Store, Track, TrackApproved, WriteTransition
  <2>3. seq \in [Seq -> SeqRecord]
    BY DEF TypeOK, SeqRecord
  <2>4. nextSeq' = nextSeq \/ (nextSeq <= MaxSeq /\ nextSeq' = nextSeq + 1)
    BY Writers DEF ComposeOne, QueueFollowUp, Store, Track, TrackApproved, WriteTransition
  <2> QED
    BY <1>b, <2>1, <2>2, <2>3, <2>4
<1>3. /\ status' \in [Lead -> LeadStatus] /\ overwritten' \subseteq Lead /\ optedOut' \subseteq Lead
      /\ optedOut \subseteq optedOut'
  <2>1. ASSUME NEW w \in Worker, Track(w)
        PROVE  /\ status' \in [Lead -> LeadStatus] /\ overwritten' \subseteq Lead
               /\ optedOut' \subseteq Lead /\ optedOut \subseteq optedOut'
    <3>1. job[w].lead \in Lead /\ "email_sent" \in LeadStatus
      BY <2>1, Held DEF Track, LeadStatus
    <3> QED
      BY <2>1, <3>1 DEF Track, TypeOK
  <2>2. ASSUME NEW w \in Worker, WriteTransition(w)
        PROVE  /\ status' \in [Lead -> LeadStatus] /\ overwritten' \subseteq Lead
               /\ optedOut' \subseteq Lead /\ optedOut \subseteq optedOut'
    <3>1. job[w].lead \in Lead /\ job[w].target \in LeadStatus
      BY <2>2, Held, Table DEF WriteTransition, JobOK
    <3> QED
      BY <2>2, <3>1 DEF WriteTransition, TypeOK
  <2>3. ASSUME NEW l \in Lead, HardBounce(l)
        PROVE  /\ status' \in [Lead -> LeadStatus] /\ overwritten' \subseteq Lead
               /\ optedOut' \subseteq Lead /\ optedOut \subseteq optedOut'
    BY <2>3 DEF HardBounce, TypeOK, LeadStatus
  <2>4. CASE UNCHANGED <<status, overwritten, optedOut>>
    BY <2>4 DEF TypeOK
  <2>5. \/ UNCHANGED <<status, overwritten, optedOut>>
        \/ \E w \in Worker : Track(w) \/ WriteTransition(w)
        \/ \E l \in Lead : HardBounce(l)
    BY Writers
  <2> QED
    BY <2>1, <2>2, <2>3, <2>4, <2>5
<1>4. followUps' \in [Lead -> 0 .. FollowUpLimit]
  <2>1. ASSUME NEW w \in Worker, CountFollowUp(w) PROVE followUps' \in [Lead -> 0 .. FollowUpLimit]
    <3>1. job[w].lead \in Lead /\ job[w].step \in 0 .. FollowUpLimit
      BY <2>1, Held DEF CountFollowUp, JobOK
    <3> QED
      BY <2>1, <3>1 DEF CountFollowUp, TypeOK
  <2> QED
    BY <2>1, Writers DEF TypeOK
<1>5. queued' \subseteq Seq
  <2>1. ASSUME NEW w \in Worker, QueueForReview(w) PROVE queued' \subseteq Seq
    <3>1. job[w].seq \in Seq
      BY <2>1, Held DEF QueueForReview, Does, JobOK
    <3> QED
      BY <2>1, <3>1 DEF QueueForReview, TypeOK
  <2> QED
    BY <2>1, Writers DEF TypeOK
<1>6. /\ reply' \in [Reply -> [lead : Lead \cup {None}, wish : {"none", "unsubscribe", "other"},
                               state : {"absent", "unread", "read"}]]
      /\ nextReply' \in 1 .. MaxReply + 1
  <2> DEFINE Inbox == [lead : Lead \cup {None}, wish : {"none", "unsubscribe", "other"},
                       state : {"absent", "unread", "read"}]
  <2>1. ASSUME NEW w \in Worker, Returns(w)
        PROVE  reply' \in [Reply -> Inbox] /\ nextReply' = nextReply
    BY <2>1 DEF Returns, TypeOK
  <2>2. ASSUME NEW l \in Lead, NEW wish \in Wishes, Answers(l, wish)
        PROVE  reply' \in [Reply -> Inbox] /\ nextReply' \in 1 .. MaxReply + 1
    <3>1. PICK x \in Inbox : x = [lead |-> l, wish |-> wish, state |-> "unread"]
      BY LifecycleAssumption
    <3>2. reply' = [reply EXCEPT ![nextReply] = x]
      BY <2>2, <3>1 DEF Answers
    <3>3. nextReply' \in 1 .. MaxReply + 1
      BY <1>b, <2>2 DEF Answers
    <3> QED
      BY <3>2, <3>3 DEF TypeOK
  <2>3. CASE UNCHANGED <<reply, nextReply>>
    BY <2>3 DEF TypeOK
  <2>4. \A w \in Worker : Refused(w) \/ WriteTransition(w) => Returns(w)
    BY DEF Refused, WriteTransition
  <2> QED
    BY <1>b, <2>1, <2>2, <2>3, <2>4, Writers
<1>7. faults' \in 0 .. MaxFault /\ reviewMode' \in BOOLEAN
  <2>1. faults' = faults \/ (faults < MaxFault /\ faults' = faults + 1)
    <3>1. ASSUME NEW w \in Worker, Picks(w) PROVE faults' = faults
      BY <3>1 DEF Picks, research_leads, compose_emails, SendFollowUps, send_emails, approve_review,
         process_reply
    <3>2. ASSUME NEW w \in Worker, Works(w)
          PROVE  faults' = faults \/ (faults < MaxFault /\ faults' = faults + 1)
      BY <3>2 DEF Works, ComposeOne, QueueForReview, Gate, Track, TrackApproved, Declines,
         QueueFollowUp, CountFollowUp, CheckTransition, Refused, WriteTransition, Returns
    <3> QED
      BY <3>1, <3>2 DEF Next, Interrupt, LeaveReviewMode, HardBounce, Answers, vars
  <2>2. reviewMode' = reviewMode \/ reviewMode' = FALSE
    <3>1. ASSUME NEW w \in Worker, Picks(w) PROVE reviewMode' = reviewMode
      BY <3>1 DEF Picks, research_leads, compose_emails, SendFollowUps, send_emails, approve_review,
         process_reply
    <3>2. ASSUME NEW w \in Worker, Works(w) PROVE reviewMode' = reviewMode
      BY <3>2 DEF Works, ComposeOne, QueueForReview, Gate, Track, TrackApproved, Declines,
         QueueFollowUp, CountFollowUp, CheckTransition, Refused, WriteTransition
    <3> QED
      BY <3>1, <3>2 DEF Next, Interrupt, LeaveReviewMode, HardBounce, Answers, vars
  <2>3. reviewMode' \in BOOLEAN
    BY <2>2 DEF TypeOK
  <2>4. faults' \in 0 .. MaxFault
    BY <1>b, <2>1
  <2> QED
    BY <2>3, <2>4
<1>8. shared' \subseteq Lead /\ torn' \subseteq Lead
  <2>1. ASSUME NEW w \in Worker, Picks(w) PROVE shared' \subseteq Lead /\ torn' = torn
    BY <2>1 DEF Picks, research_leads, compose_emails, SendFollowUps, send_emails, approve_review,
       process_reply, TypeOK
  <2>2. ASSUME NEW w \in Worker, Interrupt(w) PROVE shared' = shared /\ torn' \subseteq Lead
    <3>1. job[w].lead \in Lead
      BY <2>2 DEF Interrupt, TypeOK
    <3> QED
      BY <2>2, <3>1 DEF Interrupt, TypeOK
  <2>3. ASSUME NEW w \in Worker, Works(w) PROVE UNCHANGED <<shared, torn>>
    BY <2>3 DEF Works, ComposeOne, QueueForReview, Gate, Track, TrackApproved, Declines,
       QueueFollowUp, CountFollowUp, CheckTransition, Refused, WriteTransition
  <2> QED
    BY <2>1, <2>2, <2>3 DEF Next, LeaveReviewMode, HardBounce, Answers, vars, TypeOK
<1>9. lapsed' \subseteq optedOut'
  <2>1. ASSUME NEW w \in Worker, Gate(w) PROVE lapsed' \subseteq optedOut'
    BY <2>1 DEF Gate, TypeOK
  <2>2. ASSUME NEW w \in Worker, NEW s \in Seq, approve_review(w, s) PROVE lapsed' \subseteq optedOut'
    BY <2>2 DEF approve_review, TypeOK
  <2>3. CASE UNCHANGED lapsed
    BY <1>3, <2>3 DEF TypeOK
  <2> QED
    BY <2>1, <2>2, <2>3, Writers
<1>10. \A w \in Worker : /\ job'[w] # Idle => job'[w].lead \in Lead
                         /\ job'[w].at = "write" => /\ job'[w].read \in LeadStatus
                                                    /\ job'[w].target \in TRANSITIONS[job'[w].read]
  BY <1>1 DEF Jobs, JobOK
<1> QED
  BY <1>1, <1>2, <1>3, <1>4, <1>5, <1>6, <1>7, <1>8, <1>9, <1>10 DEF TypeOK, JobRecord, SeqRecord

\* Sequences are written in order, and what lies in the inbox has a sender.
LEMMA RowsStep == TypeOK /\ Rows /\ Jobs /\ [Next]_vars => Rows'
<1> SUFFICES ASSUME TypeOK, Rows, Jobs, [Next]_vars PROVE Rows'
  OBVIOUS
<1>b. /\ MaxSeq \in Nat /\ nextSeq \in 1 .. MaxSeq + 1
  BY LifecycleAssumption DEF TypeOK
<1>g. Grows
  BY GrowStep
<1>1. ASSUME NEW s \in Seq
      PROVE  IF s < nextSeq' THEN seq'[s].lead \in Lead /\ seq'[s] # NoSeq ELSE seq'[s] = NoSeq
  <2>1. CASE nextSeq' = nextSeq
    <3>1. s = nextSeq /\ nextSeq' = nextSeq + 1 => FALSE
      BY <1>b, <2>1
    <3> QED
      BY <2>1, <3>1, SeqWritten DEF Rows
  <2>2. CASE nextSeq' # nextSeq
    <3>1. PICK w \in Worker : ComposeOne(w) \/ QueueFollowUp(w)
      BY <2>2, Writers DEF Track, TrackApproved, WriteTransition
    <3>2. /\ nextSeq' = nextSeq + 1 /\ nextSeq \in Seq
          /\ \E x : x.lead \in Lead /\ x.status = "pending" /\ seq' = [seq EXCEPT ![nextSeq] = x]
      <4>1. job[w].lead \in Lead
        BY <3>1, Held DEF ComposeOne, QueueFollowUp, Does
      <4>2. \E x : /\ x.lead = job[w].lead /\ x.status = "pending"
                   /\ seq' = [seq EXCEPT ![nextSeq] = x]
        <5>1. ASSUME NEW kind, NEW step, Store(job[w].lead, kind, step)
              PROVE  \E x : /\ x.lead = job[w].lead /\ x.status = "pending"
                            /\ seq' = [seq EXCEPT ![nextSeq] = x]
          <6>1. PICK x : x = [lead |-> job[w].lead, kind |-> kind, step |-> step, status |-> "pending"]
            OBVIOUS
          <6>2. x.lead = job[w].lead /\ x.status = "pending"
            BY <6>1
          <6>3. seq' = [seq EXCEPT ![nextSeq] = x]
            BY <5>1, <6>1 DEF Store
          <6> QED
            BY <6>2, <6>3
        <5>2. Store(job[w].lead, "draft", 1) \/ Store(job[w].lead, "follow_up", job[w].step)
          BY <3>1 DEF ComposeOne, QueueFollowUp
        <5> QED
          BY <5>1, <5>2
      <4>3. nextSeq' = nextSeq + 1 /\ nextSeq \in Seq
        BY <1>b, <3>1 DEF ComposeOne, QueueFollowUp, Store, Seq
      <4> QED
        BY <4>1, <4>2, <4>3
    <3>3. PICK x : x.lead \in Lead /\ x.status = "pending" /\ seq' = [seq EXCEPT ![nextSeq] = x]
      BY <3>2
    <3>4. x # NoSeq
      BY <3>3 DEF NoSeq
    <3>5. CASE s = nextSeq
      BY <1>b, <3>2, <3>3, <3>4, <3>5 DEF TypeOK
    <3>6. CASE s # nextSeq
      <4>1. seq'[s] = seq[s] /\ (s < nextSeq' <=> s < nextSeq)
        BY <1>b, <3>2, <3>3, <3>6 DEF TypeOK, Seq
      <4> QED
        BY <4>1 DEF Rows
    <3> QED
      BY <3>5, <3>6
  <2> QED
    BY <2>1, <2>2
<1>2. ASSUME NEW s \in queued' PROVE seq'[s] # NoSeq
  <2>1. s \in queued \/ \E w \in Worker : QueueForReview(w) /\ s = job[w].seq
    BY <1>2, Writers DEF QueueForReview
  <2>2. s \in Seq /\ seq[s] # NoSeq
    BY <2>1, Held DEF QueueForReview, Does, JobOK, Rows, TypeOK
  <2> QED
    BY <1>g, <2>2 DEF Grows
<1>3. ASSUME NEW r \in Reply, reply'[r].state = "unread" PROVE reply'[r].lead \in Lead
  <2>1. CASE UNCHANGED reply
    BY <1>3, <2>1 DEF Rows
  <2>2. ASSUME NEW w \in Worker, Returns(w) PROVE reply'[r].lead \in Lead
    <3>1. UNCHANGED reply \/ reply' = [reply EXCEPT ![job[w].reply].state = "read"]
      BY <2>2 DEF Returns
    <3>2. CASE reply' = [reply EXCEPT ![job[w].reply].state = "read"]
      <4>1. CASE r = job[w].reply
        BY <1>3, <3>2, <4>1 DEF TypeOK
      <4>2. CASE r # job[w].reply
        BY <1>3, <3>2, <4>2 DEF Rows, TypeOK
      <4> QED
        BY <4>1, <4>2
    <3> QED
      BY <2>1, <3>1, <3>2
  <2>3. ASSUME NEW l \in Lead, NEW wish \in Wishes, Answers(l, wish) PROVE reply'[r].lead \in Lead
    <3>1. CASE r = nextReply
      BY <2>3, <3>1 DEF Answers, TypeOK
    <3>2. CASE r # nextReply
      BY <1>3, <2>3, <3>2 DEF Answers, Rows, TypeOK
    <3> QED
      BY <3>1, <3>2
  <2>4. \A w \in Worker : Refused(w) \/ WriteTransition(w) => Returns(w)
    BY DEF Refused, WriteTransition
  <2> QED
    BY <2>1, <2>2, <2>3, <2>4, Writers
<1> QED
  BY <1>1, <1>2, <1>3 DEF Rows

(***************************************************************************)
(* Statuses and opting out                                                 *)
(***************************************************************************)

\* What is noted about a lead stays noted.
LEMMA Noted ==
  ASSUME TypeOK, [Next]_vars
  PROVE  overwritten \subseteq overwritten' /\ shared \subseteq shared' /\ torn \subseteq torn'
  BY Writers DEF Track, WriteTransition, HardBounce

\* A status is written by an invocation that had read it, unless the lead is
\* noted as overwritten, or by a hard bounce.
LEMMA StatusWritten ==
  ASSUME TypeOK, Rows, Jobs, [Next]_vars, NEW l \in Lead, l \notin overwritten',
         status'[l] # status[l]
  PROVE  \/ \E w \in Worker : /\ WriteTransition(w) /\ job[w].lead = l
                              /\ status'[l] = job[w].target
                              /\ job[w].target \in TRANSITIONS[status[l]]
         \/ /\ \E w \in Worker : Track(w) /\ job[w].lead = l
            /\ status[l] \in {"email_drafted", "followed_up"} /\ status'[l] = "email_sent"
         \/ HardBounce(l) /\ status'[l] = "unsubscribed"
<1>1. ASSUME NEW w \in Worker, WriteTransition(w)
      PROVE  /\ job[w].lead = l /\ status'[l] = job[w].target
             /\ job[w].target \in TRANSITIONS[status[l]]
  <2>1. JobOK(job[w]) /\ job[w].at = "write"
    BY <1>1, Held DEF WriteTransition
  <2>2. job[w].lead = l /\ status'[l] = job[w].target /\ status[l] = job[w].read
    BY <1>1 DEF WriteTransition, TypeOK
  <2> QED
    BY <2>1, <2>2 DEF JobOK
<1>2. ASSUME NEW w \in Worker, Track(w)
      PROVE  /\ job[w].lead = l /\ status[l] \in {"email_drafted", "followed_up"}
             /\ status'[l] = "email_sent"
  <2>1. JobOK(job[w]) /\ job[w].stage = "send"
    BY <1>2, Held DEF Track
  <2>2. job[w].lead = l /\ status'[l] = "email_sent" /\ status[l] = job[w].read
    BY <1>2 DEF Track, TypeOK
  <2> QED
    BY <2>1, <2>2 DEF JobOK
<1>3. ASSUME NEW k \in Lead, HardBounce(k) PROVE HardBounce(l) /\ status'[l] = "unsubscribed"
  <2>1. k = l
    BY <1>3 DEF HardBounce, TypeOK
  <2> QED
    BY <1>3, <2>1 DEF HardBounce, TypeOK
<1> QED
  BY <1>1, <1>2, <1>3, Writers

\* Who opted out stays out, unless a late writer takes that back.
LEMMA OptedOutStep ==
  ASSUME TypeOK, Rows, Jobs, OptedOut, [Next]_vars
  PROVE  OptedOut'
<1> SUFFICES ASSUME NEW l \in optedOut', l \notin overwritten' PROVE status'[l] = "unsubscribed"
  BY DEF OptedOut
<1>l. l \in Lead /\ l \notin overwritten
  BY TypeStep, Noted DEF TypeOK
<1>1. CASE l \in optedOut
  <2>1. status[l] = "unsubscribed"
    BY <1>l, <1>1 DEF OptedOut
  <2>2. CASE status'[l] # status[l]
    BY <1>l, <2>1, <2>2, StatusWritten, Table
  <2> QED
    BY <2>1, <2>2
<1>2. CASE l \notin optedOut
  <2>1. ASSUME NEW w \in Worker, WriteTransition(w) PROVE status'[l] = "unsubscribed"
    BY <1>l, <1>2, <2>1 DEF WriteTransition, TypeOK
  <2>2. ASSUME NEW k \in Lead, HardBounce(k) PROVE status'[l] = "unsubscribed"
    BY <1>l, <1>2, <2>2 DEF HardBounce, TypeOK
  <2>3. ASSUME NEW w \in Worker, Track(w) PROVE FALSE
    BY <1>2, <2>3 DEF Track
  <2> QED
    BY <1>2, <2>1, <2>2, <2>3, Writers
<1> QED
  BY <1>1, <1>2

\* The gate lets nothing through for who opted out, unless overwritten.
LEMMA LapsedStep ==
  ASSUME TypeOK, Rows, Jobs, OptedOut, OptOutStops, [Next]_vars
  PROVE  OptOutStops'
<1>o. overwritten \subseteq overwritten'
  BY Noted
<1>1. ASSUME NEW w \in Worker, Gate(w) PROVE OptOutStops'
  BY <1>o, <1>1 DEF Gate, OptedOut, OptOutStops
<1>2. ASSUME NEW w \in Worker, NEW s \in Seq, approve_review(w, s) PROVE OptOutStops'
  BY <1>o, <1>2 DEF approve_review, OptedOut, OptOutStops
<1>3. CASE UNCHANGED lapsed
  BY <1>o, <1>3 DEF OptOutStops
<1> QED
  BY <1>1, <1>2, <1>3, Writers

(***************************************************************************)
(* Who is at work on a lead                                                *)
(***************************************************************************)

\* The next step of an invocation, by the point it is at.
LEMMA ByPoint ==
  ASSUME NEW w \in Worker, WorkerActs(w), ~Interrupt(w)
  PROVE  /\ job[w].at = "check" => CheckTransition(w) \/ Refused(w)
         /\ job[w].at = "write" => WriteTransition(w)
         /\ job[w].at = "count" => CountFollowUp(w)
<1>1. Picks(w) => job[w].at = "idle"
  BY IdleFacts DEF Picks, research_leads, compose_emails, SendFollowUps, send_emails, approve_review,
     process_reply, Begin
<1> QED
  BY <1>1 DEF WorkerActs, Works, ComposeOne, QueueForReview, Gate, Track, TrackApproved, Declines,
     QueueFollowUp, CountFollowUp, CheckTransition, Refused, WriteTransition, Does

\* How an invocation comes to compose for a lead or to follow it up.
LEMMA Reached ==
  ASSUME TypeOK, Rows, Jobs, NEW v \in Worker, WorkerActs(v), NEW l \in Lead, job'[v].lead = l,
         NEW stage \in {"compose", "follow"}, job'[v].stage = stage
  PROVE  \/ /\ Busy(v, stage, l) /\ job'[v].step = job[v].step /\ job'[v].at # "work"
            /\ job'[v].at = "count" => job[v].at = "work"
         \/ /\ job[v] = Idle /\ job'[v].at = "work"
            /\ stage = "compose" => compose_emails(v, l)
            /\ stage = "follow" => SendFollowUps(v, l) /\ job'[v].step = followUps[l] + 1
<1> DEFINE Was == /\ Busy(v, stage, l) /\ job'[v].step = job[v].step /\ job'[v].at # "work"
                  /\ job'[v].at = "count" => job[v].at = "work"
           Began == /\ job[v] = Idle /\ job'[v].at = "work"
                    /\ stage = "compose" => compose_emails(v, l)
                    /\ stage = "follow" => SendFollowUps(v, l) /\ job'[v].step = followUps[l] + 1
<1>t. job \in [Worker -> JobRecord]
  BY DEF TypeOK, JobRecord
<1>i. job'[v] # Idle
  BY IdleFacts, LifecycleAssumption
<1>1. CASE Picks(v)
  <2>1. ASSUME NEW k \in Lead, research_leads(v, k) PROVE job'[v].stage = "research"
    BY <1>t, <2>1 DEF research_leads, Idle
  <2>2. ASSUME NEW k \in Lead, compose_emails(v, k)
        PROVE  /\ job'[v].stage = "compose" /\ job'[v].lead = k /\ job'[v].at = "work"
               /\ job[v] = Idle
    BY <1>t, <2>2 DEF compose_emails, Begin, Idle
  <2>3. ASSUME NEW k \in Lead, SendFollowUps(v, k)
        PROVE  /\ job'[v].stage = "follow" /\ job'[v].lead = k /\ job'[v].at = "work"
               /\ job[v] = Idle /\ job'[v].step = followUps[k] + 1
    BY <1>t, <2>3 DEF SendFollowUps, Idle
  <2>4. ASSUME NEW s \in Seq, send_emails(v, s) PROVE job'[v].stage \in {"queue", "send"}
    <3>1. PICK g \in {"queue", "send"} : g = IF reviewMode THEN "queue" ELSE "send"
      OBVIOUS
    <3>2. job' = [job EXCEPT ![v] = [Idle EXCEPT !.at = "work", !.stage = g, !.lead = seq[s].lead,
                    !.seq = s, !.step = seq[s].step, !.read = status[seq[s].lead]]]
      BY <2>4, <3>1 DEF send_emails
    <3> QED
      BY <1>t, <3>2 DEF Idle
  <2>5. ASSUME NEW s \in Seq, approve_review(v, s) PROVE job'[v].stage = "approve"
    BY <1>t, <2>5 DEF approve_review, Idle
  <2>6. ASSUME NEW r \in Reply, process_reply(v, r) PROVE job'[v].stage = "reply"
    BY <1>t, <2>6 DEF process_reply, Idle
  <2> QED
    BY <1>1, <2>1, <2>2, <2>3, <2>4, <2>5, <2>6 DEF Picks
<1>2. CASE Stops(v)
  BY <1>t, <1>i, <1>2 DEF Stops
<1>3. ASSUME NEW target, Aims(v, target) PROVE Was
  BY <1>t, <1>3 DEF Aims, JobRecord, Busy
<1>4. CASE ComposeOne(v) \/ CountFollowUp(v)
  BY <1>3, <1>4 DEF ComposeOne, CountFollowUp
<1>5. CASE QueueForReview(v) \/ TrackApproved(v)
  BY <1>2, <1>3, <1>5 DEF QueueForReview, TrackApproved
<1>6. CASE CheckTransition(v)
  BY <1>t, <1>6 DEF CheckTransition, JobRecord, Busy
<1>7. CASE QueueFollowUp(v)
  BY <1>t, <1>7 DEF QueueFollowUp, Does, JobRecord, Busy
<1>8. CASE Gate(v)
  <2>1. CASE job' = [job EXCEPT ![v].at = "call"]
    BY <1>t, <2>1 DEF JobRecord, Busy
  <2> QED
    BY <1>2, <1>8, <2>1 DEF Gate
<1>9. Track(v) \/ Declines(v) \/ Interrupt(v) \/ Refused(v) \/ WriteTransition(v) => Stops(v)
  BY DEF Track, Declines, Interrupt, Refused, WriteTransition, Returns
<1> QED
  BY <1>1, <1>2, <1>4, <1>5, <1>6, <1>7, <1>8, <1>9 DEF WorkerActs, Works

\* Whoever is busy with a lead was, or is the only one to begin.
LEMMA Alone ==
  ASSUME TypeOK, Rows, Jobs, [Next]_vars, NEW l \in Lead, l \notin shared',
         NEW stage \in {"compose", "follow"}, NEW v \in Worker, Busy(v, stage, l)'
  PROVE  \/ Busy(v, stage, l)
         \/ /\ WorkerActs(v) /\ job[v] = Idle /\ job'[v].at = "work"
            /\ \A w \in Worker : ~Busy(w, stage, l)
            /\ \A w \in Worker \ {v} : ~Busy(w, stage, l)'
<1>1. CASE job'[v] = job[v]
  BY <1>1 DEF Busy
<1>2. CASE WorkerActs(v) /\ \A w \in Worker \ {v} : job'[w] = job[w]
  <2>1. \/ Busy(v, stage, l)
        \/ /\ job[v] = Idle /\ job'[v].at = "work"
           /\ stage = "compose" => compose_emails(v, l)
           /\ stage = "follow" => SendFollowUps(v, l)
    BY <1>2, Reached DEF Busy
  <2>2. CASE /\ job[v] = Idle /\ job'[v].at = "work"
             /\ stage = "compose" => compose_emails(v, l)
             /\ stage = "follow" => SendFollowUps(v, l)
    <3>1. ~SameWork(v, stage, l)
      BY <2>2 DEF compose_emails, SendFollowUps
    <3>2. \A w \in Worker \ {v} : ~Busy(w, stage, l)
      BY <3>1 DEF SameWork, Busy
    <3>3. ~Busy(v, stage, l)
      BY <2>2, IdleFacts DEF Busy
    <3>4. \A w \in Worker \ {v} : ~Busy(w, stage, l)'
      BY <1>2, <3>2 DEF Busy
    <3> QED
      BY <1>2, <2>2, <3>2, <3>3, <3>4
  <2> QED
    BY <2>1, <2>2
<1> QED
  BY <1>1, <1>2, Acting

\* The invariant of follow-ups.
LEMMA FollowUpsStep ==
  ASSUME TypeOK, Rows, Jobs, FollowUps, [Next]_vars
  PROVE  FollowUps'
<1> SUFFICES ASSUME NEW l \in Lead, l \notin shared', l \notin torn' PROVE FollowedUp(l)'
  BY DEF FollowUps
<1>b. FollowedUp(l)
  BY Noted DEF FollowUps
<1>n. followUps[l] \in Nat /\ followUps \in [Lead -> 0 .. FollowUpLimit] /\ FollowUpLimit \in Nat
  BY LifecycleAssumption DEF TypeOK
<1>t. job \in [Worker -> JobRecord] /\ seq \in [Seq -> SeqRecord]
  BY DEF TypeOK, JobRecord, SeqRecord
\* Who counts a follow-up has the next step.
<1>c. ASSUME NEW w \in Worker, CountFollowUp(w), job[w].lead = l
      PROVE  /\ Busy(w, "follow", l) /\ job[w].step = followUps[l] + 1
             /\ followUps'[l] = followUps[l] + 1 /\ job'[w].at = "check"
  <2>1. Busy(w, "follow", l) /\ job[w].at = "count"
    BY <1>c, Held DEF CountFollowUp, JobOK, Busy
  <2>2. job[w].step = followUps[l] + 1
    BY <1>b, <2>1 DEF FollowedUp
  <2>3. followUps'[l] = job[w].step /\ job'[w].at = "check"
    BY <1>c, <1>n, <1>t DEF CountFollowUp, Aims, JobRecord
  <2> QED
    BY <2>1, <2>2, <2>3
<1>d. followUps'[l] = followUps[l] \/ \E w \in Worker : CountFollowUp(w) /\ job[w].lead = l
  BY <1>n, Writers DEF CountFollowUp
\* Who queues a follow-up has the next step.
<1>q. ASSUME NEW w \in Worker, QueueFollowUp(w), job[w].lead = l
      PROVE  /\ Busy(w, "follow", l) /\ job[w].at = "work" /\ job[w].step = followUps[l] + 1
             /\ followUps'[l] = followUps[l] /\ job'[w].at = "count" /\ Busy(w, "follow", l)'
  <2>1. Busy(w, "follow", l) /\ job[w].at = "work"
    BY <1>q DEF QueueFollowUp, Does, Busy
  <2>2. job[w].step = followUps[l] + 1
    BY <1>b, <2>1 DEF FollowedUp
  <2>3. followUps'[l] = followUps[l] /\ job'[w].at = "count" /\ Busy(w, "follow", l)'
    BY <1>q, <1>t, <2>1 DEF QueueFollowUp, leadVars, JobRecord, Busy
  <2> QED
    BY <2>1, <2>2, <2>3
<1>s. ASSUME NEW s \in Seq, seq'[s].lead = l, seq'[s].kind = "follow_up"
      PROVE  \/ seq[s].lead = l /\ seq[s].kind = "follow_up" /\ seq'[s].step = seq[s].step
             \/ /\ s = nextSeq
                /\ \E w \in Worker : QueueFollowUp(w) /\ job[w].lead = l /\ seq'[s].step = job[w].step
  BY <1>s, SeqWritten
<1>1. ASSUME NEW v \in Worker, NEW w \in Worker, Busy(v, "follow", l)', Busy(w, "follow", l)'
      PROVE  v = w
  <2>1. CASE Busy(v, "follow", l) /\ Busy(w, "follow", l)
    BY <1>b, <2>1 DEF FollowedUp
  <2>2. CASE ~Busy(v, "follow", l)
    BY <1>1, <2>2, Alone
  <2>3. CASE ~Busy(w, "follow", l)
    BY <1>1, <2>3, Alone
  <2> QED
    BY <2>1, <2>2, <2>3
<1>2. ASSUME NEW w \in Worker, Busy(w, "follow", l)', job'[w].at \in {"work", "count"}
      PROVE  job'[w].step = followUps'[l] + 1
  <2>1. CASE Busy(w, "follow", l)
    <3>1. followUps'[l] = followUps[l]
      <4>1. ASSUME NEW x \in Worker, CountFollowUp(x), job[x].lead = l PROVE FALSE
        <5>1. x = w /\ job'[x].at = "check"
          BY <1>b, <1>c, <2>1, <4>1 DEF FollowedUp
        <5> QED
          BY <1>2, <5>1
      <4> QED
        BY <1>d, <4>1
    <3>2. job'[w].step = job[w].step /\ job[w].at \in {"work", "count"}
      <4>1. CASE WorkerActs(w)
        <5>1. job[w] # Idle
          BY <2>1, IdleFacts DEF Busy
        <5>2. job'[w].lead = l /\ job'[w].stage = "follow"
          BY <1>2 DEF Busy
        <5>3. /\ job'[w].step = job[w].step /\ job'[w].at # "work"
              /\ job'[w].at = "count" => job[w].at = "work"
          BY <4>1, <5>1, <5>2, Reached
        <5> QED
          BY <1>2, <5>3
      <4> QED
        BY <1>2, <4>1, Acting
    <3> QED
      BY <1>b, <2>1, <3>1, <3>2 DEF FollowedUp
  <2>2. CASE ~Busy(w, "follow", l)
    <3>1. WorkerActs(w) /\ \A x \in Worker : ~Busy(x, "follow", l)
      BY <1>2, <2>2, Alone
    <3>2. job'[w].step = followUps[l] + 1
      BY <1>2, <2>2, <3>1, Reached DEF Busy
    <3> QED
      BY <1>c, <1>d, <3>1, <3>2
  <2> QED
    BY <2>1, <2>2
<1>3. ASSUME NEW s \in Seq, seq'[s].lead = l, seq'[s].kind = "follow_up"
      PROVE  \/ seq'[s].step <= followUps'[l]
             \/ /\ seq'[s].step = followUps'[l] + 1
                /\ \E w \in Worker : Busy(w, "follow", l)' /\ job'[w].at = "count"
  <2>1. ASSUME NEW w \in Worker, QueueFollowUp(w), job[w].lead = l, seq'[s].step = job[w].step
        PROVE  /\ seq'[s].step = followUps'[l] + 1
               /\ \E x \in Worker : Busy(x, "follow", l)' /\ job'[x].at = "count"
    BY <1>q, <2>1
  <2>2. CASE seq[s].lead = l /\ seq[s].kind = "follow_up" /\ seq'[s].step = seq[s].step
    <3>s. seq[s].step \in Nat
      BY <1>t, <1>n DEF SeqRecord
    <3>u. followUps'[l] = followUps[l] \/ followUps'[l] = followUps[l] + 1
      BY <1>c, <1>d
    <3>1. CASE seq[s].step <= followUps[l]
      BY <1>n, <2>2, <3>s, <3>u, <3>1
    <3>2. ASSUME NEW w \in Worker, seq[s].step = followUps[l] + 1,
                 Busy(w, "follow", l), job[w].at = "count"
          PROVE  \/ seq'[s].step <= followUps'[l]
                 \/ seq'[s].step = followUps'[l] + 1 /\ Busy(w, "follow", l)' /\ job'[w].at = "count"
      <4>1. CASE job'[w] = job[w]
        <5>1. followUps'[l] = followUps[l]
          <6>1. ASSUME NEW x \in Worker, CountFollowUp(x), job[x].lead = l PROVE FALSE
            <7>1. x = w /\ job'[x].at = "check"
              BY <1>b, <1>c, <3>2, <6>1 DEF FollowedUp
            <7> QED
              BY <3>2, <4>1, <7>1
          <6> QED
            BY <1>d, <6>1
        <5> QED
          BY <2>2, <3>2, <4>1, <5>1 DEF Busy
      <4>2. CASE WorkerActs(w)
        <5>1. ~Interrupt(w)
          BY <3>2 DEF Interrupt, HalfDone, Busy
        <5>2. CountFollowUp(w) /\ job[w].lead = l
          BY <3>2, <4>2, <5>1, ByPoint DEF Busy
        <5>3. followUps'[l] = followUps[l] + 1
          BY <1>c, <5>2
        <5> QED
          BY <1>n, <2>2, <3>s, <3>2, <5>3
      <4> QED
        BY <4>1, <4>2, Acting
    <3> QED
      BY <1>b, <2>2, <3>1, <3>2 DEF FollowedUp
  <2> QED
    BY <1>3, <1>s, <2>1, <2>2
<1>4. ASSUME NEW s \in Seq, NEW t \in Seq, s # t, seq'[s].kind = "follow_up", seq'[t].kind = "follow_up",
             seq'[s].lead = l, seq'[t].lead = l, seq'[s].step = seq'[t].step
      PROVE  FALSE
  <2>1. ASSUME NEW w \in Worker, QueueFollowUp(w), job[w].lead = l, NEW q \in Seq,
               seq[q].lead = l, seq[q].kind = "follow_up", seq[q].step = job[w].step
        PROVE  FALSE
    <3>1. Busy(w, "follow", l) /\ job[w].at = "work" /\ job[w].step = followUps[l] + 1
      BY <1>q, <2>1
    <3>2. ~(seq[q].step <= followUps[l])
      BY <1>n, <2>1, <3>1
    <3>3. PICK x \in Worker : Busy(x, "follow", l) /\ job[x].at = "count"
      BY <1>b, <2>1, <3>2 DEF FollowedUp
    <3>4. x = w
      BY <1>b, <3>1, <3>3 DEF FollowedUp
    <3> QED
      BY <3>1, <3>3, <3>4
  <2>2. CASE /\ seq[s].lead = l /\ seq[s].kind = "follow_up" /\ seq'[s].step = seq[s].step
             /\ seq[t].lead = l /\ seq[t].kind = "follow_up" /\ seq'[t].step = seq[t].step
    <3>1. SameFollowUp(s, t)
      BY <1>4, <2>2 DEF SameFollowUp
    <3> QED
      BY <1>b, <2>2, <3>1 DEF FollowedUp
  <2>3. CASE s = nextSeq
    <3>1. t # nextSeq
      BY <1>4, <2>3
    <3>2. seq[t].lead = l /\ seq[t].kind = "follow_up" /\ seq'[t].step = seq[t].step
      BY <1>4, <1>s, <3>1
    <3> QED
      BY <1>4, <1>s, <2>1, <2>2, <3>2
  <2>4. CASE s # nextSeq
    <3>1. seq[s].lead = l /\ seq[s].kind = "follow_up" /\ seq'[s].step = seq[s].step
      BY <1>4, <1>s, <2>4
    <3> QED
      BY <1>4, <1>s, <2>1, <2>2, <3>1
  <2> QED
    BY <2>3, <2>4
<1>5. /\ \A v, w \in Worker : Busy(v, "follow", l)' /\ Busy(w, "follow", l)' => v = w
      /\ \A w \in Worker : Busy(w, "follow", l)' /\ job'[w].at \in {"work", "count"}
                             => job'[w].step = followUps'[l] + 1
      /\ \A s \in Seq : seq'[s].lead = l /\ seq'[s].kind = "follow_up" =>
           \/ seq'[s].step <= followUps'[l]
           \/ /\ seq'[s].step = followUps'[l] + 1
              /\ \E w \in Worker : Busy(w, "follow", l)' /\ job'[w].at = "count"
  BY <1>1, <1>2, <1>3
<1>6. \A s, t \in Seq : SameFollowUp(s, t)' => seq'[s].lead # l
  BY <1>4 DEF SameFollowUp
<1> QED
  BY <1>5, <1>6 DEF FollowedUp

\* The invariant of composing.
LEMMA ComposingStep ==
  ASSUME TypeOK, Rows, Jobs, Composing, [Next]_vars
  PROVE  Composing'
<1> SUFFICES ASSUME NEW l \in Lead, l \notin shared', l \notin torn', l \notin overwritten'
             PROVE  Composed(l)'
  BY DEF Composing
<1>b. Composed(l)
  BY Noted DEF Composing
<1>t. job \in [Worker -> JobRecord] /\ status[l] \in LeadStatus
  BY DEF TypeOK, JobRecord
\* Who stores a draft finds none.
<1>c. ASSUME NEW w \in Worker, ComposeOne(w), job[w].lead = l
      PROVE  /\ Busy(w, "compose", l) /\ ~Drafted(l) /\ status' = status
             /\ Busy(w, "compose", l)' /\ job'[w].at = "check"
  <2>1. Busy(w, "compose", l) /\ job[w].at = "work"
    BY <1>c DEF ComposeOne, Does, Busy
  <2>2. ~Drafted(l)
    BY <1>b, <2>1 DEF Composed
  <2>3. status' = status /\ Busy(w, "compose", l)' /\ job'[w].at = "check"
    BY <1>c, <1>t, <2>1 DEF ComposeOne, Aims, leadVars, JobRecord, Busy
  <2> QED
    BY <2>1, <2>2, <2>3
<1>s. ASSUME NEW s \in Seq, Draft(s, l)'
      PROVE  Draft(s, l) \/ (s = nextSeq /\ \E w \in Worker : ComposeOne(w) /\ job[w].lead = l)
  BY <1>s, SeqWritten DEF Draft
<1>d. Drafted(l)' => Drafted(l) \/ \E w \in Worker : ComposeOne(w) /\ job[w].lead = l
  BY <1>s DEF Drafted
\* Nobody makes a lead new again, and who makes it researched finds it new.
<1>w. /\ status'[l] = "discovered" => status[l] = "discovered"
      /\ status'[l] = "researched" => status[l] \in {"discovered", "researched"}
  BY <1>t, StatusWritten, Table
<1>p. ASSUME NEW v \in Worker, Busy(v, "compose", l)', ~Busy(v, "compose", l)
      PROVE  status' = status /\ status[l] = "researched" /\ ~Drafted(l) /\ seq' = seq
  <2>1. /\ WorkerActs(v) /\ job[v] = Idle /\ job'[v].at = "work"
        /\ \A w \in Worker : ~Busy(w, "compose", l)
    BY <1>p, Alone
  <2>2. compose_emails(v, l)
    BY <1>p, <2>1, Reached DEF Busy
  <2>3. status' = status /\ status[l] = "researched" /\ seq' = seq
    BY <2>2 DEF compose_emails, leadVars, mailVars
  <2> QED
    BY <1>b, <2>1, <2>3 DEF Composed
<1>1. ASSUME NEW v \in Worker, NEW w \in Worker, Busy(v, "compose", l)', Busy(w, "compose", l)'
      PROVE  v = w
  <2>1. CASE Busy(v, "compose", l) /\ Busy(w, "compose", l)
    BY <1>b, <2>1 DEF Composed
  <2>2. CASE ~Busy(v, "compose", l)
    BY <1>1, <2>2, Alone
  <2>3. CASE ~Busy(w, "compose", l)
    BY <1>1, <2>3, Alone
  <2> QED
    BY <2>1, <2>2, <2>3
<1>2. ASSUME NEW w \in Worker, Busy(w, "compose", l)', job'[w].at = "work"
      PROVE  ~Drafted(l)'
  <2>1. CASE ~Busy(w, "compose", l)
    BY <1>p, <1>2, <2>1 DEF Drafted, Draft
  <2>2. CASE Busy(w, "compose", l)
    <3>1. job'[w] = job[w]
      <4>1. CASE WorkerActs(w)
        <5>1. job[w] # Idle /\ job'[w].lead = l /\ job'[w].stage = "compose"
          BY <1>2, <2>2, IdleFacts DEF Busy
        <5> QED
          BY <1>2, <4>1, <5>1, Reached
      <4> QED
        BY <4>1, Acting
    <3>2. ~Drafted(l)
      BY <1>b, <1>2, <2>2, <3>1 DEF Composed
    <3>3. ASSUME NEW x \in Worker, ComposeOne(x), job[x].lead = l PROVE FALSE
      <4>1. x = w /\ job'[x].at = "check"
        BY <1>b, <1>c, <2>2, <3>3 DEF Composed
      <4> QED
        BY <1>2, <4>1
    <3> QED
      BY <1>d, <3>2, <3>3
  <2> QED
    BY <2>1, <2>2
<1>3. ASSUME NEW s \in Seq, NEW t \in Seq, Draft(s, l)', Draft(t, l)'
      PROVE  s = t
  <2>1. CASE Draft(s, l) /\ Draft(t, l)
    BY <1>b, <2>1 DEF Composed
  <2>2. CASE ~Draft(s, l)
    BY <1>c, <1>s, <1>3, <2>2 DEF Drafted
  <2>3. CASE ~Draft(t, l)
    BY <1>c, <1>s, <1>3, <2>3 DEF Drafted
  <2> QED
    BY <2>1, <2>2, <2>3
<1>4. ASSUME status'[l] = "discovered"
      PROVE  ~Drafted(l)' /\ \A w \in Worker : ~Busy(w, "compose", l)'
  <2>1. status[l] = "discovered"
    BY <1>w, <1>4
  <2>2. ~Drafted(l) /\ \A w \in Worker : ~Busy(w, "compose", l)
    BY <1>b, <2>1 DEF Composed
  <2>3. ~Drafted(l)'
    BY <1>c, <1>d, <2>2
  <2>4. \A w \in Worker : ~Busy(w, "compose", l)'
    BY <1>p, <2>1, <2>2
  <2> QED
    BY <2>3, <2>4
<1>5. ASSUME status'[l] = "researched", Drafted(l)'
      PROVE  \E w \in Worker : Busy(w, "compose", l)' /\ job'[w].at \in {"check", "write"}
  <2>1. CASE \E w \in Worker : ComposeOne(w) /\ job[w].lead = l
    BY <1>c, <2>1
  <2>2. CASE Drafted(l)
    <3>1. status[l] = "researched"
      BY <1>b, <1>w, <1>5, <2>2 DEF Composed
    <3>2. PICK w \in Worker : Busy(w, "compose", l) /\ job[w].at \in {"check", "write"}
      BY <1>b, <2>2, <3>1 DEF Composed
    <3>3. CASE job'[w] = job[w]
      BY <3>2, <3>3 DEF Busy
    <3>4. CASE WorkerActs(w)
      <4>1. ~Interrupt(w)
        BY <3>2 DEF Interrupt, HalfDone, Busy
      <4>2. job[w].target = "email_drafted"
        BY <3>2, Held DEF JobOK, Aimed, Busy
      <4>3. ~WriteTransition(w)
        BY <1>5, <3>2, <4>2 DEF WriteTransition, Busy, TypeOK
      <4>4. ~Refused(w)
        BY <3>1, <3>2, <4>2, Table DEF Refused, can_transition, Busy
      <4>5. CheckTransition(w)
        BY <3>2, <3>4, <4>1, <4>3, <4>4, ByPoint
      <4>6. Busy(w, "compose", l)' /\ job'[w].at = "write"
        BY <1>t, <3>2, <4>5 DEF CheckTransition, JobRecord, Busy
      <4> QED
        BY <4>6
    <3> QED
      BY <3>3, <3>4, Acting
  <2> QED
    BY <1>5, <1>d, <2>1, <2>2
<1>6. /\ \A v, w \in Worker : Busy(v, "compose", l)' /\ Busy(w, "compose", l)' => v = w
      /\ \A w \in Worker : Busy(w, "compose", l)' /\ job'[w].at = "work" => ~Drafted(l)'
      /\ \A s, t \in Seq : Draft(s, l)' /\ Draft(t, l)' => s = t
  BY <1>1, <1>2, <1>3
<1> QED
  BY <1>4, <1>5, <1>6 DEF Composed

(***************************************************************************)
(* Theorems                                                                *)
(***************************************************************************)

LEMMA Beginning == Init => IInv
<1> SUFFICES ASSUME Init PROVE IInv
  OBVIOUS
<1> USE LifecycleAssumption
<1>1. job \in [Worker -> JobRecord] /\ \A w \in Worker : job[w] = Idle /\ job[w].at = "idle"
  BY IdleFacts DEF Init
<1>2. Jobs
  BY <1>1, IdleFacts DEF Jobs, JobOK
<1>3. Rows
  BY DEF Init, Rows, Seq, NoReply
<1>4. TypeOK
  <2>1. NoSeq \in SeqRecord
    BY DEF NoSeq, SeqRecord
  <2> QED
    BY <1>1, <2>1 DEF Init, TypeOK, JobRecord, SeqRecord, LeadStatus, NoReply
<1>5. \A s \in Seq : seq[s].lead \notin Lead /\ seq[s].kind = "none"
  BY DEF Init, NoSeq
<1>6. \A w \in Worker, l \in Lead : job[w].lead # l
  BY <1>1, IdleFacts
<1>7. FollowUps
  BY <1>5, <1>6 DEF FollowUps, FollowedUp, SameFollowUp, Busy
<1>8. Composing
  BY <1>5, <1>6 DEF Composing, Composed, Drafted, Draft, Busy
<1>9. OptedOut /\ OptOutStops
  BY DEF Init, OptedOut, OptOutStops
<1> QED
  BY <1>2, <1>3, <1>4, <1>7, <1>8, <1>9 DEF IInv

LEMMA Invariance == Spec => []IInv
<1>1. IInv /\ [Next]_vars => IInv'
  BY TypeStep, RowsStep, JobsStep, OptedOutStep, LapsedStep, FollowUpsStep, ComposingStep DEF IInv
<1> QED
  BY <1>1, Beginning, PTL DEF Spec

\* Every variable keeps its type; what a worker is about to write was allowed
\* by the table from the status it read.
THEOREM TypeCorrect == Spec => []TypeOK
  BY Invariance, PTL DEF IInv

\* A follow-up is written once for a lead that one invocation at a time follows
\* up without being interrupted between INSERT and UPDATE (follow_up.py:298-317).
THEOREM FollowedUpOnce == Spec => []FollowUpsOnce
<1>1. IInv => FollowUpsOnce
  <2> SUFFICES ASSUME IInv, NEW s \in Seq, NEW t \in Seq, SameFollowUp(s, t)
               PROVE  seq[s].lead \in shared \cup torn
    BY DEF FollowUpsOnce
  <2>1. seq[s].lead \in Lead
    BY DEF IInv, Rows, SameFollowUp, NoSeq
  <2> QED
    BY <2>1 DEF IInv, FollowUps, FollowedUp
<1> QED
  BY <1>1, Invariance, PTL

\* A lead gets one draft when one invocation at a time composes for it without
\* interruption and nobody writes its status over unread (email_compose.py:204).
THEOREM ContactedOnce == Spec => []FirstContactOnce
<1>1. IInv => FirstContactOnce
  <2> SUFFICES ASSUME IInv, NEW s \in Seq, NEW t \in Seq, s # t, seq[s].kind = "draft",
                      seq[t].kind = "draft", seq[s].lead = seq[t].lead
               PROVE  seq[s].lead \in shared \cup torn \cup overwritten
    BY DEF FirstContactOnce
  <2>1. seq[s].lead \in Lead
    BY DEF IInv, Rows, NoSeq
  <2> QED
    BY <2>1 DEF IInv, Composing, Composed, Draft
<1> QED
  BY <1>1, Invariance, PTL

\* Who opted out or bounced does not pass the compliance gate again, unless a
\* late writer took the opt-out back (state_machine.py:53, email_send.py:380).
THEOREM OptOutLasts == Spec => []OptOutStops
  BY Invariance, PTL DEF IInv

\* A status changes along the table of state_machine.py, but for the tracking
\* UPDATE, a hard bounce, and a writer that comes late.
THEOREM TableIsFollowed == Spec => MovesFollowTable
<1>1. IInv /\ [Next]_vars =>
        [\A l \in Lead : status'[l] # status[l] =>
           \/ status'[l] \in TRANSITIONS[status[l]]
           \/ status'[l] = "email_sent" /\ \E w \in Worker : job[w].lead = l /\ job[w].at = "call"
           \/ status'[l] = "unsubscribed"
           \/ l \in overwritten']_vars
  BY StatusWritten DEF IInv, Track
<1> QED
  BY <1>1, Invariance, PTL DEF Spec, MovesFollowTable
=============================================================================
