------------------------- MODULE OutboundEmailProofs -------------------------
(***************************************************************************)
(* Safety of the compliance gate for any number of leads, senders, log     *)
(* rows and faults.                                                        *)
(***************************************************************************)
EXTENDS OutboundEmail, TLAPS

(***************************************************************************)
(* The inductive invariant                                                 *)
(***************************************************************************)

Writing == {"call", "sent", "refused"}   \* between InsertLog and finalising
OnARow  == Writing \cup {"warn", "resolve"}
Resting == {"idle", "queueing", "list"}

\* The sequence in hand is being sent (queueing it for review is not sending).
Engaged(s) == pc[s] \notin Resting \cup Queueing

Backed(q) == q \in alerted \/ \E r \in delivered : logSeq[r] = q

\* Log rows are filled in order and only used rows were ever delivered.
LogOrder ==
  \A r \in Log : /\ r < nextLog <=> logSeq[r] # None
                 /\ r >= nextLog <=> logStatus[r] = "absent"
                 /\ r >= nextLog => r \notin delivered

ItemOrder == \A i \in Item : i < nextItem <=> itemSeq[i] # None

\* Without contention a new row is only inserted when all others failed.
OlderFailed ==
  \A r1, r2 \in Log :
    /\ r1 < r2 /\ r2 < nextLog
    /\ logSeq[r1] = logSeq[r2] /\ logSeq[r1] \notin contended
    => logStatus[r1] = "failed"

TableInv ==
  /\ LogOrder /\ ItemOrder
  /\ LogIsTruthful /\ SentMeansDelivered
  /\ OlderFailed /\ ReviewPrecedesSend

\* What a sender at each control point knows of the row in hand.
KnowsRow(s) ==
  /\ pc[s] \in OnARow => row[s] # None /\ logSeq[row[s]] = job[s]
  /\ pc[s] = "call" => row[s] \notin delivered /\ logStatus[row[s]] # "failed"
  /\ pc[s] = "sent" => row[s] \in delivered
  /\ pc[s] = "refused" /\ row[s] \in delivered => row[s] \in ambiguous
  /\ pc[s] = "resolve" => job[s] \in alerted
  /\ pc[s] \in {"track", "commit", "approve"} => Backed(job[s])

\* What the dedupe step established still holds when the row is inserted.
InsertFree(s) ==
  pc[s] = "insert" /\ job[s] \notin contended =>
    \A r \in Log : logSeq[r] = job[s] => logStatus[r] = "failed"

\* In review mode Titan only queues; what Hermes sends has its item.
Reviewed(s) ==
  /\ s \in TitanSender /\ reviewMode => ~Engaged(s) /\ pc[s] # "list"
  /\ s \in Reviewer /\ Engaged(s) => \E i \in Item : itemSeq[i] = job[s]
  /\ s \in Reviewer => Engaged(s) \/ pc[s] = "idle"

SenderInv(s) == KnowsRow(s) /\ InsertFree(s) /\ Reviewed(s)

\* A row is written by the sender that inserted it, and two senders are only
\* busy with the same sequence when that is recorded as contention.
Apart(s, t) ==
  /\ pc[s] \in Writing /\ pc[t] \in Writing => row[s] # row[t]
  /\ Engaged(s) /\ Engaged(t) /\ job[s] = job[t] => job[s] \in contended

IInv ==
  /\ TypeOK /\ TableInv
  /\ \A s \in Sender : SenderInv(s)
  /\ \A s \in Sender : \A t \in Sender \ {s} : Apart(s, t)

USE DEF Sender, Log, Seq, Item, None, Writing, OnARow, Resting, Engaged, Queueing

(***************************************************************************)
(* Typing, in two parts: the tables, and the senders                       *)
(***************************************************************************)
TableTypes ==
  /\ lead \in [Client -> LeadStatus]
  /\ followUps \in [Client -> 0 .. FollowUpLimit]
  /\ seqClient \in [Seq -> Client \cup {NoClient}]
  /\ seqStep \in [Seq -> Nat]
  /\ seqStatus \in [Seq -> {"absent", "pending", "sent"}]
  /\ nextSeq \in 1 .. MaxSeq + 1
  /\ reviewMode \in BOOLEAN
  /\ itemSeq \in [Item -> Seq \cup {None}]
  /\ itemStatus \in [Item -> {"absent", "pending_review", "approved", "rejected"}]
  /\ nextItem \in 1 .. MaxItem + 1
  /\ logSeq \in [Log -> Seq \cup {None}]
  /\ logStatus \in [Log -> {"absent", "pending", "sent", "failed"}]
  /\ nextLog \in 1 .. MaxLog + 1
  /\ alerted \subseteq Seq
  /\ delivered \subseteq Log /\ ambiguous \subseteq delivered
  /\ contended \subseteq Seq
  /\ faults \in 0 .. MaxFault

SenderTypes ==
  /\ pc \in [Sender -> Control]
  /\ todo \in [Sender -> SUBSET Seq]
  /\ job \in [Sender -> Seq \cup {None}]
  /\ row \in [Sender -> Log \cup {None}]
  /\ item \in [Sender -> Item \cup {None}]
  /\ \A s \in Sender : job[s] = None <=> pc[s] \in Resting

\* The type invariant, in two parts: the tables and the senders.
LEMMA TypeParts == TypeOK <=> TableTypes /\ SenderTypes
BY DEF TypeOK, TableTypes, SenderTypes

(***************************************************************************)
(* How one sender's step looks to the others                               *)
(***************************************************************************)
Others(s) ==
  \A t \in Sender \ {s} : pc'[t] = pc[t] /\ job'[t] = job[t] /\ row'[t] = row[t]

\* The log only grows, rows only fail or get delivered by their writer, and
\* only a sender past the dedupe step adds one.
LogStep(s) ==
  /\ \A r \in Log :
       /\ logSeq[r] # None => logSeq'[r] = logSeq[r]
       /\ logSeq[r] = None /\ logSeq'[r] # None =>
            pc[s] = "insert" /\ logSeq'[r] = job[s]
       /\ logStatus[r] = "failed" => logStatus'[r] = "failed"
       /\ logStatus'[r] = "failed" =>
            logStatus[r] = "failed" \/ (pc[s] \in Writing /\ r = row[s])
       /\ r \in delivered' => r \in delivered \/ (pc[s] \in Writing /\ r = row[s])
  /\ alerted \subseteq alerted'
  /\ delivered \subseteq delivered' /\ ambiguous \subseteq ambiguous'

ItemStep ==
  /\ reviewMode' => reviewMode
  /\ \A i \in Item : itemSeq[i] # None => itemSeq'[i] = itemSeq[i]

\* The sender itself stays apart from the others.
StaysApart(s) ==
  /\ contended \subseteq contended'
  /\ pc'[s] \in Writing => \/ pc[s] \in Writing /\ row'[s] = row[s]
                           \/ row'[s] \in Log /\ logSeq[row'[s]] = None
  /\ Engaged(s)' => \/ Engaged(s) /\ job'[s] = job[s]
                    \/ \A t \in Sender \ {s} :
                         Engaged(t) /\ job[t] = job'[s] => job'[s] \in contended'

\* It suffices to look at the tables and at the sender that moves.
LEMMA OneSenderMoves ==
  ASSUME IInv, NEW s \in Sender, Others(s), LogStep(s), ItemStep, StaysApart(s),
         TypeOK', TableInv', SenderInv(s)'
  PROVE  IInv'
<1>1. ASSUME NEW t \in Sender \ {s} PROVE SenderInv(t)'
  <2>1. /\ pc'[t] = pc[t] /\ job'[t] = job[t] /\ row'[t] = row[t]
        /\ SenderInv(t) /\ Apart(s, t)
    BY DEF IInv, Others
  <2>2. /\ row[t] \in Log \cup {0} /\ job[t] \in Seq \cup {0}
        /\ job[s] \in Seq \cup {0}
        /\ job[t] = 0 <=> pc[t] \in Resting
        /\ delivered \subseteq Log
        /\ delivered' \subseteq Log
    BY DEF IInv, TypeOK
  <2>3. KnowsRow(t)'
    <3>1. pc[t] \in OnARow => logSeq'[row[t]] = job[t]
      BY <2>1, <2>2 DEF SenderInv, KnowsRow, LogStep
    <3>2. pc[t] = "call" => row[t] \notin delivered' /\ logStatus'[row[t]] # "failed"
      BY <2>1, <2>2 DEF SenderInv, KnowsRow, LogStep, Apart
    <3>3. pc[t] = "refused" /\ row[t] \in delivered' => row[t] \in ambiguous'
      BY <2>1, <2>2 DEF SenderInv, KnowsRow, LogStep, Apart
    <3>4. pc[t] \in {"track", "commit", "approve"} => Backed(job[t])'
      BY <2>1, <2>2 DEF SenderInv, KnowsRow, LogStep, Backed
    <3> QED
      BY <2>1, <3>1, <3>2, <3>3, <3>4 DEF SenderInv, KnowsRow, LogStep, Backed
  <2>4. InsertFree(t)'
    BY <2>1, <2>2 DEF SenderInv, InsertFree, LogStep, Apart, StaysApart
  <2>5. Reviewed(t)'
    BY <2>1, <2>2 DEF SenderInv, Reviewed, ItemStep
  <2> QED
    BY <2>3, <2>4, <2>5 DEF SenderInv
<1>2. ASSUME NEW t \in Sender \ {s}, NEW u \in Sender \ {s, t} PROVE Apart(t, u)'
  BY <1>2 DEF IInv, Apart, Others, StaysApart
<1>3. ASSUME NEW t \in Sender \ {s} PROVE Apart(s, t)' /\ Apart(t, s)'
  <2>1. /\ pc'[t] = pc[t] /\ job'[t] = job[t] /\ row'[t] = row[t]
        /\ SenderInv(t) /\ Apart(s, t) /\ Apart(t, s)
    BY DEF IInv, Others
  <2>2. job[t] \in Seq \cup {0} /\ (job[t] = 0 <=> pc[t] \in Resting)
    BY DEF IInv, TypeOK
  <2>3. pc'[s] \in Writing /\ pc[t] \in Writing => row'[s] # row[t]
    BY <2>1, <2>2 DEF SenderInv, KnowsRow, StaysApart, Apart
  <2>4. Engaged(s)' /\ Engaged(t) /\ job'[s] = job[t] => job[t] \in contended'
    BY <2>1 DEF StaysApart, Apart
  <2> QED
    BY <2>1, <2>3, <2>4 DEF Apart
<1> QED
  BY <1>1, <1>2, <1>3 DEF IInv

(***************************************************************************)
(* Frames: what a step that leaves tables alone preserves                  *)
(***************************************************************************)
Quiet == UNCHANGED <<seqStatus, reviewMode, itemSeq, nextItem, logVars,
                     alerted, mailVars>>

\* A step that leaves the tables alone keeps every invariant of the tables.
LEMMA QuietTables ==
  ASSUME IInv, Quiet, contended \subseteq contended', NEW s \in Sender
  PROVE  TableInv' /\ LogStep(s) /\ ItemStep
<1> USE DEF IInv, TableInv, Quiet, logVars, mailVars
<1>1. LogOrder' /\ ItemOrder'
  BY DEF LogOrder, ItemOrder
<1>2. LogIsTruthful' /\ SentMeansDelivered'
  BY DEF LogIsTruthful, SentMeansDelivered
<1>3. OlderFailed'
  BY DEF OlderFailed
<1>4. ReviewPrecedesSend'
  BY DEF ReviewPrecedesSend
<1>5. LogStep(s) /\ ItemStep
  BY DEF LogStep, ItemStep
<1> QED
  BY <1>1, <1>2, <1>3, <1>4, <1>5

\* A sender that moves on keeps its sequence ...
LEMMA GotoIs ==
  ASSUME SenderTypes, NEW s \in Sender, NEW label, Goto(s, label)
  PROVE  /\ pc'[s] = label /\ job'[s] = job[s]
         /\ row' = row => row'[s] = row[s] /\ Others(s)
BY DEF SenderTypes, Goto, Others

\* Goto keeps the types of the senders' variables.
LEMMA GotoTypes ==
  ASSUME SenderTypes, NEW s \in Sender, pc[s] \notin Resting,
         NEW label \in Control \ Resting, Goto(s, label),
         row' \in [Sender -> Log \cup {None}]
  PROVE  SenderTypes'
<1>1. pc' \in [Sender -> Control]
  BY DEF SenderTypes, Goto
<1>2. job' = job /\ todo' = todo /\ item' = item
  BY DEF Goto
<1>3. ASSUME NEW t \in Sender PROVE job'[t] = None <=> pc'[t] \in Resting
  <2>1. CASE t = s
    BY <2>1 DEF SenderTypes, Goto
  <2>2. CASE t # s
    BY <2>2 DEF SenderTypes, Goto
  <2> QED
    BY <2>1, <2>2
<1> QED
  BY <1>1, <1>2, <1>3 DEF SenderTypes

\* ... and one that lets go holds nothing and knows nothing.
LEMMA ReleaseIs ==
  ASSUME SenderTypes, NEW s \in Sender, Release(s)
  PROVE  /\ pc'[s] = IF s \in TitanSender THEN "list" ELSE "idle"
         /\ Others(s) /\ SenderTypes'
<1>1. pc'[s] = (IF s \in TitanSender THEN "list" ELSE "idle") /\ job'[s] = None
  BY DEF SenderTypes, Release
<1>2. Others(s)
  BY DEF SenderTypes, Release, Others
<1>3. /\ pc' \in [Sender -> Control] /\ todo' = todo
      /\ job' \in [Sender -> Seq \cup {None}]
      /\ row' \in [Sender -> Log \cup {None}]
      /\ item' \in [Sender -> Item \cup {None}]
  BY DEF SenderTypes, Release, Control
<1>4. ASSUME NEW t \in Sender PROVE job'[t] = None <=> pc'[t] \in Resting
  BY <1>1, <1>2 DEF SenderTypes, Others
<1> QED
  BY <1>1, <1>2, <1>3, <1>4 DEF SenderTypes

\* Giving up a lead or a log row keeps what the other senders rely on.
LEMMA Lets ==
  ASSUME IInv, NEW s \in Sender, Release(s), Engaged(s),
         LogStep(s), ItemStep, reviewMode' = reviewMode,
         contended \subseteq contended', TableTypes', TableInv'
  PROVE  IInv'
<1>1. SenderTypes
  BY TypeParts DEF IInv
<1>2. /\ pc'[s] = IF s \in TitanSender THEN "list" ELSE "idle"
      /\ Others(s) /\ SenderTypes'
  BY <1>1, ReleaseIs
<1>3. TypeOK'
  BY <1>2, TypeParts DEF TypeOK, TableTypes, SenderTypes
<1>4. SenderInv(s)'
  BY <1>2, MailAssumption DEF IInv, SenderInv, KnowsRow, InsertFree, Reviewed
<1>5. StaysApart(s)
  BY <1>2 DEF StaysApart
<1> QED
  BY <1>2, <1>3, <1>4, <1>5, OneSenderMoves

\* A step that neither touches the tables these facts are about nor starts
\* anything: the sender goes on with what it knows.
LEMMA Goes ==
  ASSUME IInv, NEW s \in Sender, NEW label \in Control \ Resting, Goto(s, label),
         Engaged(s), label \notin Queueing,
         label \in Writing => pc[s] \in Writing /\ row' = row,
         LogStep(s), ItemStep, reviewMode' = reviewMode, itemSeq' = itemSeq,
         contended' = contended,
         \A t \in Sender \ {s} : row'[t] = row[t],
         row' \in [Sender -> Log \cup {None}],
         TableTypes', TableInv', KnowsRow(s)', InsertFree(s)'
  PROVE  IInv'
<1>1. SenderTypes
  BY TypeParts DEF IInv
<1>2. pc'[s] = label /\ job'[s] = job[s]
  BY <1>1, GotoIs
<1>3. Others(s)
  BY <1>1 DEF SenderTypes, Goto, Others
<1>4. SenderTypes'
  BY <1>1, GotoTypes
<1>5. TypeOK'
  BY <1>4 DEF TypeOK, TableTypes, SenderTypes
<1>6. Reviewed(s)'
  BY <1>2 DEF IInv, SenderInv, Reviewed
<1>7. StaysApart(s)
  BY <1>2 DEF StaysApart
<1> QED
  BY <1>3, <1>5, <1>6, <1>7, OneSenderMoves DEF SenderInv

(***************************************************************************)
(* send_emails                                                             *)
(***************************************************************************)
LEMMA SendEmailsStep ==
  ASSUME IInv, NEW s \in Sender, SendEmails(s)
  PROVE  IInv'
<1> USE DEF SendEmails
<1>1. SenderTypes /\ TableTypes
  BY TypeParts DEF IInv
<1>2. /\ pc'[s] \in {"idle", "queueing", "list"}
      /\ pc'[s] = "list" => ~reviewMode
      /\ job' = job /\ row' = row /\ item' = item /\ Others(s)
  BY <1>1 DEF SenderTypes, Others
<1>3. SenderTypes'
  <2>1. pc' \in [Sender -> Control]
    BY <1>1 DEF SenderTypes, Control
  <2>2. todo' \in [Sender -> SUBSET Seq]
    BY <1>1 DEF SenderTypes, Due
  <2> QED
    BY <1>1, <1>2, <2>1, <2>2 DEF SenderTypes, Others
<1>4. TypeOK'
  BY <1>1, <1>3 DEF TypeOK, TableTypes, SenderTypes, leadVars, seqVars, reviewVars,
                    logVars, mailVars
<1>5. TableInv' /\ LogStep(s) /\ ItemStep
  BY QuietTables DEF Quiet, seqVars, reviewVars, mailVars
<1>6. SenderInv(s)'
  BY <1>2, MailAssumption DEF SenderInv, KnowsRow, InsertFree, Reviewed, reviewVars
<1>7. StaysApart(s)
  BY <1>2 DEF StaysApart
<1> QED
  BY <1>2, <1>4, <1>5, <1>6, <1>7, OneSenderMoves

\* The end of a pass over the leads preserves the invariant: only a
\* control point moves.
LEMMA EndListStep ==
  ASSUME IInv, NEW s \in Sender, EndList(s)
  PROVE  IInv'
<1> USE DEF EndList
<1>1. SenderTypes /\ TableTypes
  BY TypeParts DEF IInv
<1>2. pc'[s] = "idle" /\ job' = job /\ row' = row /\ item' = item /\ Others(s)
  BY <1>1 DEF SenderTypes, Others
<1>3. SenderTypes'
  <2>1. pc' \in [Sender -> Control]
    BY <1>1 DEF SenderTypes, Control
  <2>2. todo' \in [Sender -> SUBSET Seq]
    BY <1>1 DEF SenderTypes
  <2> QED
    BY <1>1, <1>2, <2>1, <2>2 DEF SenderTypes, Others
<1>4. TypeOK'
  BY <1>1, <1>3 DEF TypeOK, TableTypes, SenderTypes, leadVars, seqVars, reviewVars,
                    logVars, mailVars
<1>5. TableInv' /\ LogStep(s) /\ ItemStep
  BY QuietTables DEF Quiet, seqVars, reviewVars, mailVars
<1>6. SenderInv(s)'
  BY <1>2 DEF SenderInv, KnowsRow, InsertFree, Reviewed
<1>7. StaysApart(s)
  BY <1>2 DEF StaysApart
<1> QED
  BY <1>2, <1>4, <1>5, <1>6, <1>7, OneSenderMoves

\* Queueing for review preserves the invariant: the new item is the newest
\* of its lead.
LEMMA QueueItemStep ==
  ASSUME IInv, NEW s \in Sender, NEW q \in Seq, QueueItem(s, q)
  PROVE  IInv'
<1> USE MailAssumption DEF QueueItem
<1>1. SenderTypes /\ TableTypes
  BY TypeParts DEF IInv
<1>2. pc'[s] = "moving" /\ job'[s] = q /\ row' = row /\ item' = item /\ Others(s)
  BY <1>1 DEF SenderTypes, Others
<1>3. SenderTypes'
  <2>1. /\ pc' \in [Sender -> Control] /\ todo' \in [Sender -> SUBSET Seq]
        /\ job' \in [Sender -> Seq \cup {None}]
    BY <1>1 DEF SenderTypes, Control
  <2> QED
    BY <1>1, <1>2, <2>1 DEF SenderTypes, Others
<1>4. TableTypes'
  BY <1>1 DEF TableTypes, leadVars, seqVars, logVars, mailVars
<1>5. TypeOK'
  BY <1>3, <1>4 DEF TypeOK, TableTypes, SenderTypes
<1>6. ItemStep /\ ItemOrder'
  BY <1>1 DEF ItemStep, IInv, TableInv, ItemOrder, TableTypes
<1>7. TableInv'
  <2> USE DEF IInv, TableInv
  <2>1. LogOrder' /\ LogIsTruthful' /\ SentMeansDelivered' /\ OlderFailed'
    BY DEF LogOrder, LogIsTruthful, SentMeansDelivered, OlderFailed, logVars,
           mailVars, seqVars
  <2>2. ReviewPrecedesSend'
    <3> SUFFICES ASSUME reviewMode', NEW r \in delivered'
                 PROVE  \E i \in Item : itemSeq'[i] = logSeq'[r]
      BY DEF ReviewPrecedesSend
    <3>1. reviewMode /\ r \in delivered /\ r \in Log /\ logSeq' = logSeq
      BY <1>1 DEF mailVars, logVars, TableTypes
    <3>2. PICK i \in Item : itemSeq[i] = logSeq[r]
      BY <3>1 DEF ReviewPrecedesSend
    <3>3. logSeq[r] # None
      BY <3>1, <1>1 DEF LogOrder, TableTypes
    <3> QED
      BY <3>1, <3>2, <3>3, <1>6 DEF ItemStep
  <2> QED
    BY <1>6, <2>1, <2>2
<1>8. LogStep(s)
  BY DEF LogStep, logVars, mailVars
<1>9. SenderInv(s)' /\ StaysApart(s)
  BY <1>2 DEF IInv, SenderInv, KnowsRow, InsertFree, Reviewed, StaysApart
<1> QED
  BY <1>2, <1>5, <1>6, <1>7, <1>8, <1>9, OneSenderMoves

\* The look for a queued item preserves the invariant: it only reads.
LEMMA CheckQueuedStep ==
  ASSUME IInv, NEW s \in Sender, CheckQueued(s)
  PROVE  IInv'
<1> USE DEF CheckQueued
<1>1. SenderTypes /\ TableTypes
  BY TypeParts DEF IInv
<1>2. /\ \/ pc'[s] = "queueing" /\ job'[s] = None
         \/ pc'[s] = "writing" /\ job'[s] = job[s] /\ job[s] # None
      /\ row' = row /\ item' = item /\ Others(s)
  BY <1>1 DEF SenderTypes, Others
<1>3. SenderTypes'
  <2>1. pc' \in [Sender -> Control] /\ job' \in [Sender -> Seq \cup {None}]
    BY <1>1 DEF SenderTypes, Control
  <2> QED
    BY <1>1, <1>2, <2>1 DEF SenderTypes, Others
<1>4. TypeOK'
  BY <1>1, <1>3 DEF TypeOK, TableTypes, SenderTypes, leadVars, seqVars, reviewVars,
                    logVars, mailVars
<1>5. TableInv' /\ LogStep(s) /\ ItemStep
  BY QuietTables DEF Quiet, seqVars, reviewVars, mailVars
<1>6. SenderInv(s)' /\ StaysApart(s)
  BY <1>2 DEF IInv, SenderInv, KnowsRow, InsertFree, Reviewed, StaysApart
<1> QED
  BY <1>2, <1>4, <1>5, <1>6, OneSenderMoves

\* The INSERT into the review queue preserves the invariant.
LEMMA WriteQueuedStep ==
  ASSUME IInv, NEW s \in Sender, WriteQueued(s)
  PROVE  IInv'
<1> USE DEF WriteQueued
<1>1. SenderTypes /\ TableTypes
  BY TypeParts DEF IInv
<1>2. pc'[s] = "queueing" /\ job'[s] = None /\ row' = row /\ item' = item /\ Others(s)
  BY <1>1 DEF SenderTypes, Others
<1>3. SenderTypes'
  <2>1. pc' \in [Sender -> Control] /\ job' \in [Sender -> Seq \cup {None}]
    BY <1>1 DEF SenderTypes, Control
  <2> QED
    BY <1>1, <1>2, <2>1 DEF SenderTypes, Others
<1>4. TableTypes'
  <2>1. lead' \in [Client -> LeadStatus]
    BY <1>1 DEF TableTypes, LeadStatus
  <2> QED
    BY <1>1, <2>1 DEF TableTypes, seqVars, reviewVars, logVars, mailVars
<1>5. TypeOK'
  BY <1>3, <1>4 DEF TypeOK, TableTypes, SenderTypes
<1>6. TableInv' /\ LogStep(s) /\ ItemStep
  BY QuietTables DEF Quiet, seqVars, reviewVars, mailVars
<1>7. SenderInv(s)' /\ StaysApart(s)
  BY <1>2 DEF IInv, SenderInv, KnowsRow, InsertFree, Reviewed, StaysApart
<1> QED
  BY <1>2, <1>5, <1>6, <1>7, OneSenderMoves

\* Taking a sequence in hand records the contention there is.
LEMMA Takes ==
  ASSUME IInv, NEW s \in Sender, NEW q \in Seq, Hold(s, q),
         pc' = [pc EXCEPT ![s] = "gate"], row' = row,
         todo' \in [Sender -> SUBSET Seq], item' \in [Sender -> Item \cup {None}],
         Quiet, UNCHANGED <<leadVars, seqVars, reviewVars, faults>>,
         s \in TitanSender => pc[s] = "list",
         s \in Reviewer => \E i \in Item : itemSeq[i] = q
  PROVE  IInv'
<1>1. SenderTypes /\ TableTypes
  BY TypeParts DEF IInv
<1>2. pc'[s] = "gate" /\ job'[s] = q /\ Others(s)
  BY <1>1 DEF SenderTypes, Hold, Others
<1>3. SenderTypes'
  <2>1. pc' \in [Sender -> Control] /\ job' \in [Sender -> Seq \cup {None}]
    BY <1>1 DEF SenderTypes, Hold, Control
  <2> QED
    BY <1>1, <1>2, <2>1 DEF SenderTypes, Others
<1>4. contended \subseteq contended' /\ contended' \subseteq Seq
  BY <1>1 DEF Hold, TableTypes
<1>5. TypeOK'
  BY <1>1, <1>3, <1>4 DEF TypeOK, TableTypes, SenderTypes, Quiet, leadVars, seqVars,
                          reviewVars, logVars, mailVars
<1>6. TableInv' /\ LogStep(s) /\ ItemStep
  BY <1>4, QuietTables
<1>7. SenderInv(s)'
  BY <1>2 DEF IInv, SenderInv, KnowsRow, InsertFree, Reviewed, Quiet
<1>8. StaysApart(s)
  BY <1>2, <1>4 DEF StaysApart, Hold
<1> QED
  BY <1>2, <1>5, <1>6, <1>7, <1>8, OneSenderMoves

\* Taking the next lead of the list preserves the invariant.
LEMMA TakeLeadStep ==
  ASSUME IInv, NEW s \in Sender, NEW q \in Seq, TakeLead(s, q)
  PROVE  IInv'
<1> USE DEF TakeLead
<1>1. SenderTypes /\ TableTypes
  BY TypeParts DEF IInv
<1>2. todo' \in [Sender -> SUBSET Seq]
  BY <1>1 DEF SenderTypes
<1>3. CASE q \in Flagged
  <2>1. UNCHANGED <<pc, job, row, item, contended>> /\ Quiet
    BY <1>3 DEF Quiet, seqVars, reviewVars, mailVars
  <2>2. TypeOK'
    BY <1>1, <1>2, <2>1 DEF TypeOK, TableTypes, SenderTypes, leadVars, seqVars,
                            reviewVars, logVars, mailVars
  <2>3. TableInv' /\ LogStep(s) /\ ItemStep
    BY <2>1, QuietTables
  <2>4. SenderInv(s)'
    BY <2>1 DEF IInv, SenderInv, KnowsRow, InsertFree, Reviewed, Backed, Quiet,
                logVars, mailVars
  <2>5. Others(s) /\ StaysApart(s)
    BY <2>1 DEF Others, StaysApart
  <2> QED
    BY <2>2, <2>3, <2>4, <2>5, OneSenderMoves
<1>4. CASE q \notin Flagged
  <2>1. s \notin Reviewer
    BY DEF IInv, SenderInv, Reviewed
  <2> QED
    BY <1>1, <1>2, <1>4, <2>1, Takes DEF Quiet, seqVars, reviewVars, mailVars, SenderTypes
<1> QED
  BY <1>3, <1>4

(***************************************************************************)
(* /approve, /reject, and the pipeline around the senders                  *)
(***************************************************************************)
LEMMA ApproveReviewStep ==
  ASSUME IInv, NEW s \in Sender, NEW i \in Item, ApproveReview(s, i)
  PROVE  IInv'
<1> USE DEF ApproveReview
<1>1. SenderTypes /\ TableTypes
  BY TypeParts DEF IInv
<1>2. itemSeq[i] \in Seq
  BY <1>1 DEF IInv, TableInv, ItemOrder, TableTypes
<1>3. s \notin TitanSender /\ \E j \in Item : itemSeq[j] = itemSeq[i]
  BY MailAssumption
<1>4. item' \in [Sender -> Item \cup {None}] /\ todo' \in [Sender -> SUBSET Seq]
  BY <1>1 DEF SenderTypes
<1> QED
  BY <1>2, <1>3, <1>4, Takes DEF Quiet, seqVars, reviewVars, mailVars

\* Steps in which no sender moves and the log stays as it is.
LEMMA SendersRest ==
  ASSUME IInv, UNCHANGED <<senderVars, logVars, alerted, mailVars, contended>>,
         itemSeq' = itemSeq, nextItem' = nextItem, reviewMode' => reviewMode,
         TypeOK', SentMeansDelivered'
  PROVE  IInv'
<1> USE DEF IInv, logVars, mailVars, senderVars
<1>1. TableInv'
  <2> USE DEF TableInv
  <2>1. LogOrder' /\ ItemOrder' /\ LogIsTruthful' /\ OlderFailed'
    BY DEF LogOrder, ItemOrder, LogIsTruthful, OlderFailed
  <2>2. ReviewPrecedesSend'
    BY DEF ReviewPrecedesSend
  <2> QED
    BY <2>1, <2>2
<1>2. ASSUME NEW s \in Sender PROVE SenderInv(s)'
  <2>1. SenderInv(s)
    OBVIOUS
  <2> QED
    BY <2>1 DEF SenderInv, KnowsRow, InsertFree, Reviewed, Backed
<1>3. ASSUME NEW s \in Sender, NEW t \in Sender \ {s} PROVE Apart(s, t)'
  BY DEF Apart
<1> QED
  BY <1>1, <1>2, <1>3

\* A rejection preserves the invariant: no sender works on the item.
LEMMA RejectReviewStep ==
  ASSUME IInv, NEW s \in Sender, NEW i \in Item, RejectReview(s, i)
  PROVE  IInv'
<1>1. TypeOK'
  BY DEF IInv, TypeOK, RejectReview, leadVars, seqVars, logVars, senderVars, mailVars
<1>2. SentMeansDelivered'
  BY DEF IInv, TableInv, SentMeansDelivered, RejectReview, seqVars, logVars, mailVars
<1> QED
  BY <1>1, <1>2, SendersRest DEF RejectReview

\* A follow-up (or a skipped one) preserves the invariant: it moves a lead
\* between two statuses in which no log row is written.
LEMMA FollowUpStep ==
  ASSUME IInv, NEW c \in Client, FollowUp(c)
  PROVE  IInv'
<1> USE MailAssumption DEF FollowUp, reviewVars, logVars, senderVars, mailVars
<1>1. TypeOK'
  <2>1. /\ lead' \in [Client -> LeadStatus]
        /\ seqStatus' \in [Seq -> {"absent", "pending", "sent"}]
    BY DEF IInv, TypeOK, LeadStatus
  <2>2. /\ followUps' \in [Client -> 0 .. FollowUpLimit]
        /\ seqStep' \in [Seq -> Nat]
    BY DEF IInv, TypeOK
  <2>3. /\ seqClient' \in [Seq -> Client \cup {NoClient}]
        /\ nextSeq' \in 1 .. MaxSeq + 1
    BY DEF IInv, TypeOK
  <2> QED
    BY <2>1, <2>2, <2>3 DEF IInv, TypeOK
<1>2. SentMeansDelivered'
  BY DEF IInv, TypeOK, TableInv, SentMeansDelivered
<1> QED
  BY <1>1, <1>2, SendersRest

\* A reply, a bounce or an opt-out preserves the invariant: only the status
\* of the lead changes.
LEMMA InboundStep ==
  ASSUME IInv, NEW c \in Client, HardBounce(c) \/ Reply(c)
  PROVE  IInv'
<1> USE DEF HardBounce, Reply, seqVars, reviewVars, logVars, senderVars, mailVars
<1>1. TypeOK'
  <2>1. \E st \in LeadStatus : lead' = [lead EXCEPT ![c] = st]
    BY DEF LeadStatus
  <2>2. lead' \in [Client -> LeadStatus]
    BY <2>1 DEF IInv, TypeOK
  <2> QED
    BY <2>2 DEF IInv, TypeOK
<1>2. SentMeansDelivered'
  BY DEF IInv, TableInv, SentMeansDelivered
<1> QED
  BY <1>1, <1>2, SendersRest

\* Leaving review mode preserves the invariant: the flag is never set again,
\* so items already reviewed stay accounted for.
LEMMA LeaveReviewModeStep ==
  ASSUME IInv, LeaveReviewMode
  PROVE  IInv'
<1> USE DEF LeaveReviewMode, leadVars, seqVars, logVars, senderVars, mailVars
<1>1. TypeOK'
  BY DEF IInv, TypeOK
<1>2. SentMeansDelivered'
  BY DEF IInv, TableInv, SentMeansDelivered
<1> QED
  BY <1>1, <1>2, SendersRest

(***************************************************************************)
(* send_to_instantly: steps that only look                                 *)
(***************************************************************************)
LEMMA GateIStep ==
  ASSUME IInv, NEW s \in Sender, Gate(s)
  PROVE  IInv'
<1> USE DEF Gate, seqVars, reviewVars, mailVars
<1>1. SenderTypes /\ TableTypes
  BY TypeParts DEF IInv
<1>2. Quiet /\ contended' = contended
  BY DEF Quiet
<1>3. TableInv' /\ LogStep(s) /\ ItemStep
  BY <1>2, QuietTables
<1>4. TableTypes'
  BY <1>1 DEF TableTypes, leadVars, logVars
<1>5. CASE Release(s)
  BY <1>2, <1>3, <1>4, <1>5, Lets
<1>6. CASE Goto(s, "dedupe") /\ UNCHANGED row
  <2>1. KnowsRow(s)' /\ InsertFree(s)'
    BY <1>1, <1>6, GotoIs DEF KnowsRow, InsertFree
  <2> QED
    BY <1>1, <1>2, <1>3, <1>4, <1>6, <2>1, Goes DEF Control, SenderTypes
<1> QED
  BY <1>5, <1>6

\* The gate that finds no sent row preserves the invariant.
LEMMA NotYetSentStep ==
  ASSUME IInv, NEW s \in Sender, NotYetSent(s)
  PROVE  IInv'
<1> USE DEF NotYetSent, seqVars, reviewVars, mailVars
<1>1. SenderTypes /\ TableTypes
  BY TypeParts DEF IInv
<1>2. Quiet /\ contended' = contended
  BY DEF Quiet
<1>3. TableInv' /\ LogStep(s) /\ ItemStep
  BY <1>2, QuietTables
<1>4. TableTypes'
  BY <1>1 DEF TableTypes, leadVars, logVars
<1>5. pc'[s] = "insert" /\ job'[s] = job[s]
  BY <1>1, GotoIs
<1>6. KnowsRow(s)'
  BY <1>5 DEF KnowsRow
<1>7. InsertFree(s)'
  <2> SUFFICES ASSUME job[s] \notin contended, NEW r \in Log, logSeq[r] = job[s]
               PROVE  logStatus[r] = "failed"
    BY <1>5 DEF InsertFree, logVars
  <2>1. r \in Rows(job[s])
    BY <1>1 DEF Rows, IInv, TableInv, LogOrder, SenderTypes
  <2>2. CASE \A u \in Rows(job[s]) : u <= r
    BY <2>1, <2>2 DEF Latest
  <2>3. ASSUME NEW u \in Rows(job[s]), ~(u <= r) PROVE logStatus[r] = "failed"
    BY <2>3 DEF Rows, IInv, TableInv, OlderFailed
  <2> QED
    BY <2>2, <2>3
<1> QED
  BY <1>1, <1>2, <1>3, <1>4, <1>6, <1>7, Goes DEF Control, SenderTypes

\* The gate that finds a sent row preserves the invariant: the lead is
\* given up.
LEMMA AlreadySentStep ==
  ASSUME IInv, NEW s \in Sender, AlreadySent(s)
  PROVE  IInv'
<1> USE DEF AlreadySent, seqVars, reviewVars, mailVars
<1>1. SenderTypes /\ TableTypes
  BY TypeParts DEF IInv
<1>2. Quiet /\ contended' = contended
  BY DEF Quiet
<1>3. TableInv' /\ LogStep(s) /\ ItemStep
  BY <1>2, QuietTables
<1>4. TableTypes'
  BY <1>1 DEF TableTypes, leadVars, logVars
<1>5. pc'[s] = "track" /\ job'[s] = job[s]
  BY <1>1, GotoIs
<1>6. Backed(job[s])
  BY DEF Latest, Rows, Backed, IInv, TableInv, LogIsTruthful
<1>7. KnowsRow(s)' /\ InsertFree(s)'
  BY <1>5, <1>6 DEF KnowsRow, InsertFree, Backed, logVars
<1> QED
  BY <1>1, <1>2, <1>3, <1>4, <1>7, Goes DEF Control, SenderTypes

\* Finding a pending row of an earlier attempt preserves the invariant: from
\* here on the sender knows that row.
LEMMA FindsPendingStep ==
  ASSUME IInv, NEW s \in Sender, FindsPending(s)
  PROVE  IInv'
<1> USE DEF FindsPending, seqVars, reviewVars, mailVars
<1>1. SenderTypes /\ TableTypes
  BY TypeParts DEF IInv
<1>2. Quiet /\ contended' = contended
  BY DEF Quiet
<1>3. TableInv' /\ LogStep(s) /\ ItemStep
  BY <1>2, QuietTables
<1>4. TableTypes'
  BY <1>1 DEF TableTypes, leadVars, logVars
<1>5. pc'[s] = "warn" /\ job'[s] = job[s]
  BY <1>1, GotoIs
<1>6. PICK r \in Log : Latest(job[s], r) /\ row' = [row EXCEPT ![s] = r]
  OBVIOUS
<1>7. row'[s] = r /\ row' \in [Sender -> Log \cup {None}] /\ logSeq[r] = job[s]
  BY <1>1, <1>6 DEF SenderTypes, Latest, Rows
<1>8. KnowsRow(s)' /\ InsertFree(s)'
  BY <1>5, <1>7 DEF KnowsRow, InsertFree, logVars
<1>9. \A t \in Sender \ {s} : row'[t] = row[t]
  BY <1>1, <1>6 DEF SenderTypes
<1> QED
  BY <1>1, <1>2, <1>3, <1>4, <1>7, <1>8, <1>9, Goes DEF Control

(***************************************************************************)
(* send_to_instantly: steps that write                                     *)
(***************************************************************************)
LEMMA WarnOperatorStep ==
  ASSUME IInv, NEW s \in Sender, WarnOperator(s)
  PROVE  IInv'
<1> USE DEF WarnOperator, logVars, mailVars
<1>1. SenderTypes /\ TableTypes
  BY TypeParts DEF IInv
<1>2. pc'[s] = "resolve" /\ job'[s] = job[s] /\ job[s] \in Seq
  BY <1>1, GotoIs DEF SenderTypes
<1>3. TableTypes'
  BY <1>1, <1>2 DEF TableTypes, leadVars, seqVars, reviewVars
<1>4. TableInv'
  <2> USE DEF IInv, TableInv
  <2>1. LogOrder' /\ ItemOrder' /\ OlderFailed' /\ ReviewPrecedesSend'
    BY DEF LogOrder, ItemOrder, OlderFailed, ReviewPrecedesSend, reviewVars
  <2>2. LogIsTruthful' /\ SentMeansDelivered'
    BY DEF LogIsTruthful, SentMeansDelivered, seqVars
  <2> QED
    BY <2>1, <2>2
<1>5. LogStep(s) /\ ItemStep
  BY DEF LogStep, ItemStep, reviewVars
<1>6. KnowsRow(s)' /\ InsertFree(s)'
  BY <1>2 DEF IInv, SenderInv, KnowsRow, InsertFree
<1> QED
  BY <1>1, <1>3, <1>4, <1>5, <1>6, Goes DEF Control, SenderTypes, reviewVars

\* The row in hand is finalised, by its writer or by a sender that guesses.
LEMMA Finalises ==
  ASSUME IInv, NEW s \in Sender, pc[s] \in OnARow, NEW outcome \in {"sent", "failed"},
         logStatus' = [logStatus EXCEPT ![row[s]] = outcome],
         logStatus[row[s]] = "pending",
         outcome = "sent" => row[s] \in delivered \/ job[s] \in alerted,
         outcome = "failed" => pc[s] = "refused",
         UNCHANGED <<leadVars, seqVars, reviewVars, logSeq, nextLog, alerted,
                     mailVars, contended, faults>>
  PROVE  TableTypes' /\ TableInv' /\ LogStep(s) /\ ItemStep
<1> USE DEF seqVars, reviewVars, mailVars
<1>1. TableTypes
  BY TypeParts DEF IInv
<1>2. KnowsRow(s) /\ row[s] \in Log /\ logSeq[row[s]] = job[s]
  BY DEF IInv, SenderInv, KnowsRow, TypeOK
<1>3. TableTypes'
  BY <1>1 DEF TableTypes, leadVars
<1>4. \A r \in Log : logStatus'[r] = IF r = row[s] THEN outcome ELSE logStatus[r]
  BY <1>1, <1>2 DEF TableTypes
<1>5. LogStep(s) /\ ItemStep
  BY <1>2, <1>4 DEF LogStep, ItemStep
<1>6. TableInv'
  <2> USE DEF IInv, TableInv
  <2>1. LogOrder' /\ ItemOrder' /\ SentMeansDelivered' /\ ReviewPrecedesSend'
    BY <1>2, <1>4 DEF LogOrder, ItemOrder, SentMeansDelivered, ReviewPrecedesSend
  <2>2. LogIsTruthful'
    BY <1>2, <1>4 DEF LogIsTruthful, KnowsRow
  <2>3. OlderFailed'
    BY <1>2, <1>4 DEF OlderFailed
  <2> QED
    BY <2>1, <2>2, <2>3
<1> QED
  BY <1>3, <1>5, <1>6

\* Resolving an earlier attempt preserves the invariant: a row is finalised
\* as sent only when its mail went out.
LEMMA ResolvePendingStep ==
  ASSUME IInv, NEW s \in Sender, ResolvePending(s)
  PROVE  IInv'
<1> USE DEF ResolvePending
<1>1. SenderTypes /\ TableTypes
  BY TypeParts DEF IInv
<1>2. KnowsRow(s)
  BY DEF IInv, SenderInv
<1>3. CASE logStatus[row[s]] = "pending"
  <2>1. TableTypes' /\ TableInv' /\ LogStep(s) /\ ItemStep
    BY <1>2, <1>3, Finalises DEF KnowsRow
  <2>2. pc'[s] = "track" /\ job'[s] = job[s]
    BY <1>1, <1>3, GotoIs
  <2>3. KnowsRow(s)' /\ InsertFree(s)'
    BY <1>2, <2>2 DEF KnowsRow, InsertFree, Backed
  <2> QED
    BY <1>1, <1>3, <2>1, <2>3, Goes DEF Control, SenderTypes, reviewVars
<1>4. CASE logStatus[row[s]] # "pending"
  <2>1. Quiet /\ contended' = contended
    BY <1>4 DEF Quiet, seqVars, reviewVars, logVars, mailVars
  <2>2. TableInv' /\ LogStep(s) /\ ItemStep
    BY <2>1, QuietTables
  <2>3. TableTypes'
    BY <1>1, <1>4 DEF TableTypes, leadVars, seqVars, reviewVars, mailVars
  <2> QED
    BY <1>4, <2>1, <2>2, <2>3, Lets DEF Quiet
<1> QED
  BY <1>3, <1>4

\* The INSERT of the pending log row preserves the invariant: the row is the
\* newest of its lead and nothing was delivered for it yet.
LEMMA InsertLogStep ==
  ASSUME IInv, NEW s \in Sender, InsertLog(s)
  PROVE  IInv'
<1> USE MailAssumption DEF InsertLog, reviewVars, seqVars, mailVars
<1>1. SenderTypes /\ TableTypes
  BY TypeParts DEF IInv
<1>2. pc'[s] = "call" /\ job'[s] = job[s] /\ row'[s] = nextLog /\ Others(s)
  BY <1>1 DEF SenderTypes, Goto, Others
<1>3. job[s] \in Seq /\ nextLog \in Log /\ nextLog \in Nat
  BY <1>1 DEF SenderTypes
<1>4. /\ logSeq[nextLog] = None /\ logStatus[nextLog] = "absent"
      /\ nextLog \notin delivered
  BY <1>3 DEF IInv, TableInv, LogOrder
<1>5. \A r \in Log :
        /\ logSeq'[r] = IF r = nextLog THEN job[s] ELSE logSeq[r]
        /\ logStatus'[r] = IF r = nextLog THEN "pending" ELSE logStatus[r]
  BY <1>1 DEF TableTypes
<1>6. TypeOK'
  <2>1. TableTypes'
    <3>1. /\ logSeq' \in [Log -> Seq \cup {None}]
          /\ logStatus' \in [Log -> {"absent", "pending", "sent", "failed"}]
      BY <1>1, <1>3 DEF TableTypes
    <3>2. nextLog' \in 1 .. MaxLog + 1
      BY <1>3
    <3> QED
      BY <1>1, <3>1, <3>2 DEF TableTypes, leadVars
  <2>2. row' \in [Sender -> Log \cup {None}]
    BY <1>1, <1>3 DEF SenderTypes
  <2>3. SenderTypes'
    BY <1>1, <2>2, GotoTypes DEF Control
  <2> QED
    BY <2>1, <2>3 DEF TypeOK, TableTypes, SenderTypes
<1>7. LogStep(s) /\ ItemStep
  BY <1>4, <1>5 DEF LogStep, ItemStep
<1>8. TableInv'
  <2> USE DEF IInv, TableInv
  <2>1. LogOrder'
    <3>1. nextLog' = nextLog + 1
      OBVIOUS
    <3> QED
      BY <1>3, <1>4, <1>5, <3>1 DEF LogOrder
  <2>2. ItemOrder' /\ LogIsTruthful'
    BY <1>4, <1>5 DEF ItemOrder, LogIsTruthful
  <2>3. SentMeansDelivered' /\ ReviewPrecedesSend'
    <3>1. \A r \in delivered : r \in Log /\ logSeq'[r] = logSeq[r]
      BY <1>1, <1>4, <1>5 DEF TableTypes
    <3> QED
      BY <3>1 DEF SentMeansDelivered, ReviewPrecedesSend
  <2>4. OlderFailed'
    <3> SUFFICES ASSUME NEW r1 \in Log, NEW r2 \in Log, r1 < r2, r2 < nextLog',
                        logSeq'[r1] = logSeq'[r2], logSeq'[r1] \notin contended
                 PROVE  logStatus'[r1] = "failed"
      BY DEF OlderFailed
    <3>1. CASE r2 = nextLog
      BY <1>3, <1>5, <3>1 DEF SenderInv, InsertFree
    <3>2. CASE r2 # nextLog
      BY <1>3, <1>5, <3>2 DEF OlderFailed
    <3> QED
      BY <3>1, <3>2
  <2> QED
    BY <2>1, <2>2, <2>3, <2>4
<1>9. SenderInv(s)'
  <2>1. KnowsRow(s)' /\ InsertFree(s)'
    BY <1>2, <1>3, <1>4, <1>5 DEF KnowsRow, InsertFree
  <2>2. Reviewed(s)'
    BY <1>2 DEF IInv, SenderInv, Reviewed
  <2> QED
    BY <2>1, <2>2 DEF SenderInv
<1>10. StaysApart(s)
  BY <1>2, <1>3, <1>4 DEF StaysApart
<1> QED
  BY <1>2, <1>6, <1>7, <1>8, <1>9, <1>10, OneSenderMoves

\* A failed INSERT preserves the invariant: nothing is written or sent.
LEMMA InsertFailsStep ==
  ASSUME IInv, NEW s \in Sender, InsertFails(s)
  PROVE  IInv'
<1> USE MailAssumption DEF InsertFails, Fault, seqVars, reviewVars, mailVars
<1>1. Quiet /\ contended' = contended
  BY DEF Quiet
<1>2. TableInv' /\ LogStep(s) /\ ItemStep
  BY <1>1, QuietTables
<1>3. TableTypes'
  <2>1. TableTypes
    BY TypeParts DEF IInv
  <2>2. faults' \in 0 .. MaxFault
    BY <2>1 DEF TableTypes
  <2> QED
    BY <2>1, <2>2 DEF TableTypes, leadVars, logVars
<1> QED
  BY <1>1, <1>2, <1>3, Lets

\* add_lead accepted the row of the sender that calls.
LEMMA Delivers ==
  ASSUME IInv, NEW s \in Sender, pc[s] = "call",
         delivered' = delivered \cup {row[s]},
         \/ ambiguous' = ambiguous
         \/ ambiguous' = ambiguous \cup {row[s]},
         faults' \in 0 .. MaxFault,
         UNCHANGED <<leadVars, seqVars, reviewVars, logVars, alerted, contended>>
  PROVE  TableTypes' /\ TableInv' /\ LogStep(s) /\ ItemStep
<1> USE DEF seqVars, reviewVars, logVars
<1>1. TableTypes /\ SenderTypes
  BY TypeParts DEF IInv
<1>2. /\ row[s] \in Log /\ logSeq[row[s]] = job[s] /\ job[s] \in Seq
      /\ logStatus[row[s]] # "failed"
  BY <1>1 DEF IInv, SenderInv, KnowsRow, SenderTypes
<1>3. TableTypes'
  BY <1>1, <1>2 DEF TableTypes, leadVars
<1>4. LogStep(s) /\ ItemStep
  BY DEF LogStep, ItemStep
<1>5. TableInv'
  <2> USE DEF IInv, TableInv
  <2>1. LogOrder' /\ ItemOrder' /\ SentMeansDelivered' /\ OlderFailed'
    BY <1>1, <1>2 DEF LogOrder, ItemOrder, SentMeansDelivered, OlderFailed, TableTypes
  <2>2. LogIsTruthful'
    BY <1>2 DEF LogIsTruthful
  <2>3. ReviewPrecedesSend'
    <3>1. reviewMode => s \in Reviewer
      BY DEF SenderInv, Reviewed
    <3>2. reviewMode => \E i \in Item : itemSeq[i] = job[s]
      BY <3>1 DEF SenderInv, Reviewed
    <3> QED
      BY <1>2, <3>2 DEF ReviewPrecedesSend
  <2> QED
    BY <2>1, <2>2, <2>3
<1> QED
  BY <1>3, <1>4, <1>5

\* A mail the relay accepts preserves the invariant: it is counted for the
\* row the sender inserted.
LEMMA AcceptedStep ==
  ASSUME IInv, NEW s \in Sender, Accepted(s) \/ AcceptedUnseen(s)
  PROVE  IInv'
<1> USE MailAssumption DEF Accepted, AcceptedUnseen, Fault
<1>1. SenderTypes /\ TableTypes
  BY TypeParts DEF IInv
<1>2. faults' \in 0 .. MaxFault
  BY <1>1 DEF TableTypes
<1>3. TableTypes' /\ TableInv' /\ LogStep(s) /\ ItemStep
  BY <1>2, Delivers
<1>4. \/ pc'[s] = "sent"
      \/ pc'[s] = "refused" /\ row[s] \in ambiguous'
  BY <1>1, GotoIs
<1>5. job'[s] = job[s]
  BY <1>1, GotoIs
<1>6. KnowsRow(s)' /\ InsertFree(s)'
  BY <1>4, <1>5 DEF IInv, SenderInv, KnowsRow, InsertFree, logVars
<1>7. CASE Goto(s, "sent")
  BY <1>1, <1>3, <1>6, <1>7, Goes DEF Control, SenderTypes, reviewVars
<1>8. CASE Goto(s, "refused")
  BY <1>1, <1>3, <1>6, <1>8, Goes DEF Control, SenderTypes, reviewVars
<1> QED
  BY <1>7, <1>8

\* A mail the relay refuses preserves the invariant.
LEMMA RefusedStep ==
  ASSUME IInv, NEW s \in Sender, Refused(s)
  PROVE  IInv'
<1> USE MailAssumption DEF Refused, Fault, seqVars, reviewVars, mailVars
<1>1. SenderTypes /\ TableTypes
  BY TypeParts DEF IInv
<1>2. Quiet /\ contended' = contended
  BY DEF Quiet
<1>3. TableInv' /\ LogStep(s) /\ ItemStep
  BY <1>2, QuietTables
<1>4. TableTypes'
  <2>1. faults' \in 0 .. MaxFault
    BY <1>1 DEF TableTypes
  <2> QED
    BY <1>1, <2>1 DEF TableTypes, leadVars, logVars
<1>5. pc'[s] = "refused" /\ job'[s] = job[s]
  BY <1>1, GotoIs
<1>6. KnowsRow(s)' /\ InsertFree(s)'
  BY <1>5 DEF IInv, SenderInv, KnowsRow, InsertFree, logVars
<1> QED
  BY <1>1, <1>2, <1>3, <1>4, <1>6, Goes DEF Control, SenderTypes

\* An UPDATE the trigger refuses, or that is lost, changes nothing.
LEMMA FinaliseSentStep ==
  ASSUME IInv, NEW s \in Sender, FinaliseSent(s) \/ FinaliseLost(s)
  PROVE  IInv'
<1> USE MailAssumption DEF FinaliseSent, FinaliseLost, Finalise, Fault
<1>1. SenderTypes /\ TableTypes /\ KnowsRow(s)
  BY TypeParts DEF IInv, SenderInv
<1>2. TableTypes' /\ TableInv' /\ LogStep(s) /\ ItemStep
  <2>1. CASE logStatus' = logStatus
    <3>1. Quiet /\ contended' = contended
      BY <2>1 DEF Quiet, seqVars, reviewVars, logVars, mailVars
    <3>2. faults' \in 0 .. MaxFault
      BY <1>1 DEF TableTypes
    <3>3. TableTypes'
      BY <1>1, <2>1, <3>2 DEF TableTypes, leadVars, seqVars, reviewVars, logVars, mailVars
    <3> QED
      BY <3>1, <3>3, QuietTables
  <2>2. CASE logStatus' # logStatus
    BY <1>1, <2>2, Finalises DEF KnowsRow, logVars
  <2> QED
    BY <2>1, <2>2
<1>3. pc'[s] = "track" /\ job'[s] = job[s]
  BY <1>1, GotoIs
<1>4. KnowsRow(s)' /\ InsertFree(s)'
  BY <1>1, <1>3 DEF KnowsRow, InsertFree, Backed, logVars, mailVars
<1> QED
  BY <1>1, <1>2, <1>3, <1>4, Goes DEF Control, SenderTypes, reviewVars

\* Finalising a refused mail as failed preserves the invariant.
LEMMA FinaliseFailedStep ==
  ASSUME IInv, NEW s \in Sender, FinaliseFailed(s)
  PROVE  IInv'
<1> USE DEF FinaliseFailed, Finalise
<1>1. SenderTypes /\ TableTypes /\ KnowsRow(s)
  BY TypeParts DEF IInv, SenderInv
<1>2. TableTypes' /\ TableInv' /\ LogStep(s) /\ ItemStep
  <2>1. CASE logStatus' = logStatus
    <3>1. Quiet /\ contended' = contended
      BY <2>1 DEF Quiet, seqVars, reviewVars, logVars, mailVars
    <3>2. TableTypes'
      BY <1>1, <2>1 DEF TableTypes, leadVars, seqVars, reviewVars, mailVars
    <3> QED
      BY <3>1, <3>2, QuietTables
  <2>2. CASE logStatus' # logStatus
    BY <1>1, <2>2, Finalises DEF KnowsRow
  <2> QED
    BY <2>1, <2>2
<1> QED
  BY <1>2, Lets DEF reviewVars

(***************************************************************************)
(* Tracking, faults and crashes                                            *)
(***************************************************************************)

\* A backed sequence becomes "sent".
LEMMA Tracks ==
  ASSUME IInv, NEW s \in Sender, pc[s] \in {"track", "commit"},
         seqStatus' = [seqStatus EXCEPT ![job[s]] = "sent"],
         lead' = lead \/ \E c : lead' = [lead EXCEPT ![c] = "email_sent"],
         UNCHANGED <<followUps, seqClient, seqStep, nextSeq, reviewVars, logVars,
                     alerted, mailVars, contended, faults>>
  PROVE  TableTypes' /\ TableInv' /\ LogStep(s) /\ ItemStep
<1> USE DEF reviewVars, logVars, mailVars
<1>1. TableTypes /\ Backed(job[s])
  BY TypeParts DEF IInv, SenderInv, KnowsRow
<1>2. TableTypes'
  <2>1. lead' \in [Client -> LeadStatus]
    BY <1>1 DEF TableTypes, LeadStatus
  <2>2. seqStatus' \in [Seq -> {"absent", "pending", "sent"}]
    BY <1>1 DEF TableTypes
  <2> QED
    BY <1>1, <2>1, <2>2 DEF TableTypes
<1>3. TableInv'
  <2> USE DEF IInv, TableInv
  <2>1. LogOrder' /\ ItemOrder' /\ LogIsTruthful' /\ OlderFailed'
    BY DEF LogOrder, ItemOrder, LogIsTruthful, OlderFailed
  <2>2. SentMeansDelivered' /\ ReviewPrecedesSend'
    BY <1>1 DEF SentMeansDelivered, ReviewPrecedesSend, Backed, TableTypes
  <2> QED
    BY <2>1, <2>2
<1>4. LogStep(s) /\ ItemStep
  BY DEF LogStep, ItemStep
<1> QED
  BY <1>2, <1>3, <1>4

\* Moving the lead on after the mail preserves the invariant.
LEMMA TrackStep ==
  ASSUME IInv, NEW s \in Sender, Track(s)
  PROVE  IInv'
<1>1. TableTypes' /\ TableInv' /\ LogStep(s) /\ ItemStep
  BY Tracks DEF Track
<1> QED
  BY <1>1, Lets DEF Track, reviewVars

\* Reading the lead's status before the transition preserves the invariant.
LEMMA CheckTransitionStep ==
  ASSUME IInv, NEW s \in Sender, CheckTransition(s)
  PROVE  IInv'
<1> USE DEF CheckTransition, seqVars, reviewVars, mailVars
<1>1. SenderTypes /\ TableTypes
  BY TypeParts DEF IInv
<1>2. Quiet /\ contended' = contended
  BY DEF Quiet
<1>3. TableInv' /\ LogStep(s) /\ ItemStep
  BY <1>2, QuietTables
<1>4. TableTypes'
  BY <1>1 DEF TableTypes, leadVars, logVars
<1>5. CASE Release(s)
  BY <1>2, <1>3, <1>4, <1>5, Lets
<1>6. CASE Goto(s, "commit") /\ UNCHANGED row
  <2>1. KnowsRow(s)' /\ InsertFree(s)'
    BY <1>1, <1>6, GotoIs DEF IInv, SenderInv, KnowsRow, InsertFree, Backed, logVars
  <2> QED
    BY <1>1, <1>2, <1>3, <1>4, <1>6, <2>1, Goes DEF Control, SenderTypes
<1> QED
  BY <1>5, <1>6

\* The end of an approval preserves the invariant.
LEMMA CommitReviewStep ==
  ASSUME IInv, NEW s \in Sender, CommitReview(s)
  PROVE  IInv'
<1> USE DEF CommitReview
<1>1. SenderTypes /\ TableTypes
  BY TypeParts DEF IInv
<1>2. TableTypes' /\ TableInv' /\ LogStep(s) /\ ItemStep
  BY Tracks
<1>3. pc'[s] = "approve" /\ job'[s] = job[s]
  BY <1>1, GotoIs
<1>4. KnowsRow(s)' /\ InsertFree(s)'
  BY <1>3 DEF IInv, SenderInv, KnowsRow, InsertFree, Backed, logVars, mailVars
<1> QED
  BY <1>1, <1>2, <1>4, Goes DEF Control, SenderTypes, reviewVars

\* Marking the item approved preserves the invariant.
LEMMA MarkApprovedStep ==
  ASSUME IInv, NEW s \in Sender, MarkApproved(s)
  PROVE  IInv'
<1> USE DEF MarkApproved, seqVars, mailVars
<1>1. Quiet /\ contended' = contended
  BY DEF Quiet
<1>2. TableInv' /\ LogStep(s) /\ ItemStep
  BY <1>1, QuietTables
<1>3. TableTypes'
  <2>1. TableTypes
    BY TypeParts DEF IInv
  <2> QED
    BY <2>1 DEF TableTypes, leadVars, logVars
<1> QED
  BY <1>1, <1>2, <1>3, Lets

\* A statement that raises preserves the invariant: the sender gives up what
\* it holds and the tables stay as they are.
LEMMA StatementRaisesStep ==
  ASSUME IInv, NEW s \in Sender, StatementRaises(s)
  PROVE  IInv'
<1> USE MailAssumption DEF StatementRaises, Fault, seqVars, reviewVars, mailVars
<1>1. SenderTypes /\ TableTypes
  BY TypeParts DEF IInv
<1>2. Quiet /\ contended' = contended
  BY DEF Quiet
<1>3. TableInv' /\ LogStep(s) /\ ItemStep
  BY <1>2, QuietTables
<1>4. TableTypes'
  <2>1. faults' \in 0 .. MaxFault
    BY <1>1 DEF TableTypes
  <2> QED
    BY <1>1, <2>1 DEF TableTypes, leadVars, logVars
<1>5. CASE pc[s] \in Queueing
  <2>1. pc'[s] = "idle" /\ job'[s] = None /\ row' = row /\ item' = item /\ Others(s)
    BY <1>1, <1>5 DEF SenderTypes, Others
  <2>2. SenderTypes'
    <3>1. /\ pc' \in [Sender -> Control] /\ todo' \in [Sender -> SUBSET Seq]
          /\ job' \in [Sender -> Seq \cup {None}]
      BY <1>1, <1>5 DEF SenderTypes, Control
    <3> QED
      BY <1>1, <2>1, <3>1 DEF SenderTypes, Others
  <2>3. TypeOK'
    BY <1>4, <2>2 DEF TypeOK, TableTypes, SenderTypes
  <2>4. SenderInv(s)' /\ StaysApart(s)
    BY <1>2, <2>1 DEF SenderInv, KnowsRow, InsertFree, Reviewed, StaysApart
  <2> QED
    BY <1>3, <2>1, <2>3, <2>4, OneSenderMoves
<1>6. CASE pc[s] \notin Queueing
  BY <1>2, <1>3, <1>4, <1>6, Lets
<1> QED
  BY <1>5, <1>6

\* A crash preserves the invariant: the tables survive, the sender forgets.
LEMMA CrashStep ==
  ASSUME IInv, NEW process \in {TitanSender, Reviewer}, CrashOf(process)
  PROVE  IInv'
<1> USE MailAssumption DEF CrashOf, Fault, seqVars, reviewVars, mailVars
<1>1. SenderTypes /\ TableTypes
  BY TypeParts DEF IInv
<1>2. Quiet /\ contended' = contended
  BY DEF Quiet
<1>3. TypeOK'
  <2>1. faults' \in 0 .. MaxFault
    BY <1>1 DEF TableTypes
  <2>2. TableTypes'
    BY <1>1, <2>1 DEF TableTypes, leadVars, logVars
  <2>3. SenderTypes'
    BY <1>1 DEF SenderTypes, Control
  <2> QED
    BY <2>2, <2>3 DEF TypeOK, TableTypes, SenderTypes
<1>4. TableInv'
  <2>1. PICK s \in process : pc[s] # "idle"
    OBVIOUS
  <2> QED
    BY <1>2, <2>1, QuietTables
<1>5. \A s \in Sender : \/ pc'[s] = "idle"
                        \/ pc'[s] = pc[s] /\ job'[s] = job[s] /\ row'[s] = row[s]
  OBVIOUS
<1>6. ASSUME NEW s \in Sender PROVE SenderInv(s)'
  <2>1. SenderInv(s)
    BY DEF IInv
  <2> QED
    BY <1>2, <1>5, <2>1 DEF SenderInv, KnowsRow, InsertFree, Reviewed, Backed, Quiet,
                            logVars
<1>7. ASSUME NEW s \in Sender, NEW t \in Sender \ {s} PROVE Apart(s, t)'
  BY <1>2, <1>5 DEF IInv, Apart
<1> QED
  BY <1>3, <1>4, <1>6, <1>7 DEF IInv

(***************************************************************************)
(* The invariant holds initially and is preserved by every step            *)
(***************************************************************************)
\* The invariant holds in the initial states.
LEMMA InitIInv == Init => IInv
<1> SUFFICES ASSUME Init PROVE IInv
  OBVIOUS
<1> USE MailAssumption DEF Init
<1>1. TypeOK
  <2>1. SenderTypes
    BY DEF SenderTypes, Control
  <2>2. TableTypes
    BY DEF TableTypes, LeadStatus
  <2> QED
    BY <2>1, <2>2, TypeParts
<1>2. TableInv
  <2>1. LogOrder /\ ItemOrder
    BY DEF LogOrder, ItemOrder
  <2>2. LogIsTruthful /\ ReviewPrecedesSend /\ OlderFailed
    BY DEF LogIsTruthful, ReviewPrecedesSend, OlderFailed
  <2>3. SentMeansDelivered
    BY DEF SentMeansDelivered
  <2> QED
    BY <2>1, <2>2, <2>3 DEF TableInv
<1>3. \A s \in Sender : SenderInv(s)
  BY DEF SenderInv, KnowsRow, InsertFree, Reviewed
<1>4. \A s \in Sender : \A t \in Sender \ {s} : Apart(s, t)
  BY DEF Apart
<1> QED
  BY <1>1, <1>2, <1>3, <1>4 DEF IInv

\* Every step preserves the invariant: one lemma per action, put together.
LEMMA NextIInv == IInv /\ [Next]_vars => IInv'
<1> SUFFICES ASSUME IInv, [Next]_vars PROVE IInv'
  OBVIOUS
<1>1. ASSUME NEW s \in Sender, SenderStep(s) PROVE IInv'
  <2>1. CASE SendEmails(s) \/ EndList(s)
    BY <2>1, SendEmailsStep, EndListStep
  <2>2. CASE \E q \in Seq : QueueItem(s, q) \/ TakeLead(s, q)
    BY <2>2, QueueItemStep, TakeLeadStep
  <2>3. CASE CheckQueued(s) \/ WriteQueued(s)
    BY <2>3, CheckQueuedStep, WriteQueuedStep
  <2>4. CASE \E i \in Item : ApproveReview(s, i) \/ RejectReview(s, i)
    BY <2>4, ApproveReviewStep, RejectReviewStep
  <2>5. CASE GateStep(s)
    BY <2>5, GateIStep, NotYetSentStep, AlreadySentStep, FindsPendingStep,
       WarnOperatorStep, ResolvePendingStep, InsertLogStep, InsertFailsStep,
       AcceptedStep, RefusedStep, FinaliseSentStep, FinaliseFailedStep
    DEF GateStep
  <2>6. CASE Track(s) \/ CheckTransition(s) \/ CommitReview(s) \/ MarkApproved(s)
    BY <2>6, TrackStep, CheckTransitionStep, CommitReviewStep, MarkApprovedStep
  <2>7. CASE StatementRaises(s)
    BY <2>7, StatementRaisesStep
  <2> QED
    BY <1>1, <2>1, <2>2, <2>3, <2>4, <2>5, <2>6, <2>7 DEF SenderStep
<1>2. CASE CrashOf(TitanSender) \/ CrashOf(Reviewer)
  BY <1>2, CrashStep
<1>3. CASE PipelineStep
  BY <1>3, FollowUpStep, InboundStep, LeaveReviewModeStep DEF PipelineStep
<1>4. CASE UNCHANGED vars
  <2>1. TypeOK' /\ SentMeansDelivered'
    BY <1>4 DEF IInv, TypeOK, TableInv, SentMeansDelivered, vars, leadVars, seqVars,
                reviewVars, logVars, senderVars, mailVars
  <2> QED
    BY <1>4, <2>1, SendersRest DEF vars, reviewVars
<1> QED
  BY <1>1, <1>2, <1>3, <1>4 DEF Next

\* The strengthened invariant, from which the theorems below follow.
THEOREM Invariance == Spec => []IInv
<1>1. Init => IInv
  BY InitIInv
<1>2. IInv /\ [Next]_vars => IInv'
  BY NextIInv
<1> QED
  BY <1>1, <1>2, PTL DEF Spec

(***************************************************************************)
(* The properties                                                          *)
(***************************************************************************)

\* Typing holds for any number of leads, sequences, items, rows and senders.
THEOREM TypeCorrect == Spec => []TypeOK
<1>1. IInv => TypeOK
  BY DEF IInv
<1> QED
  BY <1>1, Invariance, PTL

\* The outbound log never contradicts what Instantly did, except where an
\* answer was lost or a guess was announced.
THEOREM AuditIsTruthful == Spec => []LogIsTruthful
<1>1. IInv => LogIsTruthful
  BY DEF IInv, TableInv
<1> QED
  BY <1>1, Invariance, PTL

\* No sequence counts as sent without delivery or alert.
THEOREM NothingLost == Spec => []SentMeansDelivered
<1>1. IInv => SentMeansDelivered
  BY DEF IInv, TableInv
<1> QED
  BY <1>1, Invariance, PTL

\* The dedupe step suffices against crashes, retries, re-approvals and lost
\* finalisations: rows of one uncontended sequence other than the latest have
\* failed, and a failed row was delivered only behind an error.
THEOREM DedupeSuffices == Spec => []NoRepeatUnlessContended
<1>1. IInv => NoRepeatUnlessContended
  <2> SUFFICES ASSUME IInv, NEW r1 \in delivered \ ambiguous,
                      NEW r2 \in delivered \ ambiguous,
                      logSeq[r1] = logSeq[r2], logSeq[r1] \notin contended
               PROVE  r1 = r2
    BY DEF NoRepeatUnlessContended
  <2>1. r1 \in Log /\ r2 \in Log
    BY DEF IInv, TypeOK
  <2>2. r1 < nextLog /\ r2 < nextLog
    BY <2>1 DEF IInv, TypeOK, TableInv, LogOrder
  <2>3. logStatus[r1] # "failed" /\ logStatus[r2] # "failed"
    BY <2>1 DEF IInv, TableInv, LogIsTruthful
  <2>4. ~(r1 < r2) /\ ~(r2 < r1)
    BY <2>1, <2>2, <2>3 DEF IInv, TableInv, OlderFailed
  <2> QED
    BY <2>1, <2>4
<1> QED
  BY <1>1, Invariance, PTL

\* As long as review mode is on, every delivery had been put to the operator.
THEOREM OperatorSeesFirst == Spec => []ReviewPrecedesSend
<1>1. IInv => ReviewPrecedesSend
  BY DEF IInv, TableInv
<1> QED
  BY <1>1, Invariance, PTL

(***************************************************************************)
(* The audit log                                                           *)
(***************************************************************************)

\* Only a stored sequence is ever in a list, in hand or with the operator.
SeqOrder ==
  /\ \A q \in Seq : q >= nextSeq <=> seqStatus[q] = "absent"
  /\ \A s \in Sender : job[s] < nextSeq /\ \A q \in todo[s] : q < nextSeq
  /\ \A i \in Item : itemSeq[i] < nextSeq

\* What a step does to sequences: a new one is pending, an old one may be
\* marked as sent.
LEMMA SeqWritten ==
  ASSUME [Next]_vars
  PROVE  \/ /\ \E c \in Client : FollowUp(c)
            /\ nextSeq \in Seq /\ nextSeq' = nextSeq + 1
            /\ seqStatus' = [seqStatus EXCEPT ![nextSeq] = "pending"]
         \/ /\ nextSeq' = nextSeq
            /\ \/ seqStatus' = seqStatus
               \/ \E s \in Sender : /\ pc[s] \in {"track", "commit"}
                                    /\ seqStatus' = [seqStatus EXCEPT ![job[s]] = "sent"]
<1>1. ASSUME NEW s \in Sender, SenderStep(s)
      PROVE  /\ nextSeq' = nextSeq
             /\ \/ seqStatus' = seqStatus
                \/ /\ pc[s] \in {"track", "commit"}
                   /\ seqStatus' = [seqStatus EXCEPT ![job[s]] = "sent"]
  <2>1. CASE SendEmails(s) \/ EndList(s)
    BY <2>1 DEF SendEmails, EndList, seqVars
  <2>2. CASE \E q \in Seq : QueueItem(s, q) \/ TakeLead(s, q)
    BY <2>2 DEF QueueItem, TakeLead, seqVars
  <2>3. CASE CheckQueued(s) \/ WriteQueued(s)
    BY <2>3 DEF CheckQueued, WriteQueued, seqVars
  <2>4. CASE \E i \in Item : ApproveReview(s, i) \/ RejectReview(s, i)
    BY <2>4 DEF ApproveReview, RejectReview, seqVars
  <2>5. CASE GateStep(s)
    BY <2>5 DEF GateStep, Gate, NotYetSent, AlreadySent, FindsPending, WarnOperator,
       ResolvePending, InsertLog, InsertFails, Accepted, AcceptedUnseen, Refused,
       FinaliseSent, FinaliseLost, FinaliseFailed, seqVars
  <2>6. CASE Track(s) \/ CommitReview(s)
    BY <2>6 DEF Track, CommitReview
  <2>7. CASE CheckTransition(s) \/ MarkApproved(s) \/ StatementRaises(s)
    BY <2>7 DEF CheckTransition, MarkApproved, StatementRaises, seqVars
  <2> QED
    BY <1>1, <2>1, <2>2, <2>3, <2>4, <2>5, <2>6, <2>7 DEF SenderStep
<1>2. CASE CrashOf(TitanSender) \/ CrashOf(Reviewer)
  BY <1>2 DEF CrashOf, seqVars
<1>3. ASSUME NEW c \in Client, FollowUp(c)
      PROVE  /\ nextSeq \in Seq /\ nextSeq' = nextSeq + 1
             /\ seqStatus' = [seqStatus EXCEPT ![nextSeq] = "pending"]
  BY <1>3 DEF FollowUp
<1>4. CASE LeaveReviewMode \/ \E c \in Client : HardBounce(c) \/ Reply(c)
  BY <1>4 DEF LeaveReviewMode, HardBounce, Reply, seqVars
<1>5. CASE UNCHANGED vars
  BY <1>5 DEF vars, seqVars
<1> QED
  BY <1>1, <1>2, <1>3, <1>4, <1>5 DEF Next, PipelineStep

\* What is in a list or in hand, or with the operator, is stored: it comes out
\* of the tables, and it stays there.
LEMMA HeldWritten ==
  ASSUME TypeOK, SeqOrder, [Next]_vars
  PROVE  /\ \A s \in Sender : job'[s] < nextSeq /\ \A q \in todo'[s] : q < nextSeq
         /\ \A i \in Item : itemSeq'[i] < nextSeq
<1> USE MailAssumption DEF TypeOK, SeqOrder, Due
<1> DEFINE Held == \A s \in Sender : job'[s] < nextSeq /\ \A q \in todo'[s] : q < nextSeq
           Reviewing == \A i \in Item : itemSeq'[i] < nextSeq
<1>1. ASSUME NEW s \in Sender, SenderStep(s) PROVE Held /\ Reviewing
  <2>1. CASE SendEmails(s)
    BY <2>1 DEF SendEmails, reviewVars
  <2>2. CASE EndList(s)
    BY <2>2 DEF EndList, reviewVars
  <2>3. ASSUME NEW q \in Seq, QueueItem(s, q) PROVE Held /\ Reviewing
    <3>1. q < nextSeq
      BY <2>3 DEF QueueItem
    <3> QED
      BY <2>3, <3>1 DEF QueueItem
  <2>4. ASSUME NEW q \in Seq, TakeLead(s, q) PROVE Held /\ Reviewing
    <3>1. q < nextSeq
      BY <2>4 DEF TakeLead
    <3>2. job' = job \/ job' = [job EXCEPT ![s] = q]
      BY <2>4 DEF TakeLead, Hold
    <3> QED
      BY <2>4, <3>1, <3>2 DEF TakeLead, reviewVars
  <2>5. CASE CheckQueued(s) \/ WriteQueued(s)
    <3>1. job' = job \/ job' = [job EXCEPT ![s] = None]
      BY <2>5 DEF CheckQueued, WriteQueued
    <3>2. todo' = todo /\ itemSeq' = itemSeq
      BY <2>5 DEF CheckQueued, WriteQueued, reviewVars
    <3> QED
      BY <3>1, <3>2
  <2>6. ASSUME NEW i \in Item, ApproveReview(s, i) PROVE Held /\ Reviewing
    <3>1. /\ job' = [job EXCEPT ![s] = itemSeq[i]]
          /\ todo' = todo /\ itemSeq' = itemSeq
      BY <2>6 DEF ApproveReview, Hold, reviewVars
    <3> QED
      BY <3>1
  <2>7. ASSUME NEW i \in Item, RejectReview(s, i) PROVE Held /\ Reviewing
    BY <2>7 DEF RejectReview, senderVars
  <2>8. CASE GateStep(s) \/ Track(s) \/ CheckTransition(s) \/ CommitReview(s) \/ MarkApproved(s)
    <3>1. job' = job \/ job' = [job EXCEPT ![s] = None]
      BY <2>8 DEF GateStep, Gate, NotYetSent, AlreadySent, FindsPending, WarnOperator,
         ResolvePending, InsertLog, InsertFails, Accepted, AcceptedUnseen, Refused,
         FinaliseSent, FinaliseLost, FinaliseFailed, Track, CheckTransition, CommitReview,
         MarkApproved, Goto, Release
    <3>2. todo' = todo /\ itemSeq' = itemSeq
      BY <2>8 DEF GateStep, Gate, NotYetSent, AlreadySent, FindsPending, WarnOperator,
         ResolvePending, InsertLog, InsertFails, Accepted, AcceptedUnseen, Refused,
         FinaliseSent, FinaliseLost, FinaliseFailed, Track, CheckTransition, CommitReview,
         MarkApproved, Goto, Release, reviewVars
    <3> QED
      BY <3>1, <3>2
  <2>9. CASE StatementRaises(s)
    <3>1. /\ job' = [job EXCEPT ![s] = None] /\ itemSeq' = itemSeq
          /\ todo' = todo \/ todo' = [todo EXCEPT ![s] = {}]
      BY <2>9 DEF StatementRaises, Release, reviewVars
    <3> QED
      BY <3>1
  <2> QED
    BY <1>1, <2>1, <2>2, <2>3, <2>4, <2>5, <2>6, <2>7, <2>8, <2>9 DEF SenderStep
<1>2. CASE CrashOf(TitanSender) \/ CrashOf(Reviewer)
  <2>1. ASSUME NEW process, CrashOf(process) PROVE Held /\ Reviewing
    BY <2>1 DEF CrashOf, reviewVars
  <2> QED
    BY <1>2, <2>1
<1>3. CASE PipelineStep \/ UNCHANGED vars
  <2>1. job' = job /\ todo' = todo /\ itemSeq' = itemSeq
    BY <1>3 DEF PipelineStep, FollowUp, HardBounce, Reply, LeaveReviewMode, vars,
       senderVars, reviewVars
  <2> QED
    BY <2>1
<1> QED
  BY <1>1, <1>2, <1>3 DEF Next

\* The order of the sequences is an invariant.
LEMMA SeqOrderStep == TypeOK /\ TypeOK' /\ SeqOrder /\ [Next]_vars => SeqOrder'
<1> SUFFICES ASSUME TypeOK, TypeOK', SeqOrder, [Next]_vars PROVE SeqOrder'
  OBVIOUS
<1>1. nextSeq \in Nat /\ nextSeq' \in {nextSeq, nextSeq + 1}
  BY SeqWritten, MailAssumption DEF TypeOK
<1>2. /\ \A s \in Sender : job'[s] < nextSeq /\ \A q \in todo'[s] : q < nextSeq
      /\ \A i \in Item : itemSeq'[i] < nextSeq
  BY HeldWritten
<1>3. /\ \A s \in Sender : job'[s] \in Nat /\ \A q \in todo'[s] : q \in Nat
      /\ \A i \in Item : itemSeq'[i] \in Nat
  <2>1. /\ job' \in [Sender -> Seq \cup {None}] /\ todo' \in [Sender -> SUBSET Seq]
        /\ itemSeq' \in [Item -> Seq \cup {None}]
    BY DEF TypeOK
  <2>2. \A q \in Seq \cup {None} : q \in Nat
    BY MailAssumption
  <2>3. ASSUME NEW s \in Sender PROVE job'[s] \in Nat /\ \A q \in todo'[s] : q \in Nat
    BY <2>1, <2>2
  <2>4. ASSUME NEW i \in Item PROVE itemSeq'[i] \in Nat
    BY <2>1, <2>2
  <2> QED
    BY <2>3, <2>4
<1>4. ASSUME NEW q \in Seq PROVE q >= nextSeq' <=> seqStatus'[q] = "absent"
  <2>1. q \in Nat /\ seqStatus \in [Seq -> {"absent", "pending", "sent"}]
    BY MailAssumption DEF TypeOK
  <2>2. q >= nextSeq <=> seqStatus[q] = "absent"
    BY DEF SeqOrder
  <2>3. CASE nextSeq' = nextSeq + 1 /\ seqStatus' = [seqStatus EXCEPT ![nextSeq] = "pending"]
    BY <1>1, <2>1, <2>2, <2>3
  <2>4. CASE nextSeq' = nextSeq /\ seqStatus' = seqStatus
    BY <2>2, <2>4
  <2>5. ASSUME NEW s \in Sender, nextSeq' = nextSeq, pc[s] \in {"track", "commit"},
               seqStatus' = [seqStatus EXCEPT ![job[s]] = "sent"]
        PROVE  q >= nextSeq' <=> seqStatus'[q] = "absent"
    <3>1. job[s] < nextSeq /\ job[s] \in Nat
      BY MailAssumption DEF SeqOrder, TypeOK
    <3> QED
      BY <1>1, <2>1, <2>2, <2>5, <3>1
  <2> QED
    BY <2>3, <2>4, <2>5, SeqWritten
<1> QED
  BY <1>1, <1>2, <1>3, <1>4 DEF SeqOrder

(***************************************************************************)
(* ... and its steps                                                       *)
(***************************************************************************)

\* Every step is a step of the audit log, or none.
LEMMA AuditStep == IInv /\ SeqOrder /\ [Next]_vars => [Audit!Next]_(Audit!auditVars)
<1> SUFFICES ASSUME IInv, SeqOrder, [Next]_vars
             PROVE  Audit!Next \/ UNCHANGED Audit!auditVars
  OBVIOUS
<1> DEFINE AuditTables == <<logSeq, logStatus, delivered, ambiguous, alerted, seqStatus>>
<1>1. TypeOK /\ MaxLog \in Nat /\ MaxSeq \in Nat
  BY MailAssumption DEF IInv
<1>2. ASSUME UNCHANGED AuditTables PROVE UNCHANGED Audit!auditVars
  BY <1>2 DEF Audit!auditVars
<1>3. ASSUME NEW s \in Sender, GateStep(s) PROVE Audit!Next \/ UNCHANGED Audit!auditVars
  <2>1. KnowsRow(s) /\ LogIsTruthful /\ LogOrder
    BY DEF IInv, SenderInv, TableInv
  <2>2. pc[s] \in OnARow => row[s] \in Log /\ logSeq[row[s]] = job[s]
    BY <1>1, <2>1 DEF KnowsRow, TypeOK
  <2>3. pc[s] \notin Resting => job[s] \in Seq
    BY <1>1 DEF TypeOK
  <2>4. CASE Gate(s) \/ NotYetSent(s) \/ AlreadySent(s) \/ FindsPending(s)
             \/ InsertFails(s) \/ Refused(s) \/ FinaliseLost(s)
    BY <1>2, <2>4 DEF Gate, NotYetSent, AlreadySent, FindsPending, InsertFails, Refused,
       FinaliseLost, seqVars, logVars, mailVars
  <2>5. CASE WarnOperator(s)
    <3>1. Audit!Warn(job[s])
      BY <2>5 DEF WarnOperator, Audit!Warn, seqVars, logVars, mailVars
    <3>2. job[s] \in Seq
      BY <2>3, <2>5 DEF WarnOperator
    <3> QED
      BY <3>1, <3>2 DEF Audit!Next
  <2>6. CASE ResolvePending(s)
    <3>1. CASE logStatus[row[s]] = "pending"
      <4>1. row[s] \in Log /\ logSeq[row[s]] \in alerted
        BY <2>1, <2>2, <2>6 DEF ResolvePending, KnowsRow
      <4>2. Audit!SettleSent(row[s])
        BY <2>6, <3>1, <4>1 DEF ResolvePending, Audit!SettleSent, seqVars, mailVars
      <4> QED
        BY <4>1, <4>2 DEF Audit!Next
    <3>2. CASE logStatus[row[s]] # "pending"
      BY <1>2, <2>6, <3>2 DEF ResolvePending, seqVars, mailVars
    <3> QED
      BY <3>1, <3>2
  <2>7. CASE InsertLog(s)
    <3>1. /\ nextLog \in Log /\ job[s] \in Seq /\ UNCHANGED <<delivered, ambiguous, alerted, seqStatus>>
          /\ logSeq' = [logSeq EXCEPT ![nextLog] = job[s]]
          /\ logStatus' = [logStatus EXCEPT ![nextLog] = "pending"]
      BY <2>3, <2>7 DEF InsertLog, seqVars, mailVars
    <3>2. logStatus[nextLog] = "absent"
      BY <1>1, <2>1, <3>1 DEF LogOrder
    <3>3. Audit!Record(nextLog, job[s])
      BY <3>1, <3>2 DEF Audit!Record
    <3> QED
      BY <3>1, <3>3 DEF Audit!Next
  <2>8. CASE Accepted(s) \/ AcceptedUnseen(s)
    <3>1. /\ pc[s] = "call" /\ delivered' = delivered \cup {row[s]}
          /\ ambiguous' \in {ambiguous, ambiguous \cup {row[s]}}
          /\ UNCHANGED <<logSeq, logStatus, alerted, seqStatus>>
      BY <2>8 DEF Accepted, AcceptedUnseen, seqVars, logVars
    <3>2. row[s] \in Log /\ row[s] \notin delivered /\ logStatus[row[s]] # "failed"
      BY <2>1, <2>2, <3>1 DEF KnowsRow
    <3>3. logStatus[row[s]] \in {"pending", "sent"}
      <4>1. row[s] < nextLog
        <5>1. logSeq[row[s]] # None
          BY <2>2, <2>3, <3>1
        <5> QED
          BY <2>1, <3>2, <5>1 DEF LogOrder
      <4>2. logStatus[row[s]] # "absent"
        BY <1>1, <2>1, <3>2, <4>1 DEF LogOrder, TypeOK
      <4> QED
        BY <1>1, <3>2, <4>2 DEF TypeOK
    <3>4. logStatus[row[s]] = "sent" => logSeq[row[s]] \in alerted
      BY <2>1, <3>2 DEF LogIsTruthful
    <3>5. Audit!Accept(row[s])
      BY <3>1, <3>2, <3>3, <3>4 DEF Audit!Accept
    <3> QED
      BY <3>2, <3>5 DEF Audit!Next
  <2>9. CASE FinaliseSent(s)
    <3>1. CASE logStatus[row[s]] = "pending"
      <4>1. row[s] \in Log /\ row[s] \in delivered
        BY <2>1, <2>2, <2>9 DEF FinaliseSent, KnowsRow
      <4>2. Audit!SettleSent(row[s])
        BY <2>9, <3>1, <4>1 DEF FinaliseSent, Finalise, Audit!SettleSent, seqVars, mailVars
      <4> QED
        BY <4>1, <4>2 DEF Audit!Next
    <3>2. CASE logStatus[row[s]] # "pending"
      BY <1>2, <2>9, <3>2 DEF FinaliseSent, Finalise, seqVars, mailVars
    <3> QED
      BY <3>1, <3>2
  <2>10. CASE FinaliseFailed(s)
    <3>1. CASE logStatus[row[s]] = "pending"
      <4>1. row[s] \in Log /\ (row[s] \in delivered => row[s] \in ambiguous)
        BY <2>1, <2>2, <2>10 DEF FinaliseFailed, KnowsRow
      <4>2. Audit!SettleFailed(row[s])
        BY <2>10, <3>1, <4>1 DEF FinaliseFailed, Finalise, Audit!SettleFailed, seqVars, mailVars
      <4> QED
        BY <4>1, <4>2 DEF Audit!Next
    <3>2. CASE logStatus[row[s]] # "pending"
      BY <1>2, <2>10, <3>2 DEF FinaliseFailed, Finalise, seqVars, mailVars
    <3> QED
      BY <3>1, <3>2
  <2> QED
    BY <1>3, <2>4, <2>5, <2>6, <2>7, <2>8, <2>9, <2>10 DEF GateStep
<1>4. ASSUME NEW s \in Sender, Track(s) \/ CommitReview(s)
      PROVE  Audit!Next
  <2>1. /\ pc[s] \in {"track", "commit"}
        /\ seqStatus' = [seqStatus EXCEPT ![job[s]] = "sent"]
        /\ UNCHANGED <<logSeq, logStatus, delivered, ambiguous, alerted>>
    BY <1>4 DEF Track, CommitReview, logVars, mailVars
  <2>2. job[s] \in Seq
    BY <1>1, <2>1 DEF TypeOK
  <2>3. {q \in Seq : seqStatus'[q] = "sent"} = {q \in Seq : seqStatus[q] = "sent"} \cup {job[s]}
    <3>1. \A q \in Seq : seqStatus'[q] = "sent" <=> seqStatus[q] = "sent" \/ q = job[s]
      BY <1>1, <2>1, <2>2 DEF TypeOK
    <3> QED
      BY <2>2, <3>1
  <2>4. Backed(job[s])
    BY <2>1 DEF IInv, SenderInv, KnowsRow
  <2>5. \E m \in Seq : Audit!Finish(m)
    BY <2>1, <2>2, <2>3, <2>4 DEF Audit!Finish, Backed
  <2> QED
    BY <2>5 DEF Audit!Next
<1>5. ASSUME NEW s \in Sender, SenderStep(s), ~GateStep(s), ~Track(s), ~CommitReview(s)
      PROVE  UNCHANGED AuditTables
  BY <1>5 DEF SenderStep, SendEmails, EndList, QueueItem, TakeLead, CheckQueued, WriteQueued,
     ApproveReview, RejectReview, CheckTransition, MarkApproved, StatementRaises,
     seqVars, logVars, mailVars
<1>6. CASE CrashOf(TitanSender) \/ CrashOf(Reviewer)
  BY <1>2, <1>6 DEF CrashOf, seqVars, logVars, mailVars
<1>7. ASSUME NEW c \in Client, FollowUp(c) PROVE UNCHANGED Audit!auditVars
  <2>1. /\ nextSeq \in Seq /\ seqStatus' = [seqStatus EXCEPT ![nextSeq] = "pending"]
        /\ UNCHANGED <<logSeq, logStatus, delivered, ambiguous, alerted>>
    BY <1>7 DEF FollowUp, logVars, mailVars
  <2>2. seqStatus[nextSeq] = "absent"
    BY <1>1, <2>1 DEF SeqOrder
  <2>3. {q \in Seq : seqStatus'[q] = "sent"} = {q \in Seq : seqStatus[q] = "sent"}
    BY <1>1, <2>1, <2>2 DEF TypeOK
  <2> QED
    BY <2>1, <2>3 DEF Audit!auditVars
<1>8. CASE LeaveReviewMode \/ \E c \in Client : HardBounce(c) \/ Reply(c)
  BY <1>2, <1>8 DEF LeaveReviewMode, HardBounce, Reply, seqVars, logVars, mailVars
<1>9. CASE UNCHANGED vars
  BY <1>2, <1>9 DEF vars, seqVars, logVars, mailVars
<1> QED
  BY <1>2, <1>3, <1>4, <1>5, <1>6, <1>7, <1>8, <1>9 DEF Next, PipelineStep

\* The gate implements the audit log, for any number of leads, senders, rows
\* and faults: a hand-over is recorded before it happens and happens once per
\* row, and what is settled was settled on good grounds and stays.
THEOREM Refinement == Spec => ImplementsAuditLog
<1>1. Init => SeqOrder /\ Audit!Init
  <2>1. Init => SeqOrder
    BY MailAssumption DEF Init, SeqOrder
  <2>2. Init => Audit!Init
    BY DEF Init, Audit!Init
  <2> QED
    BY <2>1, <2>2
<1>2. IInv /\ IInv' /\ SeqOrder /\ [Next]_vars => SeqOrder'
  BY SeqOrderStep DEF IInv
<1>3. IInv /\ SeqOrder /\ [Next]_vars => [Audit!Next]_(Audit!auditVars)
  BY AuditStep
<1> QED
  BY <1>1, <1>2, <1>3, Invariance, PTL DEF Spec, ImplementsAuditLog, Audit!Spec

=============================================================================
