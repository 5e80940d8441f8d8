------------------------------ MODULE AuditLog ------------------------------
(***************************************************************************)
(* What the outbound log promises, whoever sends, retries or dies: a row   *)
(* is there before its mail is handed over and is handed over at most      *)
(* once, what is settled is never changed, no row is settled as failed     *)
(* that was answered with a yes, and none as sent on a guess that nobody   *)
(* was warned of; a mail counts as done only on such grounds.              *)
(***************************************************************************)
CONSTANTS Mail, Row, NoMail

VARIABLES
  about,     \* the mail of a row
  outcome,   \* "absent", then "pending", then "sent" or "failed"
  accepted,  \* rows whose mail the provider took
  unseen,    \* those of them whose answer was lost
  warned,    \* mails an alert was raised for
  done       \* mails that count as sent

auditVars == <<about, outcome, accepted, unseen, warned, done>>

Init ==
  /\ about = [r \in Row |-> NoMail]
  /\ outcome = [r \in Row |-> "absent"]
  /\ accepted = {} /\ unseen = {} /\ warned = {} /\ done = {}

Record(r, m) ==
  /\ outcome[r] = "absent"
  /\ about' = [about EXCEPT ![r] = m]
  /\ outcome' = [outcome EXCEPT ![r] = "pending"]
  /\ UNCHANGED <<accepted, unseen, warned, done>>

\* A row settled as sent can still be handed over: its writer was slow, and
\* somebody else guessed.
Accept(r) ==
  /\ \/ outcome[r] = "pending"
     \/ outcome[r] = "sent" /\ about[r] \in warned
  /\ r \notin accepted
  /\ accepted' = accepted \cup {r}
  /\ unseen' \in {unseen, unseen \cup {r}}
  /\ UNCHANGED <<about, outcome, warned, done>>

Warn(m) ==
  /\ warned' = warned \cup {m}
  /\ UNCHANGED <<about, outcome, accepted, unseen, done>>

SettleSent(r) ==
  /\ outcome[r] = "pending"
  /\ r \in accepted \/ about[r] \in warned
  /\ outcome' = [outcome EXCEPT ![r] = "sent"]
  /\ UNCHANGED <<about, accepted, unseen, warned, done>>

SettleFailed(r) ==
  /\ outcome[r] = "pending"
  /\ r \in accepted => r \in unseen
  /\ outcome' = [outcome EXCEPT ![r] = "failed"]
  /\ UNCHANGED <<about, accepted, unseen, warned, done>>

Finish(m) ==
  /\ m \in warned \/ \E r \in accepted : about[r] = m
  /\ done' = done \cup {m}
  /\ UNCHANGED <<about, outcome, accepted, unseen, warned>>

Next ==
  \/ \E r \in Row : \/ Accept(r) \/ SettleSent(r) \/ SettleFailed(r)
                    \/ \E m \in Mail : Record(r, m)
  \/ \E m \in Mail : Warn(m) \/ Finish(m)

Spec == Init /\ [][Next]_auditVars

=============================================================================
