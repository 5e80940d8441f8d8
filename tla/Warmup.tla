------------------------------- MODULE Warmup -------------------------------
(***************************************************************************)
(* The daily ceiling of e-mails and the warm-up that should raise it.      *)
(*                                                                         *)
(* Invocations of monitor_deliverability write the ceiling, those of       *)
(* send_emails take from it what today's metrics leave, and the metrics    *)
(* are a copy of Instantly's analytics that is fetched from time to time.  *)
(* Every get_config, set_config and SELECT is a transaction of its own.    *)
(* Nothing in the repository writes bounces or spam_complaints, so         *)
(* _check_domain_health finds every domain healthy and changes nothing.    *)
(***************************************************************************)
EXTENDS Integers, Sequences

CONSTANTS
  Sender,         \* invocations of send_emails
  Monitor,        \* invocations of monitor_deliverability
  Ramp,           \* WARMUP_RAMP, a sequence over the warm-up days
  DefaultTarget,  \* email_daily_target as init-db.sql seeds it
  MinTarget, MaxTarget,          \* the literals 20 and 2000 of _adjust_daily_ceiling
  AdvancePercent,                \* WARMUP_ADVANCE_THRESHOLD
  RaisePercent, ReducePercent,   \* the factors 1.2 and 0.7
  BatchSize,      \* the batch_size of send_emails
  MaxSent,        \* bound: e-mails handed to Instantly
  MaxDate         \* bound: midnights

VARIABLES
  target, warmUp, day,  \* system_config: email_daily_target, warm_up_phase, warmup_day
  reported,   \* emails_sent of today's outreach_metrics
  contacted,  \* e-mails handed to Instantly today
  total,      \* e-mails handed to Instantly so far
  counts,     \* what Instantly's "sent" counts: it never changes
  sync,       \* sync_campaign_analytics
  sender, monitor,
  dates,
  \* history
  ceiling,    \* the highest ceiling a budget of today was taken from
  blind,      \* a budget was taken that did not see all of today's e-mails
  early       \* a budget was taken before the first check of the warm-up

configVars  == <<target, warmUp, day>>
mailVars    == <<contacted, total>>
historyVars == <<ceiling, blind, early>>
vars == <<configVars, reported, mailVars, counts, sync, sender, monitor, dates, historyVars>>

Days == 1 .. Len(Ramp)   \* WARMUP_GRADUATED_DAY is the last of them

\* minimum_to_advance: most of the day's ramp target, and at least one.
MinimumAny(d) == 1  \* a wrong version: any e-mail will do

Minimum(d) == LET most == (Ramp[d] * AdvancePercent) \div 100
              IN  IF most > 1 THEN most ELSE 1

\* No ceiling is 0, which the readers of email_daily_target would take for unset.
ASSUME WarmupAssumption ==
  /\ Ramp \in Seq(Nat \ {0}) /\ Len(Ramp) > 1
  /\ \A d \in Days : Ramp[1] <= Ramp[d]
  /\ DefaultTarget \in Nat /\ Ramp[1] <= DefaultTarget /\ DefaultTarget <= MaxTarget
  /\ MinTarget \in Nat \ {0} /\ MaxTarget \in Nat /\ MinTarget <= MaxTarget
  /\ AdvancePercent \in Nat /\ RaisePercent \in Nat /\ ReducePercent \in Nat
  /\ BatchSize \in Nat /\ MaxSent \in Nat /\ MaxDate \in Nat

\* From the second day on most of the ramp is more than the first day allows:
\* 12 of 15 against 10, and more later.
ASSUME RampAssumption ==
  \A d \in Days \ {1} : (Ramp[d] * AdvancePercent) \div 100 > Ramp[1]

IdleSender  == [at |-> "idle", target |-> 0, left |-> 0]
IdleMonitor == [at |-> "idle", day |-> 1, target |-> 0]
NoSync      == [at |-> "idle", sent |-> 0]

Init ==
  /\ target = DefaultTarget /\ warmUp = TRUE /\ day = 1
  /\ reported = 0 /\ contacted = 0 /\ total = 0
  /\ counts \in {"today", "total"}
  /\ sync = NoSync
  /\ sender = [s \in Sender |-> IdleSender]
  /\ monitor = [m \in Monitor |-> IdleMonitor]
  /\ dates = 0
  /\ ceiling = 0 /\ blind = FALSE /\ early = FALSE

-----------------------------------------------------------------------------
(***************************************************************************)
(* _enforce_warmup_volume                                                  *)
(***************************************************************************)
Goes(m, at) == monitor' = [monitor EXCEPT ![m].at = at]

\* The function returns; what it has read is gone.
Returns(m) == monitor' = [monitor EXCEPT ![m] = [IdleMonitor EXCEPT !.at = "adjust"]]

\* A statement of monitor_deliverability other than its UPDATEs.
Reads(m, from) ==
  /\ monitor[m].at = from
  /\ UNCHANGED <<configVars, reported, mailVars, counts, sync, sender, dates, historyVars>>

\* One of its set_config.
Writes(m, from) ==
  /\ monitor[m].at = from
  /\ UNCHANGED <<reported, mailVars, counts, sync, sender, dates, historyVars>>

AskPhase(m) == Reads(m, "idle") /\ IF warmUp THEN Goes(m, "day") ELSE Returns(m)

ReadDay(m) ==
  /\ Reads(m, "day")
  /\ monitor' = [monitor EXCEPT ![m].day = day,
                                ![m].at = IF day > Len(Ramp) THEN "graduate" ELSE "cap"]

Graduate(m) ==
  /\ Writes(m, "graduate") /\ Returns(m)
  /\ warmUp' = FALSE /\ UNCHANGED <<target, day>>

\* A wrong version of the next action: the ceiling is never compared to the
\* ramp.
CompareToRampNever(m) == Reads(m, "cap") /\ Goes(m, "sent")

CompareToRamp(m) ==
  /\ Reads(m, "cap")
  /\ Goes(m, IF target > Ramp[monitor[m].day] THEN "lower" ELSE "sent")

LowerToRamp(m) ==
  /\ Writes(m, "lower") /\ Goes(m, "sent")
  /\ target' = Ramp[monitor[m].day] /\ UNCHANGED <<warmUp, day>>

ReadSent(m) ==
  /\ Reads(m, "sent")
  /\ IF reported >= Minimum(monitor[m].day) THEN Goes(m, "advance") ELSE Returns(m)

Advance(m) ==
  /\ Writes(m, "advance") /\ Returns(m)
  /\ day' = monitor[m].day + 1 /\ UNCHANGED <<target, warmUp>>

(***************************************************************************)
(* _adjust_daily_ceiling                                                   *)
(***************************************************************************)
\* A wrong version of the next action: the warm-up does not keep it away.
AskWarmNever(m) == Reads(m, "adjust") /\ Goes(m, "rate")

AskWarm(m) ==
  /\ Reads(m, "adjust")
  /\ IF warmUp THEN monitor' = [monitor EXCEPT ![m] = IdleMonitor] ELSE Goes(m, "rate")

Raised  == (target * RaisePercent) \div 100
Reduced == (target * ReducePercent) \div 100

\* What good numbers ask for.
Higher == IF Raised > MaxTarget THEN MaxTarget ELSE Raised

\* What poor numbers ask for.
Lower == IF Reduced < MinTarget THEN MinTarget ELSE Reduced

\* The last seven days and the ceiling are read: too few e-mails to judge or
\* fair numbers, good ones, or poor ones.
ReadRates(m) ==
  /\ Reads(m, "rate")
  /\ \/ monitor' = [monitor EXCEPT ![m] = IdleMonitor]
     \/ \E t \in {Higher, Lower} :
          /\ (t = Higher /\ t > target) \/ (t = Lower /\ t < target)
          /\ monitor' = [monitor EXCEPT ![m].target = t, ![m].at = "set"]

SetTarget(m) ==
  /\ Writes(m, "set")
  /\ target' = monitor[m].target /\ UNCHANGED <<warmUp, day>>
  /\ monitor' = [monitor EXCEPT ![m] = IdleMonitor]

\* A statement raises, or Titan dies.
MonitorStops(m) ==
  /\ monitor[m].at # "idle"
  /\ Reads(m, monitor[m].at)
  /\ monitor' = [monitor EXCEPT ![m] = IdleMonitor]

-----------------------------------------------------------------------------
(***************************************************************************)
(* send_emails under the budget of the day                                 *)
(***************************************************************************)
Sending(s) == sender[s].at = "sending"
Rests(s)   == sender' = [sender EXCEPT ![s] = IdleSender]

ReadTarget(s) ==
  /\ sender[s].at = "idle"
  /\ sender' = [sender EXCEPT ![s] = [at |-> "budget", target |-> target, left |-> 0]]
  /\ UNCHANGED <<configVars, reported, mailVars, counts, sync, monitor, dates, historyVars>>

\* get_send_budget_today, cut to the batch.
BudgetOfTarget(t) ==  \* a wrong version: today's e-mails are not taken off
  IF t < BatchSize THEN t ELSE BatchSize

Budget(t) ==
  LET rest == IF t > reported THEN t - reported ELSE 0
  IN  IF rest < BatchSize THEN rest ELSE BatchSize

\* It is blind if the metrics lag behind or somebody else is sending.
TakeBudget(s) ==
  LET t == sender[s].target
      b == Budget(t)
  IN /\ sender[s].at = "budget"
     /\ IF b = 0
        THEN Rests(s) /\ UNCHANGED historyVars
        ELSE /\ sender' = [sender EXCEPT ![s] = [at |-> "sending", target |-> 0, left |-> b]]
             /\ ceiling' = IF t > ceiling THEN t ELSE ceiling
             /\ blind' = (blind \/ reported < contacted \/ \E r \in Sender : Sending(r))
             /\ early' = (early \/ (warmUp /\ t > Ramp[1]))
     /\ UNCHANGED <<configVars, reported, mailVars, counts, sync, monitor, dates>>

Contact == /\ total < MaxSent
           /\ contacted' = contacted + 1
           /\ total' = total + 1

\* The next lead of the batch is added to Instantly's campaign.
SendOne(s) ==
  /\ Sending(s) /\ Contact
  /\ IF sender[s].left > 1
     THEN sender' = [sender EXCEPT ![s].left = @ - 1]
     ELSE Rests(s)
  /\ UNCHANGED <<configVars, reported, counts, sync, monitor, dates, historyVars>>

\* No more leads are due, or an exception ends the invocation.
EndBatch(s) ==
  /\ sender[s].at # "idle" /\ Rests(s)
  /\ UNCHANGED <<configVars, reported, mailVars, counts, sync, monitor, dates, historyVars>>

\* /approve sends without asking for the budget.
SendApproved ==
  /\ Contact /\ blind' = TRUE
  /\ UNCHANGED <<configVars, reported, counts, sync, sender, monitor, dates, ceiling, early>>

-----------------------------------------------------------------------------
(***************************************************************************)
(* sync_campaign_analytics, and midnight                                   *)
(***************************************************************************)

\* Instantly has sent some of what it was handed, of today or of all days.
FetchAnalytics ==
  /\ sync = NoSync
  /\ \E n \in 0 .. (IF counts = "today" THEN contacted ELSE total) :
       sync' = [at |-> "store", sent |-> n]
  /\ UNCHANGED <<configVars, reported, mailVars, counts, sender, monitor, dates, historyVars>>

\* The row of CURRENT_DATE is written over; or the statement raises.
StoreAnalytics ==
  /\ sync.at = "store" /\ sync' = NoSync
  /\ reported' \in {reported, sync.sent}
  /\ UNCHANGED <<configVars, mailVars, counts, sender, monitor, dates, historyVars>>

\* The new date has no metrics yet.  Who is in the middle of something goes
\* on with yesterday's numbers.
Midnight ==
  /\ dates < MaxDate /\ dates' = dates + 1
  /\ contacted' = 0 /\ reported' = 0 /\ ceiling' = 0
  /\ blind' = (blind \/ sync # NoSync \/ \E s \in Sender : Sending(s))
  /\ UNCHANGED <<configVars, total, counts, sync, sender, monitor, early>>

-----------------------------------------------------------------------------
Enforces(m) == \/ AskPhase(m) \/ ReadDay(m) \/ Graduate(m) \/ CompareToRamp(m)
               \/ LowerToRamp(m) \/ ReadSent(m) \/ Advance(m)
Adjusts(m)  == AskWarm(m) \/ ReadRates(m) \/ SetTarget(m)
Sends(s)    == ReadTarget(s) \/ TakeBudget(s) \/ SendOne(s) \/ EndBatch(s)

Next == \/ \E m \in Monitor : Enforces(m) \/ Adjusts(m) \/ MonitorStops(m)
        \/ \E s \in Sender : Sends(s)
        \/ SendApproved \/ FetchAnalytics \/ StoreAnalytics \/ Midnight

Spec == Init /\ [][Next]_vars

-----------------------------------------------------------------------------
(***************************************************************************)
(* Properties                                                              *)
(***************************************************************************)

\* The records stay in range, and so does the ceiling: not even several
\* checks at once raise it above the limit or lower it below both floors.
TypeOK ==
  /\ target \in Nat /\ target <= MaxTarget
  /\ target >= Ramp[1] \/ target >= MinTarget
  /\ warmUp \in BOOLEAN /\ day \in 1 .. Len(Ramp) + 1
  /\ reported \in Nat /\ contacted \in Nat /\ total \in 0 .. MaxSent /\ contacted <= total
  /\ counts \in {"today", "total"}
  /\ sync \in [at : {"idle", "store"}, sent : Nat]
  /\ sender \in [Sender -> [at : {"idle", "budget", "sending"}, target : Nat, left : Nat]]
  /\ monitor \in [Monitor ->
       [at : {"idle", "day", "graduate", "cap", "lower", "sent", "advance", "adjust", "rate", "set"},
        day : 1 .. Len(Ramp) + 1, target : Nat]]
  /\ dates \in 0 .. MaxDate
  /\ ceiling \in Nat /\ blind \in BOOLEAN /\ early \in BOOLEAN

\* A day's e-mails stay under the ceiling (get_send_budget_today) as long as
\* every budget was taken by one sender at a time who knew of all of them.
\* A copy of the metrics that lags, a second batch, /approve and a batch that
\* runs past midnight are what goes over it.
CeilingHolds == ~blind => contacted <= ceiling

\* Once the warm-up has left its first day, the ceiling never exceeds what the
\* ramp allowed a day earlier (_enforce_warmup_volume), however many checks
\* overlap and with whatever they read before.
RampIsRespected == (warmUp /\ day > 1) => target <= Ramp[day - 1]

\* The warm-up, which is there to raise the ceiling day by day, only ever lowers
\* it, whatever overlapping checks still know of it: _enforce_warmup_volume caps
\* and never raises, and _adjust_daily_ceiling waits for its end.
CeilingOnlyFalls == [][warmUp => target' <= target]_vars

\* With metrics that count the day and budgets that see them the warm-up
\* therefore stands still on its second day: most of that day's ramp is more
\* than the first day's ceiling lets through.  Only a day that went over the
\* ceiling, or mail sent before the first check, moves it on.
RampStandsStill == (counts = "today" /\ ~blind /\ ~early) => day <= 2
=============================================================================
