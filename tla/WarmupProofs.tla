---------------------------- MODULE WarmupProofs ----------------------------
(***************************************************************************)
(* Proofs about Warmup, for any ramp that rises as the code's does, any    *)
(* number of overlapping checks, batches and days.                         *)
(***************************************************************************)
EXTENDS Warmup, TLAPS

\* A ceiling the code may set.
InRange(t) == t \in Nat /\ t <= MaxTarget /\ (t >= Ramp[1] \/ t >= MinTarget)

\* What a check still knows of what it has read.
Knows(j) ==
  /\ j.at \in {"cap", "lower", "sent", "advance"} => j.day \in Days
  /\ j.at = "lower" => Ramp[j.day] <= MaxTarget
  /\ j.at \in {"rate", "set"} => ~warmUp
  /\ j.at = "set" => InRange(j.target)
  /\ warmUp => /\ j.at = "lower" => j.day = 1
               /\ j.at = "cap" /\ j.day > 1 => day > 1
               /\ j.at \in {"sent", "advance"} => target = Ramp[1]

\* During the warm-up the ceiling is the seed or the first day's, and once it
\* is the first day's it stays so.
Config ==
  /\ warmUp => target \in {DefaultTarget, Ramp[1]}
  /\ warmUp /\ day > 1 => target = Ramp[1]

Ceilings == Config /\ \A m \in Monitor : Knows(monitor[m])

\* Unless blind, one sender at a time has what the others left of the ceiling.
Budgets ==
  ~blind => /\ contacted <= ceiling
            /\ \A s \in Sender : Sending(s) => /\ sender[s].left > 0
                                              /\ contacted + sender[s].left <= ceiling
            /\ \A r, s \in Sender : Sending(r) /\ Sending(s) => r = s

\* Metrics that count the day, and budgets that saw them from the first check on.
Orderly == counts = "today" /\ ~blind /\ ~early

\* Then the metrics never show more than the first day's ramp.
Stands ==
  /\ warmUp /\ day <= 2 /\ ceiling <= Ramp[1]
  /\ reported <= contacted /\ sync.sent <= contacted
  /\ \A m \in Monitor : /\ monitor[m].at # "graduate"
                        /\ monitor[m].at = "advance" => monitor[m].day = 1

Standing == Orderly => Stands

IInv == TypeOK /\ Ceilings /\ Budgets /\ Standing

-----------------------------------------------------------------------------
LEMMA RampFacts ==
  /\ Ramp \in [Days -> Nat] /\ Len(Ramp) \in Nat /\ Len(Ramp) > 1 /\ 1 \in Days
  /\ \A d \in Days : d \in Nat /\ 1 <= d /\ d <= Len(Ramp) /\ Ramp[1] <= Ramp[d] /\ Ramp[d] \in Nat
  /\ Days \subseteq 1 .. Len(Ramp) + 1
  /\ DefaultTarget \in Nat /\ Ramp[1] <= DefaultTarget /\ DefaultTarget <= MaxTarget
  /\ MinTarget \in Nat /\ MaxTarget \in Nat /\ MinTarget <= MaxTarget
  /\ BatchSize \in Nat /\ MaxSent \in Nat /\ MaxDate \in Nat
BY WarmupAssumption DEF Days

\* Most of any later day's ramp is more than the first day allows.
LEMMA LaterDays ==
  ASSUME NEW d \in Days, d # 1
  PROVE  Minimum(d) > Ramp[1]
<1>1. PICK most : most = (Ramp[d] * AdvancePercent) \div 100
  OBVIOUS
<1>2. most > Ramp[1]
  BY <1>1, RampAssumption
<1>3. most \in Int /\ Ramp[1] \in Nat
  <2>1. Ramp[d] * AdvancePercent \in Int
    BY RampFacts, WarmupAssumption
  <2> QED
    BY <1>1, <2>1, RampFacts
<1> QED
  BY <1>1, <1>2, <1>3 DEF Minimum

\* What a raise or a cut asks for is in range.
LEMMA VerdictFacts ==
  ASSUME TypeOK
  PROVE  /\ Higher > target => InRange(Higher)
         /\ InRange(Lower) \/ ~(Lower < target)
<1>1. Raised \in Int /\ Reduced \in Int
  <2>1. target * RaisePercent \in Nat /\ target * ReducePercent \in Nat
    BY WarmupAssumption DEF TypeOK
  <2> QED
    BY <2>1 DEF Raised, Reduced
<1> QED
  BY <1>1, RampFacts DEF TypeOK, InRange, Higher, Lower

-----------------------------------------------------------------------------
\* The checks: a step of one leaves the others and everything but system_config.
Checks(m) == Enforces(m) \/ Adjusts(m) \/ MonitorStops(m)

Rest == <<reported, mailVars, counts, sync, sender, dates, historyVars>>

LEMMA CheckFrame ==
  ASSUME TypeOK, NEW m \in Monitor, Checks(m)
  PROVE  /\ UNCHANGED Rest
         /\ \E j : monitor' = [monitor EXCEPT ![m] = j]
         /\ \A n \in Monitor \ {m} : monitor'[n] = monitor[n]
BY DEF Checks, Enforces, Adjusts, AskPhase, ReadDay, Graduate, CompareToRamp, LowerToRamp,
       ReadSent, Advance, AskWarm, ReadRates, SetTarget, MonitorStops, Reads, Writes, Goes,
       Returns, Rest, TypeOK

-----------------------------------------------------------------------------
(***************************************************************************)
(* What a check may do to the ceiling                                      *)
(***************************************************************************)

CheckRecord ==
  [at : {"idle", "day", "graduate", "cap", "lower", "sent", "advance", "adjust", "rate", "set"},
   day : 1 .. Len(Ramp) + 1, target : Nat]

\* The step of one check, seen from its record and system_config.
Checked(m) ==
  /\ monitor'[m] \in CheckRecord /\ Knows(monitor[m])'
  /\ InRange(target)' /\ warmUp' \in BOOLEAN /\ day' \in 1 .. Len(Ramp) + 1
  /\ warmUp' => warmUp /\ (target = Ramp[1] => target' = Ramp[1])
  /\ day > 1 => day' > 1
  /\ Config'

LEMMA CheckStep ==
  ASSUME TypeOK, Ceilings, NEW m \in Monitor, Checks(m)
  PROVE  Checked(m)
<1> DEFINE j == monitor[m]
<1>k. Knows(j) /\ Config /\ j \in CheckRecord /\ InRange(target)
  BY DEF Ceilings, TypeOK, CheckRecord, InRange
<1>t. monitor \in [Monitor -> CheckRecord] /\ warmUp \in BOOLEAN /\ day \in 1 .. Len(Ramp) + 1
  BY DEF TypeOK, CheckRecord
<1>i. IdleMonitor \in CheckRecord
  BY RampFacts DEF IdleMonitor, CheckRecord
<1> HIDE DEF j
<1>1. CASE MonitorStops(m) \/ AskWarm(m) \/ AskPhase(m)
  <2>1. /\ UNCHANGED <<target, warmUp, day>>
        /\ \/ monitor' = [monitor EXCEPT ![m] = IdleMonitor]
           \/ monitor' = [monitor EXCEPT ![m] = [IdleMonitor EXCEPT !.at = "adjust"]]
           \/ monitor' = [monitor EXCEPT ![m].at = "day"]
           \/ monitor' = [monitor EXCEPT ![m].at = "rate"] /\ ~warmUp
    BY <1>1 DEF MonitorStops, AskWarm, AskPhase, Reads, Goes, Returns, configVars
  <2>2. CASE \/ monitor' = [monitor EXCEPT ![m] = IdleMonitor]
             \/ monitor' = [monitor EXCEPT ![m] = [IdleMonitor EXCEPT !.at = "adjust"]]
    BY <1>k, <1>t, <1>i, <2>1, <2>2
       DEF Checked, Knows, Config, InRange, CheckRecord, IdleMonitor
  <2>3. CASE \/ monitor' = [monitor EXCEPT ![m].at = "day"]
             \/ monitor' = [monitor EXCEPT ![m].at = "rate"] /\ ~warmUp
    BY <1>k, <1>t, <2>1, <2>3 DEF j, Checked, Knows, Config, InRange, CheckRecord
  <2> QED
    BY <2>1, <2>2, <2>3
<1>2. CASE ReadDay(m)
  BY <1>2, <1>k, <1>t, RampFacts
     DEF j, ReadDay, Reads, configVars, Checked, Knows, Config, InRange, CheckRecord, Days
<1>3. CASE Graduate(m)
  BY <1>3, <1>k, <1>t, <1>i, RampFacts
     DEF j, Graduate, Writes, Returns, Checked, Knows, Config, InRange, CheckRecord, IdleMonitor
<1>4. CASE CompareToRamp(m)
  <2>1. /\ j.at = "cap" /\ j.day \in Days /\ UNCHANGED <<target, warmUp, day>>
        /\ \/ monitor' = [monitor EXCEPT ![m].at = "lower"] /\ target > Ramp[j.day]
           \/ monitor' = [monitor EXCEPT ![m].at = "sent"] /\ ~(target > Ramp[j.day])
    BY <1>4, <1>k DEF j, CompareToRamp, Reads, Goes, configVars, Knows
  <2>2. warmUp /\ j.day > 1 => target = Ramp[1]
    BY <1>k, <2>1 DEF Knows, Config
  <2>3. warmUp /\ j.day = 1 /\ ~(target > Ramp[1]) => target = Ramp[1]
    BY <1>k, RampFacts DEF Config
  <2>4. target > Ramp[j.day] => Ramp[j.day] <= MaxTarget /\ (warmUp => j.day = 1)
    BY <1>k, <2>1, <2>2, RampFacts DEF InRange
  <2>5. ~(target > Ramp[j.day]) /\ warmUp => target = Ramp[1]
    BY <2>1, <2>2, <2>3, RampFacts
  <2>6. CASE monitor' = [monitor EXCEPT ![m].at = "lower"] /\ target > Ramp[j.day]
    BY <1>k, <1>t, <2>1, <2>4, <2>6 DEF j, Checked, Knows, Config, InRange, CheckRecord
  <2>7. CASE monitor' = [monitor EXCEPT ![m].at = "sent"] /\ ~(target > Ramp[j.day])
    BY <1>k, <1>t, <2>1, <2>5, <2>7 DEF j, Checked, Knows, Config, InRange, CheckRecord
  <2> QED
    BY <2>1, <2>6, <2>7
<1>5. CASE LowerToRamp(m)
  BY <1>5, <1>k, <1>t, RampFacts
     DEF j, LowerToRamp, Writes, Goes, Checked, Knows, Config, InRange, CheckRecord
<1>6. CASE ReadSent(m)
  <2>1. /\ j.at = "sent" /\ UNCHANGED <<target, warmUp, day>>
        /\ \/ monitor' = [monitor EXCEPT ![m].at = "advance"]
           \/ monitor' = [monitor EXCEPT ![m] = [IdleMonitor EXCEPT !.at = "adjust"]]
    BY <1>6 DEF j, ReadSent, Reads, Goes, Returns, configVars
  <2>2. CASE monitor' = [monitor EXCEPT ![m].at = "advance"]
    BY <1>k, <1>t, <2>1, <2>2 DEF j, Checked, Knows, Config, InRange, CheckRecord
  <2>3. CASE monitor' = [monitor EXCEPT ![m] = [IdleMonitor EXCEPT !.at = "adjust"]]
    BY <1>k, <1>t, <1>i, <2>1, <2>3
       DEF j, Checked, Knows, Config, InRange, CheckRecord, IdleMonitor
  <2> QED
    BY <2>1, <2>2, <2>3
<1>7. CASE Advance(m)
  BY <1>7, <1>k, <1>t, <1>i, RampFacts
     DEF j, Advance, Writes, Returns, Checked, Knows, Config, InRange, CheckRecord, IdleMonitor, Days
<1>8. CASE ReadRates(m)
  <2>1. /\ j.at = "rate" /\ UNCHANGED <<target, warmUp, day>>
        /\ \/ monitor' = [monitor EXCEPT ![m] = IdleMonitor]
           \/ \E t \in {Higher, Lower} :
                /\ (t = Higher /\ t > target) \/ (t = Lower /\ t < target)
                /\ monitor' = [monitor EXCEPT ![m].target = t, ![m].at = "set"]
    BY <1>8 DEF j, ReadRates, Reads, configVars
  <2>2. CASE monitor' = [monitor EXCEPT ![m] = IdleMonitor]
    BY <1>k, <1>t, <1>i, <2>1, <2>2 DEF Checked, Knows, Config, InRange, CheckRecord, IdleMonitor
  <2>3. CASE \E t \in {Higher, Lower} :
               /\ (t = Higher /\ t > target) \/ (t = Lower /\ t < target)
               /\ monitor' = [monitor EXCEPT ![m].target = t, ![m].at = "set"]
    <3>1. PICK t : InRange(t) /\ monitor' = [monitor EXCEPT ![m].target = t, ![m].at = "set"]
      BY <2>3, VerdictFacts
    <3>2. ~warmUp
      BY <1>k, <2>1 DEF Knows
    <3> QED
      BY <1>k, <1>t, <2>1, <3>1, <3>2 DEF j, Checked, Knows, Config, InRange, CheckRecord
  <2> QED
    BY <2>1, <2>2, <2>3
<1>9. CASE SetTarget(m)
  BY <1>9, <1>k, <1>t, <1>i, RampFacts
     DEF j, SetTarget, Writes, Checked, Knows, Config, InRange, CheckRecord, IdleMonitor
<1> QED
  BY <1>1, <1>2, <1>3, <1>4, <1>5, <1>6, <1>7, <1>8, <1>9 DEF Checks, Enforces, Adjusts

-----------------------------------------------------------------------------
(***************************************************************************)
(* The ceiling                                                             *)
(***************************************************************************)

\* Nobody but the checks touches the ceiling or what they know.
LEMMA OtherFrame ==
  ASSUME [Next]_vars, \A m \in Monitor : ~Checks(m)
  PROVE  UNCHANGED <<configVars, monitor>>
BY DEF Next, Checks, Sends, ReadTarget, TakeBudget, SendOne, EndBatch, SendApproved,
       FetchAnalytics, StoreAnalytics, Midnight, vars

LEMMA CeilingStep ==
  ASSUME TypeOK, Ceilings, [Next]_vars
  PROVE  /\ Ceilings' /\ InRange(target)' /\ warmUp' \in BOOLEAN
         /\ day' \in 1 .. Len(Ramp) + 1 /\ monitor' \in [Monitor -> CheckRecord]
<1>t. monitor \in [Monitor -> CheckRecord] /\ InRange(target)
  BY DEF TypeOK, CheckRecord, InRange
<1>1. ASSUME NEW m \in Monitor, Checks(m)
      PROVE  /\ Ceilings' /\ InRange(target)' /\ warmUp' \in BOOLEAN
             /\ day' \in 1 .. Len(Ramp) + 1 /\ monitor' \in [Monitor -> CheckRecord]
  <2>1. Checked(m)
    BY <1>1, CheckStep
  <2>2. \A n \in Monitor \ {m} : Knows(monitor[n])'
    <3> SUFFICES ASSUME NEW n \in Monitor \ {m} PROVE Knows(monitor[n])'
      OBVIOUS
    <3>1. monitor'[n] = monitor[n] /\ Knows(monitor[n])
      BY <1>1, CheckFrame DEF Ceilings
    <3> QED
      BY <2>1, <3>1 DEF Checked, Knows, InRange
  <2>3. PICK j : monitor' = [monitor EXCEPT ![m] = j]
    BY <1>1, CheckFrame
  <2>4. monitor' \in [Monitor -> CheckRecord]
    BY <1>t, <2>1, <2>3 DEF Checked
  <2> QED
    BY <2>1, <2>2, <2>4 DEF Checked, Ceilings
<1>2. CASE \A m \in Monitor : ~Checks(m)
  BY <1>t, <1>2, OtherFrame DEF Ceilings, Config, Knows, InRange, configVars, TypeOK
<1> QED
  BY <1>1, <1>2

\* During the warm-up nothing raises the ceiling: it is the seed or the first
\* day's, no check is about to set another, and a check is about to lower it
\* only to the first day's.
LEMMA FallStep ==
  ASSUME TypeOK, Ceilings, [Next]_vars, warmUp
  PROVE  target' <= target
<1>1. target \in Nat /\ target \in {DefaultTarget, Ramp[1]}
  BY DEF TypeOK, Ceilings, Config
<1>2. ASSUME NEW m \in Monitor, Checks(m), target' # target
      PROVE  target' = Ramp[1]
  <2>1. Knows(monitor[m])
    BY DEF Ceilings
  <2>2. LowerToRamp(m) \/ SetTarget(m)
    BY <1>2 DEF Checks, Enforces, Adjusts, AskPhase, ReadDay, Graduate, CompareToRamp, ReadSent,
       Advance, AskWarm, ReadRates, MonitorStops, Reads, Writes, configVars
  <2>3. ~SetTarget(m)
    BY <2>1 DEF SetTarget, Writes, Knows
  <2> QED
    BY <2>1, <2>2, <2>3 DEF LowerToRamp, Writes, Knows
<1>3. CASE \A m \in Monitor : ~Checks(m)
  <2>1. target' = target
    BY <1>3, OtherFrame DEF configVars
  <2> QED
    BY <1>1, <2>1
<1> QED
  BY <1>1, <1>2, <1>3, RampFacts

\* What the ramp allows once its first day is over.
LEMMA CeilingGives == TypeOK /\ Ceilings => RampIsRespected
BY RampFacts DEF TypeOK, Ceilings, Config, RampIsRespected, Days

-----------------------------------------------------------------------------
(***************************************************************************)
(* Types                                                                   *)
(***************************************************************************)
SenderRecord == [at : {"idle", "budget", "sending"}, target : Nat, left : Nat]

\* The mail side of the type invariant.
MailType ==
  /\ reported \in Nat /\ contacted \in Nat /\ total \in 0 .. MaxSent /\ contacted <= total
  /\ counts \in {"today", "total"}
  /\ sync \in [at : {"idle", "store"}, sent : Nat]
  /\ sender \in [Sender -> SenderRecord]
  /\ dates \in 0 .. MaxDate
  /\ ceiling \in Nat /\ blind \in BOOLEAN /\ early \in BOOLEAN

LEMMA BudgetFacts ==
  ASSUME TypeOK, NEW t \in Nat
  PROVE  /\ Budget(t) \in Nat
         /\ Budget(t) # 0 => t > reported /\ Budget(t) <= t - reported
BY RampFacts DEF TypeOK, Budget

LEMMA MailStep ==
  ASSUME TypeOK, [Next]_vars
  PROVE  MailType'
<1> USE DEF historyVars, mailVars, configVars
<1>t. MailType /\ IdleSender \in SenderRecord /\ target \in Nat
  BY DEF TypeOK, MailType, SenderRecord, IdleSender
<1>1. CASE \E m \in Monitor : Checks(m)
  BY <1>t, <1>1, CheckFrame DEF MailType, Rest
<1>2. ASSUME NEW s \in Sender, Sends(s) PROVE MailType'
  <2>1. CASE ReadTarget(s)
    BY <1>t, <2>1 DEF ReadTarget, MailType, SenderRecord
  <2>2. CASE TakeBudget(s)
    <3>1. PICK t \in Nat : t = sender[s].target
      BY <1>t DEF MailType, SenderRecord
    <3>2. PICK b \in Nat : b = Budget(t)
      BY <3>1, BudgetFacts
    <3>3. CASE b = 0
      BY <1>t, <2>2, <3>1, <3>2, <3>3 DEF TakeBudget, Rests, MailType
    <3>4. CASE b # 0
      BY <1>t, <2>2, <3>1, <3>2, <3>4 DEF TakeBudget, MailType, SenderRecord
    <3> QED
      BY <3>3, <3>4
  <2>3. CASE SendOne(s)
    <3>1. /\ total' = total + 1 /\ contacted' = contacted + 1 /\ total < MaxSent
          /\ UNCHANGED <<reported, counts, sync, dates, ceiling, blind, early>>
      BY <2>3 DEF SendOne, Contact
    <3>2. sender' \in [Sender -> SenderRecord]
      <4>1. \/ sender[s].left > 1 /\ sender' = [sender EXCEPT ![s].left = @ - 1]
            \/ sender' = [sender EXCEPT ![s] = IdleSender]
        BY <2>3 DEF SendOne, Rests
      <4>2. sender[s] \in SenderRecord
        BY <1>t DEF MailType
      <4> QED
        BY <1>t, <4>1, <4>2 DEF MailType, SenderRecord
    <3> QED
      BY <1>t, <3>1, <3>2, RampFacts DEF MailType
  <2>4. CASE EndBatch(s)
    BY <1>t, <2>4 DEF EndBatch, Rests, MailType
  <2> QED
    BY <1>2, <2>1, <2>2, <2>3, <2>4 DEF Sends
<1>3. CASE SendApproved
  BY <1>t, <1>3, RampFacts DEF SendApproved, Contact, MailType
<1>4. CASE FetchAnalytics
  BY <1>t, <1>4, RampFacts DEF FetchAnalytics, MailType
<1>5. CASE StoreAnalytics
  BY <1>t, <1>5 DEF StoreAnalytics, NoSync, MailType
<1>6. CASE Midnight
  BY <1>t, <1>6, RampFacts DEF Midnight, MailType
<1>7. CASE UNCHANGED vars
  BY <1>t, <1>7 DEF vars, MailType
<1> QED
  BY <1>1, <1>2, <1>3, <1>4, <1>5, <1>6, <1>7 DEF Next, Checks

LEMMA TypeStep == TypeOK /\ Ceilings /\ [Next]_vars => TypeOK'
BY CeilingStep, MailStep DEF TypeOK, MailType, InRange, CheckRecord, SenderRecord

-----------------------------------------------------------------------------
(***************************************************************************)
(* The budget of a day                                                     *)
(***************************************************************************)

LEMMA BudgetsStep ==
  ASSUME TypeOK, Budgets, [Next]_vars
  PROVE  Budgets'
<1> USE DEF historyVars, mailVars, configVars
<1>t. /\ sender \in [Sender -> SenderRecord]
      /\ contacted \in Nat /\ ceiling \in Nat /\ reported \in Nat /\ blind \in BOOLEAN
  BY DEF TypeOK, SenderRecord
<1>1. CASE UNCHANGED <<contacted, ceiling, blind, sender>>
  BY <1>1 DEF Budgets, Sending
<1>2. CASE \E m \in Monitor : Checks(m)
  BY <1>1, <1>2, CheckFrame DEF Rest
<1>3. ASSUME NEW s \in Sender, ReadTarget(s) \/ EndBatch(s)
      PROVE  Budgets'
  <2>1. /\ UNCHANGED <<contacted, ceiling, blind>> /\ sender'[s].at # "sending"
        /\ \A r \in Sender \ {s} : sender'[r] = sender[r]
    BY <1>3, <1>t DEF ReadTarget, EndBatch, Rests, IdleSender
  <2> QED
    BY <2>1 DEF Budgets, Sending
<1>4. ASSUME NEW s \in Sender, TakeBudget(s)
      PROVE  Budgets'
  <2>1. PICK t \in Nat : t = sender[s].target
    BY <1>t DEF SenderRecord
  <2>2. PICK b \in Nat : b = Budget(t)
    BY <2>1, BudgetFacts
  <2>3. CASE b = 0
    <3>1. /\ UNCHANGED <<contacted, ceiling, blind>> /\ sender'[s].at # "sending"
          /\ \A r \in Sender \ {s} : sender'[r] = sender[r]
      BY <1>4, <1>t, <2>1, <2>2, <2>3 DEF TakeBudget, Rests, IdleSender
    <3> QED
      BY <3>1 DEF Budgets, Sending
  <2>4. CASE b # 0
    <3>1. /\ contacted' = contacted /\ sender'[s].left = b
          /\ ceiling' = IF t > ceiling THEN t ELSE ceiling
          /\ \A r \in Sender \ {s} : sender'[r] = sender[r]
      BY <1>4, <1>t, <2>1, <2>2, <2>4 DEF TakeBudget
    <3>5. ~blind' => ~blind /\ ~(reported < contacted) /\ \A r \in Sender : ~Sending(r)
      <4>1. blind' = (blind \/ reported < contacted \/ \E r \in Sender : Sending(r))
        BY <1>4, <2>1, <2>2, <2>4 DEF TakeBudget
      <4> QED
        BY <4>1
    <3>2. t > reported /\ b <= t - reported
      BY <2>1, <2>2, <2>4, BudgetFacts
    <3>3. ~blind' => contacted + b <= t /\ t <= ceiling'
      BY <1>t, <3>1, <3>2, <3>5
    <3>4. ~blind' => contacted' <= ceiling'
      BY <1>t, <3>1, <3>2, <3>3
    <3>6. ~blind' => contacted' + sender'[s].left <= ceiling' /\ sender'[s].left > 0
      BY <1>t, <2>2, <2>4, <3>1, <3>3
    <3>7. ~blind' => \A r \in Sender \ {s} : ~Sending(r)'
      BY <3>1, <3>5 DEF Sending
    <3> QED
      BY <3>4, <3>6, <3>7 DEF Budgets
  <2> QED
    BY <2>3, <2>4
<1>5. ASSUME NEW s \in Sender, SendOne(s)
      PROVE  Budgets'
  <2>1. /\ Sending(s) /\ contacted' = contacted + 1 /\ UNCHANGED <<ceiling, blind>>
        /\ \/ sender[s].left > 1 /\ sender' = [sender EXCEPT ![s].left = @ - 1]
           \/ ~(sender[s].left > 1) /\ sender' = [sender EXCEPT ![s] = IdleSender]
    BY <1>5 DEF SendOne, Contact, Rests
  <2> SUFFICES ASSUME ~blind PROVE Budgets'
    BY <2>1 DEF Budgets
  <2>2. /\ sender[s].left > 0 /\ contacted + sender[s].left <= ceiling
        /\ \A r \in Sender \ {s} : ~Sending(r)
    BY <2>1 DEF Budgets
  <2>3. \A r \in Sender \ {s} : ~Sending(r)'
    BY <1>t, <2>1, <2>2 DEF Sending
  <2>4. contacted' <= ceiling'
    <3>1. sender[s].left \in Nat
      BY <1>t DEF SenderRecord
    <3> QED
      BY <1>t, <2>1, <2>2, <3>1
  <2>5. Sending(s)' => sender'[s].left > 0 /\ contacted' + sender'[s].left <= ceiling'
    <3>1. sender[s].left \in Nat
      BY <1>t DEF SenderRecord
    <3>2. sender[s].left > 1 => sender'[s].left = sender[s].left - 1
      BY <1>t, <2>1 DEF SenderRecord
    <3>3. ~(sender[s].left > 1) => ~Sending(s)'
      BY <1>t, <2>1 DEF Sending, IdleSender
    <3> QED
      BY <1>t, <2>1, <2>2, <3>1, <3>2, <3>3
  <2> QED
    BY <2>3, <2>4, <2>5 DEF Budgets
<1>6. CASE SendApproved
  BY <1>6 DEF SendApproved, Budgets
<1>7. CASE FetchAnalytics \/ StoreAnalytics
  BY <1>1, <1>7 DEF FetchAnalytics, StoreAnalytics
<1>8. CASE Midnight
  <2>1. /\ contacted' = 0 /\ ceiling' = 0 /\ UNCHANGED sender
        /\ blind' = (blind \/ sync # NoSync \/ \E s \in Sender : Sending(s))
    BY <1>8 DEF Midnight
  <2>2. ~blind' => \A s \in Sender : ~Sending(s)'
    BY <2>1 DEF Sending
  <2> QED
    BY <2>1, <2>2 DEF Budgets
<1>9. CASE UNCHANGED vars
  BY <1>1, <1>9 DEF vars
<1> QED
  BY <1>2, <1>3, <1>4, <1>5, <1>6, <1>7, <1>8, <1>9 DEF Next, Checks, Sends

-----------------------------------------------------------------------------
(***************************************************************************)
(* The warm-up stands still                                                *)
(***************************************************************************)

\* Once a day is not orderly, nothing makes it so again.
LEMMA OrderlyLost ==
  ASSUME TypeOK, [Next]_vars
  PROVE  Orderly' => Orderly
<1> USE DEF historyVars, mailVars, configVars, Orderly
<1>t. blind \in BOOLEAN /\ early \in BOOLEAN
  BY DEF TypeOK
<1>1. CASE \E m \in Monitor : Checks(m)
  BY <1>1, CheckFrame DEF Rest
<1>2. ASSUME NEW s \in Sender, Sends(s) PROVE Orderly' => Orderly
  BY <1>t, <1>2 DEF Sends, ReadTarget, TakeBudget, SendOne, EndBatch
<1>3. CASE SendApproved \/ FetchAnalytics \/ StoreAnalytics \/ Midnight \/ UNCHANGED vars
  BY <1>t, <1>3 DEF SendApproved, FetchAnalytics, StoreAnalytics, Midnight, vars
<1> QED
  BY <1>1, <1>2, <1>3 DEF Next, Checks

\* The metrics never show enough for a day after the first.
LEMMA NotEnough ==
  ASSUME TypeOK, Budgets, Orderly, Stands, NEW d \in Days, d # 1
  PROVE  ~(reported >= Minimum(d))
<1>1. Minimum(d) > Ramp[1]
  BY LaterDays
<1>2. reported <= contacted /\ contacted <= ceiling /\ ceiling <= Ramp[1]
  BY DEF Orderly, Stands, Budgets
<1>3. reported \in Nat /\ contacted \in Nat /\ ceiling \in Nat /\ Ramp[1] \in Nat
  BY RampFacts DEF TypeOK
<1>4. Minimum(d) \in Int
  <2>1. Ramp[d] * AdvancePercent \in Int
    BY RampFacts, WarmupAssumption
  <2>2. (Ramp[d] * AdvancePercent) \div 100 \in Int
    BY <2>1
  <2> QED
    BY <2>2 DEF Minimum
<1> QED
  BY <1>1, <1>2, <1>3, <1>4

\* A check of an orderly day takes the warm-up no further than its second day.
LEMMA StandingCheck ==
  ASSUME TypeOK, Ceilings, Budgets, Orderly, Stands, NEW m \in Monitor, Checks(m)
  PROVE  Stands'
<1> DEFINE Fine(j) == j.at # "graduate" /\ (j.at = "advance" => j.day = 1)
<1>r. UNCHANGED Rest /\ \A n \in Monitor \ {m} : monitor'[n] = monitor[n]
  BY CheckFrame
<1>t. /\ monitor \in [Monitor -> CheckRecord] /\ day \in 1 .. Len(Ramp) + 1
      /\ warmUp /\ day <= 2 /\ Fine(monitor[m]) /\ Knows(monitor[m])
  BY DEF TypeOK, CheckRecord, Stands, Ceilings
<1> SUFFICES warmUp' /\ day' <= 2 /\ Fine(monitor'[m])
  BY <1>r DEF Stands, Rest, mailVars, historyVars
<1>1. CASE MonitorStops(m) \/ AskWarm(m) \/ AskPhase(m)
  <2>1. /\ UNCHANGED <<warmUp, day>>
        /\ \/ monitor' = [monitor EXCEPT ![m] = IdleMonitor]
           \/ monitor' = [monitor EXCEPT ![m] = [IdleMonitor EXCEPT !.at = "adjust"]]
           \/ monitor' = [monitor EXCEPT ![m].at = "day"]
    BY <1>1, <1>t DEF MonitorStops, AskWarm, AskPhase, Reads, Goes, Returns, configVars
  <2> QED
    BY <1>t, <2>1 DEF IdleMonitor, CheckRecord
<1>2. CASE ReadDay(m)
  <2>1. ~(day > Len(Ramp))
    BY <1>t, RampFacts
  <2> QED
    BY <1>2, <1>t, <2>1 DEF ReadDay, Reads, configVars, CheckRecord
<1>3. CASE Graduate(m)
  BY <1>3, <1>t DEF Graduate, Writes
<1>4. CASE CompareToRamp(m) \/ LowerToRamp(m)
  BY <1>4, <1>t DEF CompareToRamp, LowerToRamp, Reads, Writes, Goes, configVars, CheckRecord
<1>5. CASE ReadSent(m)
  <2>1. monitor[m].at = "sent" /\ monitor[m].day \in Days /\ UNCHANGED configVars
    BY <1>5, <1>t DEF ReadSent, Reads, Knows
  <2>2. CASE monitor[m].day = 1
    BY <1>5, <1>t, <2>1, <2>2 DEF ReadSent, Goes, Returns, configVars, IdleMonitor, CheckRecord
  <2>3. CASE monitor[m].day # 1
    <3>1. ~(reported >= Minimum(monitor[m].day))
      BY <2>1, <2>3, NotEnough
    <3> QED
      BY <1>5, <1>t, <2>1, <3>1 DEF ReadSent, Returns, configVars, IdleMonitor
  <2> QED
    BY <2>2, <2>3
<1>6. CASE Advance(m)
  BY <1>6, <1>t DEF Advance, Writes, Returns, IdleMonitor
<1>7. CASE ReadRates(m)
  BY <1>7, <1>t DEF ReadRates, Reads, configVars, IdleMonitor, CheckRecord
<1>8. CASE SetTarget(m)
  BY <1>8, <1>t DEF SetTarget, Writes, IdleMonitor
<1> QED
  BY <1>1, <1>2, <1>3, <1>4, <1>5, <1>6, <1>7, <1>8 DEF Checks, Enforces, Adjusts

LEMMA StandingStep ==
  ASSUME TypeOK, Ceilings, Budgets, Standing, [Next]_vars
  PROVE  Standing'
<1> USE DEF historyVars, mailVars, configVars
<1> SUFFICES ASSUME Orderly' PROVE Stands'
  BY DEF Standing
<1>o. Orderly /\ Stands
  BY OrderlyLost DEF Standing
<1>t. /\ sender \in [Sender -> SenderRecord] /\ ceiling \in Nat /\ contacted \in Nat
      /\ reported \in Nat /\ early \in BOOLEAN /\ blind \in BOOLEAN
      /\ sync \in [at : {"idle", "store"}, sent : Nat]
  BY DEF TypeOK, SenderRecord
<1>1. CASE \E m \in Monitor : Checks(m)
  BY <1>o, <1>1, StandingCheck
<1>2. ASSUME NEW s \in Sender, ReadTarget(s) \/ EndBatch(s) \/ SendOne(s) PROVE Stands'
  <2>1. /\ UNCHANGED <<configVars, reported, sync, monitor, ceiling>>
        /\ contacted' \in {contacted, contacted + 1}
    BY <1>2 DEF ReadTarget, EndBatch, SendOne, Contact
  <2>2. reported <= contacted' /\ sync.sent <= contacted'
    <3>1. reported <= contacted /\ sync.sent <= contacted /\ sync.sent \in Nat
      BY <1>o, <1>t DEF Stands
    <3> QED
      BY <1>t, <2>1, <3>1
  <2> QED
    BY <1>o, <2>1, <2>2 DEF Stands
<1>3. ASSUME NEW s \in Sender, TakeBudget(s) PROVE Stands'
  <2>1. PICK t \in Nat : t = sender[s].target
    BY <1>t DEF SenderRecord
  <2>2. /\ UNCHANGED <<configVars, reported, mailVars, sync, monitor>>
        /\ \/ ceiling' = ceiling
           \/ /\ ceiling' = IF t > ceiling THEN t ELSE ceiling
              /\ early' = (early \/ (warmUp /\ t > Ramp[1]))
    BY <1>3, <2>1 DEF TakeBudget
  <2>3. ceiling' <= Ramp[1]
    <3>1. CASE ceiling' = ceiling
      BY <1>o, <3>1 DEF Stands
    <3>2. CASE /\ ceiling' = IF t > ceiling THEN t ELSE ceiling
               /\ early' = (early \/ (warmUp /\ t > Ramp[1]))
      <4>1. ~early' /\ warmUp /\ ceiling <= Ramp[1]
        BY <1>o DEF Stands, Orderly
      <4>2. ~(t > Ramp[1])
        BY <3>2, <4>1
      <4> QED
        BY <3>2, <4>1, <4>2, RampFacts
    <3> QED
      BY <2>2, <3>1, <3>2
  <2> QED
    BY <1>o, <2>2, <2>3 DEF Stands
<1>4. CASE SendApproved
  BY <1>4 DEF SendApproved, Orderly
<1>5. CASE FetchAnalytics
  BY <1>o, <1>t, <1>5 DEF FetchAnalytics, Stands, Orderly
<1>6. CASE StoreAnalytics
  BY <1>o, <1>t, <1>6 DEF StoreAnalytics, NoSync, Stands
<1>7. CASE Midnight
  <2>1. sync = NoSync
    BY <1>7 DEF Midnight, Orderly
  <2> QED
    BY <1>o, <1>7, <2>1, RampFacts DEF Midnight, NoSync, Stands
<1>8. CASE UNCHANGED vars
  BY <1>o, <1>8 DEF vars, Stands
<1> QED
  BY <1>1, <1>2, <1>3, <1>4, <1>5, <1>6, <1>7, <1>8 DEF Next, Checks, Sends

-----------------------------------------------------------------------------
(***************************************************************************)
(* The theorems                                                            *)
(***************************************************************************)

LEMMA Initially == Init => IInv
<1> SUFFICES ASSUME Init PROVE IInv
  OBVIOUS
<1>1. TypeOK
  <2>1. /\ target \in Nat /\ target <= MaxTarget /\ target >= Ramp[1]
        /\ warmUp \in BOOLEAN /\ day \in 1 .. Len(Ramp) + 1 /\ 0 \in 0 .. MaxSent
        /\ dates \in 0 .. MaxDate
    BY RampFacts DEF Init
  <2>2. sender \in [Sender -> SenderRecord]
    BY DEF Init, IdleSender, SenderRecord
  <2>3. monitor \in [Monitor -> CheckRecord]
    BY RampFacts DEF Init, IdleMonitor, CheckRecord
  <2>4. NoSync \in [at : {"idle", "store"}, sent : Nat]
    BY DEF NoSync
  <2>5. MailType
    <3>1. reported = 0 /\ contacted = 0 /\ total = 0 /\ dates = 0 /\ ceiling = 0
      BY DEF Init
    <3>2. /\ reported \in Nat /\ contacted \in Nat /\ contacted <= total /\ ceiling \in Nat
          /\ total \in 0 .. MaxSent
      BY <2>1, <3>1
    <3>3. /\ counts \in {"today", "total"} /\ sync = NoSync
          /\ blind \in BOOLEAN /\ early \in BOOLEAN
      BY DEF Init
    <3> QED
      BY <2>1, <2>2, <2>4, <3>2, <3>3 DEF MailType
  <2> QED
    BY <2>1, <2>3, <2>5 DEF TypeOK, MailType, SenderRecord, CheckRecord
<1>2. Ceilings
  BY DEF Init, Ceilings, Config, Knows, IdleMonitor
<1>3. Budgets
  BY DEF Init, Budgets, Sending, IdleSender
<1>4. Standing
  BY RampFacts DEF Init, Standing, Stands, IdleMonitor, NoSync
<1> QED
  BY <1>1, <1>2, <1>3, <1>4 DEF IInv

LEMMA Inductive == IInv /\ [Next]_vars => IInv'
BY CeilingStep, TypeStep, BudgetsStep, StandingStep DEF IInv

\* What the invariant says of the three properties.
LEMMA Gives == IInv => TypeOK /\ CeilingHolds /\ RampIsRespected /\ RampStandsStill
BY CeilingGives DEF IInv, Budgets, Standing, Orderly, Stands, CeilingHolds, RampStandsStill

THEOREM Invariance == Spec => []IInv
BY Initially, Inductive, PTL DEF Spec

\* monitor_deliverability and send_emails keep their records and the ceiling in
\* range (titan/deliverability.py), however many of them overlap.
THEOREM TypeCorrect == Spec => []TypeOK
BY Invariance, Gives, PTL

\* get_send_budget_today keeps a day's e-mails under the ceiling, as long as
\* each budget sees all of the day's e-mails.
THEOREM CeilingIsHeld == Spec => []CeilingHolds
BY Invariance, Gives, PTL

\* _enforce_warmup_volume keeps the ceiling on or under the ramp once the first
\* day is over, for any number of overlapping checks.
THEOREM RampRespected == Spec => []RampIsRespected
BY Invariance, Gives, PTL

\* _enforce_warmup_volume and _adjust_daily_ceiling never raise the ceiling while
\* the warm-up lasts, for any number of overlapping checks.
THEOREM CeilingFalls == Spec => CeilingOnlyFalls
<1>1. IInv /\ [Next]_vars => [warmUp => target' <= target]_vars
  BY FallStep DEF IInv
<1> QED
  BY <1>1, Invariance, PTL DEF Spec, CeilingOnlyFalls

\* _enforce_warmup_volume never leaves the second day while days are orderly.
THEOREM RampStalls == Spec => []RampStandsStill
BY Invariance, Gives, PTL
=============================================================================
