------------------------- MODULE PauseControlProofs -------------------------
(***************************************************************************)
(* Proofs about PauseControl, for any number of commands, months and       *)
(* faults.  The two safety properties hold where Perseus' daemon is the    *)
(* budget guard; the scheduler, the other guard, is known to break both.   *)
(***************************************************************************)
EXTENDS PauseControl, TLAPS

\* What each control point of a writer knows about the flags while nobody
\* else is writing: this is what makes the last write of each one right.
PerseusKnows ==
  /\ perseus \in {"idle", "over", "under", "askManual", "pauseTitan", "resumeTitan"}
       /\ hermes = "idle" => titanPaused = clawdbotPaused
  /\ perseus \in {"pauseTitan", "pauseClawdbot", "resumeTitan", "resumeClawdbot"}
       => ~manualPause
  /\ perseus = "pauseTitan" => ~titanPaused
  /\ perseus = "pauseClawdbot" => titanPaused
  /\ perseus = "resumeClawdbot" => ~titanPaused

HermesKnows ==
  /\ hermes \in {"pauseClawdbot", "pauseManual"} => titanPaused
  /\ hermes = "pauseManual" => clawdbotPaused
  /\ hermes \in {"resumeClawdbot", "resumeManual"} => ~titanPaused
  /\ hermes = "resumeManual" => ~clawdbotPaused

OneWriter == perseus = "idle" \/ hermes = "idle"

\* The inductive invariant.  FlagsAgree and PauseIsHonoured are not inductive
\* by themselves: they say nothing about a writer that is half way.
IInv ==
  /\ TypeOK
  /\ guard = "daemon" /\ ~torn => OneWriter /\ PerseusKnows /\ HermesKnows /\ PauseIsHonoured

\* The flags and control points are in range at the start.
LEMMA InitType == Init => TypeOK
<1> SUFFICES ASSUME Init PROVE TypeOK
  OBVIOUS
<1>1. working \subseteq Worker
  BY DEF Init
<1>2. commands \in 0 .. MaxCommand /\ months \in 0 .. MaxMonth /\ faults \in 0 .. MaxFault
  BY PauseAssumption DEF Init
<1> QED
  BY <1>1, <1>2 DEF Init, TypeOK, Budget, PerseusPc, HermesPc

\* Every step keeps the flags and control points in range, whichever guard runs.
LEMMA TypeStep == TypeOK /\ [Next]_vars => TypeOK'
<1> SUFFICES ASSUME TypeOK, [Next]_vars PROVE TypeOK'
  OBVIOUS
<1> USE PauseAssumption DEF TypeOK, flags, bounds, Budget, PerseusPc, HermesPc
<1>1. CASE PerseusStep
  BY <1>1 DEF PerseusStep, PerseusGoes, CheckBudget, SeesPaused, PauseTitan,
     PauseClawdbot, SeesResumable, AskManual, ResumeTitan, ResumeClawdbot
<1>2. CASE PerseusStops
  BY <1>2 DEF PerseusStops
<1>3. CASE SchedulerStep \/ SchedulerCallFails
  <2>1. CASE AssessState
    BY <2>1 DEF AssessState
  <2>2. CASE SchedulerEnforces
    BY <2>2 DEF SchedulerEnforces
  <2>3. CASE SchedulerCallFails
    BY <2>3 DEF SchedulerCallFails
  <2> QED
    BY <1>3, <2>1, <2>2, <2>3 DEF SchedulerStep
<1>4. CASE HermesStep
  BY <1>4 DEF HermesStep, HermesGoes, SetClawdbot, SetManual
<1>5. CASE HermesStops
  BY <1>5 DEF HermesStops
<1>6. ASSUME NEW paused \in BOOLEAN, Command(paused) PROVE TypeOK'
  BY <1>6 DEF Command, HermesGoes
<1>7. ASSUME NEW d \in Worker, BeginCycle(d) \/ EndCycle(d) PROVE TypeOK'
  <2>1. working' \subseteq Worker
    BY <1>7 DEF BeginCycle, EndCycle
  <2> QED
    BY <1>7, <2>1 DEF BeginCycle, EndCycle
<1>8. CASE Spend \/ MonthRolls
  BY <1>8 DEF Spend, MonthRolls
<1>9. CASE UNCHANGED vars
  BY <1>9 DEF vars
<1> QED
  BY <1>1, <1>2, <1>3, <1>4, <1>5, <1>6, <1>7, <1>8, <1>9 DEF Next

\* The flags and control points stay in range in every behaviour, whichever
\* of Perseus' daemon and the orchestrator's scheduler is the guard.
THEOREM TypeCorrect == Spec => []TypeOK
<1> QED
  BY InitType, TypeStep, PTL DEF Spec

-----------------------------------------------------------------------------
\* No step exchanges the guard.
LEMMA GuardStays == [Next]_vars => guard' = guard
<1> SUFFICES ASSUME [Next]_vars PROVE guard' = guard
  OBVIOUS
<1>1. CASE PerseusStep \/ PerseusStops
  BY <1>1 DEF PerseusStep, PerseusGoes, CheckBudget, SeesPaused, PauseTitan,
     PauseClawdbot, SeesResumable, AskManual, ResumeTitan, ResumeClawdbot, PerseusStops
<1>2. CASE SchedulerStep \/ SchedulerCallFails
  BY <1>2 DEF SchedulerStep, AssessState, SchedulerEnforces, SchedulerCallFails
<1>3. CASE HermesStep \/ HermesStops \/ \E paused \in BOOLEAN : Command(paused)
  BY <1>3 DEF HermesStep, HermesGoes, SetClawdbot, SetManual, HermesStops, Command
<1>4. CASE \/ \E d \in Worker : BeginCycle(d) \/ EndCycle(d)
           \/ Spend \/ MonthRolls \/ UNCHANGED vars
  BY <1>4 DEF BeginCycle, EndCycle, Spend, MonthRolls, vars
<1> QED
  BY <1>1, <1>2, <1>3, <1>4 DEF Next

\* Every step keeps what the writers know, when Perseus' daemon is the guard.
LEMMA KnowledgeStep == IInv /\ [Next]_vars => IInv'
<1> SUFFICES ASSUME IInv, [Next]_vars PROVE IInv'
  OBVIOUS
<1>t. TypeOK /\ TypeOK'
  BY TypeStep DEF IInv
<1> DEFINE Known == OneWriter /\ PerseusKnows /\ HermesKnows /\ PauseIsHonoured
<1> SUFFICES ASSUME guard' = "daemon", ~torn' PROVE Known'
  BY <1>t DEF IInv
<1>g. guard = "daemon"
  BY GuardStays
<1>k. ~torn => Known
  BY <1>g DEF IInv
<1> HIDE DEF Known
<1>1. CASE PerseusStep
  <2> USE DEF PerseusGoes, Known, OneWriter, PerseusKnows, HermesKnows, PauseIsHonoured, TypeOK
  <2>1. CASE CheckBudget
    BY <1>t, <1>k, <2>1 DEF CheckBudget, flags
  <2>2. CASE SeesPaused
    BY <1>t, <1>k, <2>2 DEF SeesPaused, flags
  <2>3. CASE PauseTitan
    BY <1>t, <1>k, <2>3 DEF PauseTitan
  <2>4. CASE PauseClawdbot
    BY <1>t, <1>k, <2>4 DEF PauseClawdbot
  <2>5. CASE SeesResumable
    BY <1>t, <1>k, <2>5 DEF SeesResumable, flags
  <2>6. CASE AskManual
    BY <1>t, <1>k, <2>6 DEF AskManual, flags
  <2>7. CASE ResumeTitan
    BY <1>t, <1>k, <2>7 DEF ResumeTitan
  <2>8. CASE ResumeClawdbot
    BY <1>t, <1>k, <2>8 DEF ResumeClawdbot
  <2> QED
    BY <1>1, <2>1, <2>2, <2>3, <2>4, <2>5, <2>6, <2>7, <2>8 DEF PerseusStep
<1>2. CASE PerseusStops \/ HermesStops
  BY <1>2 DEF PerseusStops, HermesStops
<1>3. CASE SchedulerStep \/ SchedulerCallFails
  BY <1>t, <1>g, <1>3 DEF SchedulerStep, AssessState, SchedulerEnforces,
     SchedulerCallFails, TypeOK
<1>4. ASSUME NEW paused \in BOOLEAN, SetClawdbot(paused) PROVE Known'
  BY <1>t, <1>k, <1>4 DEF SetClawdbot, HermesGoes, Known, OneWriter, PerseusKnows,
     HermesKnows, PauseIsHonoured, TypeOK
<1>5. ASSUME NEW paused \in BOOLEAN, SetManual(paused) PROVE Known'
  BY <1>t, <1>k, <1>5 DEF SetManual, HermesGoes, Known, OneWriter, PerseusKnows,
     HermesKnows, PauseIsHonoured, TypeOK
<1>6. ASSUME NEW paused \in BOOLEAN, Command(paused) PROVE Known'
  BY <1>t, <1>k, <1>6 DEF Command, HermesGoes, Known, OneWriter, PerseusKnows,
     HermesKnows, PauseIsHonoured, TypeOK
<1>7. CASE \/ \E d \in Worker : BeginCycle(d) \/ EndCycle(d)
           \/ Spend \/ MonthRolls \/ UNCHANGED vars
  BY <1>k, <1>7 DEF BeginCycle, EndCycle, Spend, MonthRolls, vars, flags, bounds,
     Known, OneWriter, PerseusKnows, HermesKnows, PauseIsHonoured
<1> QED
  BY <1>1, <1>2, <1>3, <1>4, <1>5, <1>6, <1>7 DEF Next, HermesStep

\* The inductive invariant holds in every state of every behaviour.
LEMMA Invariance == Spec => []IInv
<1>1. Init => IInv
  BY InitType DEF Init, IInv, OneWriter, PerseusKnows, HermesKnows, PauseIsHonoured
<1> QED
  BY <1>1, KnowledgeStep, PTL DEF Spec

\* With Perseus' daemon as the guard Titan and ClawdBot are paused and resumed
\* together: between _enforce_budget
\* and the operator's commands their flags agree, unless one of these was
\* interrupted or met the other half way.
THEOREM PausedTogether == Spec => []FlagsAgree
<1>1. IInv => FlagsAgree
  BY DEF IInv, FlagsAgree, PerseusKnows
<1> QED
  BY <1>1, Invariance, PTL

\* With the same guard an answered /pause holds until /resume through any number of month
\* rollovers and budget checks, with the same proviso.
THEOREM PauseHolds == Spec => []PauseIsHonoured
<1>1. IInv => PauseIsHonoured
  BY DEF IInv, PauseIsHonoured
<1> QED
  BY <1>1, Invariance, PTL
=============================================================================
