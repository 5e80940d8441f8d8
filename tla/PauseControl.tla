---------------------------- MODULE PauseControl ----------------------------
(***************************************************************************)
(* Who stops and restarts the daemons that spend money.                    *)
(*                                                                         *)
(* Titan and ClawdBot look at a flag of their own in system_config before  *)
(* each cycle.  The flags are written by the Perseus daemon's              *)
(* _enforce_budget or, where the orchestrator replaces that daemon, by its *)
(* PerseusScheduler (through Titan's config_set), and by the operator's    *)
(* /pause and /resume in Hermes.  Every read and every set_config is a     *)
(* transaction of its own, so the writers interleave between any two.      *)
(***************************************************************************)
EXTENDS Naturals

CONSTANTS
  MaxCommand, \* bound: operator commands
  MaxMonth,   \* bound: month rollovers
  MaxFault    \* bound: statements that raise, crashes of Perseus

ASSUME PauseAssumption ==
  MaxCommand \in Nat /\ MaxMonth \in Nat /\ MaxFault \in Nat

VARIABLES
  guard,      \* the budget guard this installation runs: it never changes
  titanPaused, clawdbotPaused, manualPause,  \* system_config
  budget,     \* this month's spending against the cap
  perseus,    \* control point of _enforce_budget
  scheduler,  \* the budget the scheduler's tick has read
  hermes,     \* control point of the operator's command
  working,    \* daemons inside a cycle
  torn,       \* history: a writer was interrupted, or two were at it at once
  commands, months, faults

flags  == <<titanPaused, clawdbotPaused, manualPause>>
bounds == <<commands, months, faults>>
vars   == <<guard, flags, budget, perseus, scheduler, hermes, working, torn, bounds>>

Budget    == {"ok", "warning", "exceeded"}
PerseusPc == {"idle", "over", "pauseTitan", "pauseClawdbot",
              "under", "askManual", "resumeTitan", "resumeClawdbot"}
HermesPc  == {"idle", "pauseClawdbot", "pauseManual", "resumeClawdbot",
              "resumeManual"}
Worker    == {"titan", "clawdbot"}

Paused(d) == IF d = "titan" THEN titanPaused ELSE clawdbotPaused

Init ==
  /\ guard \in {"daemon", "scheduler"}
  /\ titanPaused = FALSE /\ clawdbotPaused = FALSE /\ manualPause = FALSE
  /\ budget = "ok"
  /\ perseus = "idle" /\ scheduler = "none" /\ hermes = "idle"
  /\ working = {}
  /\ torn = FALSE
  /\ commands = 0 /\ months = 0 /\ faults = 0

-----------------------------------------------------------------------------
(***************************************************************************)
(* Perseus: _enforce_budget, once per tick                                 *)
(***************************************************************************)

\* One statement of _enforce_budget; noting when Hermes is half way.
PerseusGoes(from, to) ==
  /\ perseus = from /\ perseus' = to
  /\ torn' = (torn \/ (to # "idle" /\ hermes # "idle"))
  /\ UNCHANGED <<guard, budget, scheduler, hermes, working, bounds>>

\* A wrong version of the next action: a budget that is fine again is not
\* noticed.
CheckBudgetExceededOnly ==
  /\ guard = "daemon" /\ budget = "exceeded"
  /\ PerseusGoes("idle", "over")
  /\ UNCHANGED flags

\* check_budget: above the alert threshold nothing is written.
CheckBudget ==
  /\ guard = "daemon" /\ budget # "warning"
  /\ PerseusGoes("idle", IF budget = "exceeded" THEN "over" ELSE "under")
  /\ UNCHANGED flags

\* Exceeded: only if titan_paused is not set yet, set both flags.
SeesPaused ==
  /\ PerseusGoes("over", IF titanPaused THEN "idle" ELSE "pauseTitan")
  /\ UNCHANGED flags

PauseTitan ==
  /\ PerseusGoes("pauseTitan", "pauseClawdbot")
  /\ titanPaused' = TRUE
  /\ UNCHANGED <<clawdbotPaused, manualPause>>

PauseClawdbot ==
  /\ PerseusGoes("pauseClawdbot", "idle")
  /\ clawdbotPaused' = TRUE
  /\ UNCHANGED <<titanPaused, manualPause>>

\* Budget fine: only if titan_paused is set and not by hand, clear both.
SeesResumable ==
  /\ PerseusGoes("under", IF titanPaused THEN "askManual" ELSE "idle")
  /\ UNCHANGED flags

\* A wrong version of the next action: titan_manual_pause is not looked at.
AskManualNever ==
  /\ PerseusGoes("askManual", "resumeTitan")
  /\ UNCHANGED flags

AskManual ==
  /\ PerseusGoes("askManual", IF manualPause THEN "idle" ELSE "resumeTitan")
  /\ UNCHANGED flags

\* A wrong version of the next action: ClawdBot is forgotten.
ResumeTitanOnly ==
  /\ PerseusGoes("resumeTitan", "idle")
  /\ titanPaused' = FALSE
  /\ UNCHANGED <<clawdbotPaused, manualPause>>

ResumeTitan ==
  /\ PerseusGoes("resumeTitan", "resumeClawdbot")
  /\ titanPaused' = FALSE
  /\ UNCHANGED <<clawdbotPaused, manualPause>>

ResumeClawdbot ==
  /\ PerseusGoes("resumeClawdbot", "idle")
  /\ clawdbotPaused' = FALSE
  /\ UNCHANGED <<titanPaused, manualPause>>

\* A statement raises (the except clause gives up until the next tick), or
\* the process dies and is started again.
PerseusStops ==
  /\ perseus # "idle" /\ perseus' = "idle"
  /\ faults < MaxFault /\ faults' = faults + 1
  /\ torn' = TRUE
  /\ UNCHANGED <<guard, flags, budget, scheduler, hermes, working, commands, months>>

(***************************************************************************)
(* The orchestrator's scheduler: assess, and later enforce                 *)
(***************************************************************************)

\* budget_status over A2A.
AssessState ==
  /\ guard = "scheduler" /\ scheduler = "none"
  /\ scheduler' = budget
  /\ UNCHANGED <<guard, flags, budget, perseus, hermes, working, torn, bounds>>

\* A wrong version of the next action: the alert threshold is tested before
\* the cap, so a budget that is exceeded only warns.
SchedulerWarnsFirst ==
  /\ scheduler # "none" /\ scheduler' = "none"
  /\ \/ scheduler = "ok" /\ titanPaused' = FALSE
     \/ UNCHANGED titanPaused
  /\ UNCHANGED <<guard, clawdbotPaused, manualPause, budget, perseus, hermes,
                 working, torn, bounds>>

\* config_set over A2A, for Titan only.  Nothing is written above the alert
\* threshold, nor at zero per cent (the fallback that is consulted then asks
\* BudgetGuard for a method it does not have).
SchedulerEnforces ==
  /\ scheduler # "none" /\ scheduler' = "none"
  /\ \/ scheduler = "exceeded" /\ titanPaused' = TRUE
     \/ scheduler = "ok" /\ titanPaused' = FALSE
     \/ scheduler # "exceeded" /\ UNCHANGED titanPaused
  /\ UNCHANGED <<guard, clawdbotPaused, manualPause, budget, perseus, hermes,
                 working, torn, bounds>>

\* budget_status or config_set fails; the exception is swallowed.
SchedulerCallFails ==
  /\ scheduler # "none" /\ scheduler' = "none"
  /\ faults < MaxFault /\ faults' = faults + 1
  /\ UNCHANGED <<guard, flags, budget, perseus, hermes, working, torn, commands, months>>

(***************************************************************************)
(* Hermes: /pause and /resume                                              *)
(***************************************************************************)

HermesGoes(from, to) ==
  /\ hermes = from /\ hermes' = to
  /\ torn' = (torn \/ (to # "idle" /\ perseus # "idle"))
  /\ UNCHANGED <<guard, budget, perseus, scheduler, working, months, faults>>

\* The first statement of cmd_pause ("paused" is TRUE) or cmd_resume.
Command(paused) ==
  /\ commands < MaxCommand /\ commands' = commands + 1
  /\ HermesGoes("idle", IF paused THEN "pauseClawdbot" ELSE "resumeClawdbot")
  /\ titanPaused' = paused
  /\ UNCHANGED <<clawdbotPaused, manualPause>>

SetClawdbot(paused) ==
  /\ IF paused THEN HermesGoes("pauseClawdbot", "pauseManual")
               ELSE HermesGoes("resumeClawdbot", "resumeManual")
  /\ clawdbotPaused' = paused
  /\ UNCHANGED <<titanPaused, manualPause, commands>>

SetManual(paused) ==
  /\ HermesGoes(IF paused THEN "pauseManual" ELSE "resumeManual", "idle")
  /\ manualPause' = paused
  /\ UNCHANGED <<titanPaused, clawdbotPaused, commands>>

\* A set_config raises, or Hermes dies: the command is left half done.
HermesStops ==
  /\ hermes # "idle" /\ hermes' = "idle"
  /\ faults < MaxFault /\ faults' = faults + 1
  /\ torn' = TRUE
  /\ UNCHANGED <<guard, flags, budget, perseus, scheduler, working, commands, months>>

(***************************************************************************)
(* Titan, ClawdBot and their spending                                      *)
(***************************************************************************)

\* The flag is read once, at the head of a cycle.
BeginCycle(d) ==
  /\ d \notin working /\ ~Paused(d)
  /\ working' = working \cup {d}
  /\ UNCHANGED <<guard, flags, budget, perseus, scheduler, hermes, torn, bounds>>

EndCycle(d) ==
  /\ d \in working
  /\ working' = working \ {d}
  /\ UNCHANGED <<guard, flags, budget, perseus, scheduler, hermes, torn, bounds>>

\* Spending grows (also through the recurring costs) ...
Spend ==
  /\ \/ budget = "ok" /\ budget' = "warning"
     \/ budget = "warning" /\ budget' = "exceeded"
  /\ UNCHANGED <<guard, flags, perseus, scheduler, hermes, working, torn, bounds>>

\* ... until the month is over.
MonthRolls ==
  /\ months < MaxMonth /\ months' = months + 1
  /\ budget' \in {"ok", "warning"}
  /\ UNCHANGED <<guard, flags, perseus, scheduler, hermes, working, torn, commands,
                 faults>>

-----------------------------------------------------------------------------
PerseusStep ==
  \/ CheckBudget \/ SeesPaused \/ PauseTitan \/ PauseClawdbot
  \/ SeesResumable \/ AskManual \/ ResumeTitan \/ ResumeClawdbot

SchedulerStep == AssessState \/ SchedulerEnforces

HermesStep == \E paused \in BOOLEAN : SetClawdbot(paused) \/ SetManual(paused)

Next ==
  \/ PerseusStep \/ PerseusStops
  \/ SchedulerStep \/ SchedulerCallFails
  \/ HermesStep \/ HermesStops \/ \E paused \in BOOLEAN : Command(paused)
  \/ \E d \in Worker : BeginCycle(d) \/ EndCycle(d)
  \/ Spend \/ MonthRolls

Spec == Init /\ [][Next]_vars

\* The guards tick, a command that was begun goes on, and cycles end.
\* Commands, spending, months and faults are not fair.
Fairness ==
  /\ WF_vars(PerseusStep) /\ WF_vars(SchedulerStep) /\ WF_vars(HermesStep)
  /\ \A d \in Worker : WF_vars(EndCycle(d))

FairSpec == Spec /\ Fairness

-----------------------------------------------------------------------------
(***************************************************************************)
(* Properties                                                              *)
(***************************************************************************)

\* Flags and control points are in range, and only a guard that runs acts.
TypeOK ==
  /\ guard \in {"daemon", "scheduler"}
  /\ titanPaused \in BOOLEAN /\ clawdbotPaused \in BOOLEAN /\ manualPause \in BOOLEAN
  /\ budget \in Budget
  /\ perseus \in PerseusPc /\ hermes \in HermesPc
  /\ scheduler \in Budget \cup {"none"}
  /\ working \subseteq Worker
  /\ torn \in BOOLEAN
  /\ commands \in 0 .. MaxCommand /\ months \in 0 .. MaxMonth
  /\ faults \in 0 .. MaxFault
  /\ perseus # "idle" => guard = "daemon"
  /\ scheduler # "none" => guard = "scheduler"

\* With Perseus' daemon as the guard Titan and ClawdBot are paused and resumed
\* together: between commands and enforcement their flags agree, unless a
\* writer was interrupted or met another one half way.
FlagsAgree ==
  guard = "daemon" /\ ~torn /\ perseus = "idle" /\ hermes = "idle"
    => titanPaused = clawdbotPaused

\* With the same guard a /pause that has been answered holds until /resume,
\* with the same proviso: month rollovers and budget checks do not lift it.
PauseIsHonoured ==
  guard = "daemon" /\ ~torn /\ hermes = "idle" /\ manualPause
    => titanPaused /\ clawdbotPaused

\* With the same guard a budget that stays exceeded stops both daemons for good,
\* and one that is fine again restarts both unless the operator paused them.
BudgetIsEnforced ==
  <>[](guard = "daemon" /\ ~torn =>
         /\ (budget = "exceeded" => titanPaused /\ clawdbotPaused /\ working = {})
         /\ (budget = "ok" /\ ~manualPause => ~titanPaused /\ ~clawdbotPaused))

\* With either guard Titan is stopped by a budget that stays exceeded whatever races or
\* failures went before: its flag is written at every tick that sees it clear.
ExceededStopsTitan ==
  <>[](budget = "exceeded" => titanPaused /\ "titan" \notin working)

\* "Perseus won't auto-unpause": the promise of /pause, where the scheduler is
\* the guard.
ManualPauseHolds ==
  guard = "scheduler" /\ hermes = "idle" /\ manualPause /\ faults = 0
    => titanPaused /\ clawdbotPaused

=============================================================================
