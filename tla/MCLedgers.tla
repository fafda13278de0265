------------------------------ MODULE MCLedgers ------------------------------
(***************************************************************************)
(* Small instances of the two ledgers that are worked off under locks and  *)
(* interruptions: the confirmations of task changes, decided by concurrent *)
(* requests, and the fires of the scheduler, run by ticks.  They share no  *)
(* state, so a behaviour takes steps of one of them only.                  *)
(***************************************************************************)
EXTENDS MCTaskConfirmation

CONSTANTS Schedules, Period, Limit, MaxClock, MaxSaves, MaxInterruptions

VARIABLES about, clock
VARIABLES schedules, fires, tick, edit, sent, receipts, armings, interruptions

\* Rule 1 is the final report, once, and the others are the evening touch of every day.
Touches == [s \in Schedules |-> IF s = 1 THEN "summary" ELSE "evening"]
TouchShots == [s \in Schedules |-> IF s = 1 THEN {"once"} ELSE {"daily"}]

S == INSTANCE Scheduler WITH now <- clock, MaxTime <- MaxClock, Role <- Touches,
         Shots <- TouchShots

ASSUME SchedulesAreSensible == S!Sensible

scheduleVars == <<clock, schedules, fires, tick, edit, sent, receipts, armings, interruptions>>

\* What a behaviour is not about stays as it is at first, with no task at all. No content of a
\* task differs from another but by its name: which one is there at first makes no difference.
LedgersInit ==
    /\ about \in {"tasks", "schedule"}
    /\ Init /\ S!Init
    /\ \A t \in TaskIds : tasks[t].content # b
    /\ about = "schedule" => \A t \in TaskIds : tasks[t] = NoTask

\* The employee switches off the evening touch only; the report is switched off by its own fire.
\* A rule that is switched off by both is in the instances of MCScheduler and MCServer.
ScheduleNext == S!Next /\ edit'.id # 1

LedgersNext ==
    \/ about = "tasks" /\ StillNext /\ UNCHANGED <<about, scheduleVars>>
    \/ about = "schedule" /\ ScheduleNext /\ UNCHANGED <<about, vars>>

LedgersSpec ==
    /\ LedgersInit /\ [][LedgersNext]_<<about, vars, scheduleVars>>
    /\ Fairness
    /\ WF_scheduleVars(about = "schedule" /\ S!TickStep)

\* No touch goes out on a day on which it, or what replaces it, is recorded as delivered.
RecordedTouchesStand == S!RecordedTouchesStand

\* Claimed fires do not wait for ever.
FiresAreSettled == S!FiresAreSettled

\* Due rules do not wait for ever.
DueIsClaimed == S!DueIsClaimed

=============================================================================
