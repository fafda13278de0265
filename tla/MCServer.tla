------------------------------- MODULE MCServer -------------------------------
(***************************************************************************)
(* Small instances of what the server keeps and does beside the turns: the *)
(* rolling summary, one rule of the scheduler, the reminders, what the     *)
(* report of a group is built from, the calendar the rules follow, and     *)
(* what a turn puts before the model.  They share no state, so a behaviour *)
(* takes steps of one of them only.                                        *)
(***************************************************************************)
EXTENDS ThreadCompaction, Integers, TLC

CONSTANTS server, oneoff
CONSTANTS Schedules, Period, Limit, MaxClock, MaxSaves, MaxInterruptions
CONSTANTS Participants, Sweeps, DayLength, MaxReminders, MaxNow, MaxMishaps
CONSTANTS MaxRows
CONSTANTS Clocks, Changes, DaySlots, WeekDays, Horizon, MaxLate

VARIABLES about, clock
VARIABLES schedules, fires, tick, edit, sent, receipts, armings, interruptions
VARIABLES participants, sweeps, reminded, mishaps
VARIABLES recorded, directory
VARIABLES zone, rule, moment, next, from, fired
VARIABLES budget, tree, left, documents, degraded, reads, thread, phase, again, sections, failure

S == INSTANCE Scheduler WITH now <- clock, MaxTime <- MaxClock,
         Role <- [s \in Schedules |-> "plain"], Shots <- [s \in Schedules |-> {"daily", "once"}]
R == INSTANCE Engagement WITH Employees <- Participants

\* Two people share two routines of one role, one of them felt; one works alone in another role.
Work(subject, role, entry, label, size, friction, energy) ==
    [subject |-> subject, role |-> role, date |-> subject + role, entry |-> entry, label |-> label,
     size |-> size, friction |-> friction, energy |-> energy]

SomeRows ==
    {Work(s, 1, e, 0, 15, "none", f) : s \in 1 .. 2, e \in 1 .. 2, f \in {"none", "fatigue"}}
    \cup {Work(1, 1, 1, 0, 4, "context_switching", "none"), Work(1, 1, 3, 1, 30, "none", "overload"),
          Work(2, 1, 0, 0, 8, "none", "neutral"), Work(1, 2, 1, 0, 0, "other", "fatigue")}

Full == <<1, 1>> :> [category |-> 1, step |-> 2] @@ <<1, 2>> :> [category |-> 2, step |-> 0]
        @@ <<2, 1>> :> [category |-> 1, step |-> 1]
Shorter == <<1, 2>> :> [category |-> 2, step |-> 3]

C == INSTANCE CompanyReport WITH Rows <- SomeRows, Directories <- {Full, Shorter},
         Policy <- [signalSubjects |-> 2, confirmedSubjects |-> 2, confirmedObservations |-> 3,
                    confirmedDates |-> 2, clientMinimum |-> 2, top |-> 1, friction |-> 1, steps |-> 1]

\* A clock counts the slots from one a day behind. It is put forward or back once, by a slot on
\* the same side of the clock that counts, or by as much as a day from one side to the other.
SomeZones ==
    {[before |-> c[1] - DaySlots, after |-> c[2] - DaySlots, at |-> t] :
        c \in {p \in Clocks \X Clocks : p[1] - p[2] \in {1, -1, DaySlots, -DaySlots}}, t \in Changes}

K == INSTANCE ScheduleCalendar WITH Zones <- SomeZones, DayLength <- DaySlots, Week <- WeekDays

\* Budgets in characters of a world where every fixed word has one: one character below the
\* least that is accepted, that one, the least in which the guaranteed sources find room with
\* four separators between them, and two with higher ceilings.
Ceilings(context, index, recs, hist) ==
    [id \in {"base_instructions", "agent_manual", "profile", "context", "context_index",
             "records", "thread_summary", "history"} |->
        CASE id = "context" -> context [] id = "context_index" -> index
          [] id = "records" -> recs [] id = "history" -> hist
          [] id = "thread_summary" -> 2 [] OTHER -> 1]

Budget(total, ceilings) ==
    [total |-> total, reserve |-> 1, ceiling |-> ceilings, documents |-> 2, documentSize |-> 5,
     records |-> 4, recordSize |-> 2, turns |-> 3, turnSize |-> 3]

SomeBudgets ==
    {Budget(22, Ceilings(9, 4, 6, 5)), Budget(26, Ceilings(9, 4, 9, 8)),
     Budget(20, Ceilings(7, 2, 4, 4)), Budget(16, Ceilings(7, 2, 4, 4)),
     Budget(15, Ceilings(7, 2, 4, 4))}

Document(core, size, octets, kept) == [core |-> core, size |-> size, bytes |-> octets, kept |-> kept]
SomeDocuments ==
    {Document(TRUE, 1, 1, TRUE), Document(TRUE, 3, 12, TRUE), Document(FALSE, 1, 4, TRUE),
     Document(FALSE, 3, 3, TRUE), Document(FALSE, 6, 6, TRUE), Document(FALSE, 6, 24, TRUE),
     Document(FALSE, 3, 3, FALSE)}

\* At most three documents, the core ones first.
SomeTrees ==
    {t \in UNION {[1 .. n -> SomeDocuments] : n \in 0 .. 3} :
        \A i, j \in DOMAIN t : i < j /\ t[j].core => t[i].core}

SomeLists ==
    {[tasks |-> l[1], ideas |-> l[2], size |-> l[3]] :
        l \in {<<3, 3, 1>>, <<3, 1, 3>>, <<0, 3, 2>>, <<0, 0, 1>>}}

B == INSTANCE ContextAssembly WITH
         Budgets <- SomeBudgets, Trees <- SomeTrees, Lists <- SomeLists,
         Folders <- {<<2, 2, 1, 1>>, <<5, 3, 2, 1>>},
         Threads <- {<<>>, <<1, 1, 1, 1>>, <<4, 1>>, <<1, 6>>},
         Others <- {[base_instructions |-> 1, agent_manual |-> 1, profile |-> 1,
                     thread_summary |-> 2, input |-> i] : i \in {1, 2}},
         Words <- [head |-> 1, notice |-> 1, fragment |-> 1, marker |-> 1, separator |-> 1,
                   input |-> 2, markup |-> 1, cut |-> 3, fewer |-> 2, bytes |-> 12]

\* Schedules have numbers, days have a length, and the clock of the model stops.
ScheduleSensible ==
    /\ Schedules \subseteq Nat /\ Period \in Nat \ {0} /\ Limit \in Nat \ {0} /\ MaxClock \in Nat

\* Days and weeks have a length, no clock is more than a day from the one that counts, and the
\* clocks of a zone are changed at some instant.
CalendarSensible ==
    /\ DaySlots \in Nat \ {0} /\ WeekDays \in Nat \ {0} /\ Horizon \in Nat
    /\ Clocks \subseteq 0 .. 2 * DaySlots /\ Changes \subseteq Int

\* Participants and sweeps are finitely many, days have a length and the clock stops.
RemindersSensible ==
    /\ IsFiniteSet(Participants) /\ IsFiniteSet(Sweeps)
    /\ DayLength \in Nat \ {0} /\ MaxReminders \in Nat /\ MaxNow \in Nat /\ MaxMishaps \in Nat

ASSUME ConstantsAreSensible == ScheduleSensible /\ CalendarSensible /\ RemindersSensible

scheduleVars == <<schedules, fires, tick, edit, sent, receipts, armings, interruptions>>
reminderVars == <<participants, sweeps, reminded, mishaps>>
reportVars == <<recorded, directory>>
calendarVars == <<zone, rule, moment, next, from, fired>>
contextVars == <<budget, tree, left, documents, degraded, reads, thread, phase, again, sections, failure>>
all == <<about, clock, vars, scheduleVars, reminderVars, reportVars, calendarVars, contextVars>>

AllInit ==
    /\ about \in {"thread", "schedule", "reminders", "report", "calendar", "context"}
    /\ Init /\ S!Init /\ R!Init
    /\ IF about = "report" THEN C!Init ELSE recorded = <<>> /\ directory = <<>>
    /\ IF about = "calendar" THEN K!Init
       ELSE /\ zone = <<>> /\ rule = <<>> /\ moment = 0
            /\ next = K!Never /\ from = K!Never /\ fired = {}
    /\ IF about = "context" THEN B!Init
       ELSE /\ budget = <<>> /\ tree = <<>> /\ left = <<>> /\ documents = <<>> /\ degraded = 0
            /\ reads = 0 /\ thread = <<>> /\ phase = "reading" /\ again = FALSE
            /\ sections = <<>> /\ failure = "none"

AllNext ==
    \/ /\ about = "thread" /\ Next
       /\ UNCHANGED <<about, clock, scheduleVars, reminderVars, reportVars, calendarVars, contextVars>>
    \/ /\ about = "schedule" /\ S!Next
       /\ UNCHANGED <<about, vars, reminderVars, reportVars, calendarVars, contextVars>>
    \/ /\ about = "reminders" /\ R!Next
       /\ UNCHANGED <<about, vars, scheduleVars, reportVars, calendarVars, contextVars>>
    \/ /\ about = "report" /\ C!Next
       /\ UNCHANGED <<about, clock, vars, scheduleVars, reminderVars, calendarVars, contextVars>>
    \/ /\ about = "calendar" /\ K!Next
       /\ UNCHANGED <<about, clock, vars, scheduleVars, reminderVars, reportVars, contextVars>>
    \/ /\ about = "context" /\ B!Next
       /\ UNCHANGED <<about, clock, vars, scheduleVars, reminderVars, reportVars, calendarVars>>

AllSpec == AllInit /\ [][AllNext]_all
    /\ \A p \in Processes : WF_vars(about = "thread" /\ JobStep(p))

\* The variables of each module have their types.
ServerTypeOK ==
    /\ TypeOK
    /\ about = "schedule" => S!TypeOK
    /\ about = "reminders" => R!TypeOK
    /\ about = "report" => C!TypeOK
    /\ about = "calendar" => K!TypeOK
    /\ about = "context" => B!TypeOK

\* The next occurrence of a rule follows its setting and the clocks of its owner.
NextFireFollowsRule ==
    /\ about = "schedule" => S!NextFireFollowsRule
    /\ about = "calendar" => K!NextFireIsRight

\* A message of the scheduler goes out twice only after an interruption, and reminders stay
\* within the limits of the program.
SendsAreLimited == S!RepeatsAreInterruptions /\ R!RemindersAreLimited

\* The report of a group says what adds up and nothing about how one person felt.
ReportIsSound == about = "report" => C!ReportIsSound

\* What is put before the model fits its budget, and says what it leaves out.
ContextFits == about = "context" => B!ContextFits

=============================================================================
