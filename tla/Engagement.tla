------------------------------ MODULE Engagement ------------------------------
(***************************************************************************)
(* Automatic reminders of participants who have gone silent.  A sweep      *)
(* reads all candidates at once, decides on each by the clock of that      *)
(* moment, sends the message and only then records it.  An hourly timer    *)
(* starts sweeps whether or not the last one has ended.                    *)
(*                                                                         *)
(* A day has DayLength instants, its last one the window in which messages *)
(* may go out.  All participants share a time zone.                        *)
(***************************************************************************)
EXTENDS Naturals, Sequences, SequencesExt, FiniteSets

CONSTANTS
    Employees,
    Sweeps,         \* sweeps running at one time
    DayLength,      \* instants of a day
    MaxReminders,   \* maximumAutomaticEngagementReminders
    MaxNow,         \* bound: the clock stops here
    MaxMishaps      \* bound: failures after a delivery, restarts, overlapping sweeps

VARIABLES
    clock,
    participants,   \* their touches and counters in minutka_private.participants
    sweeps,         \* the sweeps in flight
    reminded,       \* history: the instants of the reminders each participant got
    mishaps

engagementVars == <<clock, participants, sweeps, reminded, mishaps>>

-----------------------------------------------------------------------------

DayOf(instant) == instant \div DayLength
Never == MaxNow + 1   \* no reminder was recorded yet

Participant == [touched : Nat, sent : Nat, last : 0..Never]
Candidate == [employee : Employees, touched : Nat, sent : Nat, last : 0..Never]

\* todo is what is left of the candidates read, at the instant the head was decided on.
Sweep == [phase : {"idle", "next", "delivering", "recording"}, todo : Seq(Candidate), at : 0..MaxNow]
Idle == [phase |-> "idle", todo |-> <<>>, at |-> 0]

Goes(s, sweep) == sweeps' = [sweeps EXCEPT ![s] = sweep]
Rest(s) == IF Len(sweeps[s].todo) = 1 THEN Idle
           ELSE [phase |-> "next", todo |-> Tail(sweeps[s].todo), at |-> 0]
Target(s) == Head(sweeps[s].todo)

\* Days 0 to 4 of a week are Monday to Friday.
MissedWorkingDays(touched, today) ==
    Cardinality({d \in (touched + 1)..(today - 1) : d % 7 < 5})

\* participantEngagement
Lagging(candidate) == MissedWorkingDays(candidate.touched, DayOf(clock)) = 2

RemindedRecently(candidate) == candidate.last # Never /\ clock - candidate.last < DayLength
InLocalWindow == clock % DayLength = DayLength - 1

\* Fault: the limit is compared the wrong way round at its boundary.
DecidesOneMore(candidate) ==
    /\ Lagging(candidate)
    /\ candidate.sent <= MaxReminders
    /\ ~RemindedRecently(candidate)
    /\ InLocalWindow

\* engagementReminderDecision
Decides(candidate) ==
    /\ Lagging(candidate)
    /\ candidate.sent < MaxReminders
    /\ ~RemindedRecently(candidate)
    /\ InLocalWindow

Init ==
    /\ clock = 0
    /\ participants = [e \in Employees |-> [touched |-> 0, sent |-> 0, last |-> Never]]
    /\ sweeps = [s \in Sweeps |-> Idle]
    /\ reminded = [e \in Employees |-> <<>>]
    /\ mishaps = 0

-----------------------------------------------------------------------------

Mishap == mishaps < MaxMishaps /\ mishaps' = mishaps + 1

\* listEngagementReminderCandidates; the timer does not look at a sweep in flight.
StartSweep(s) ==
    /\ sweeps[s] = Idle /\ Employees # {}
    /\ IF \A t \in Sweeps : sweeps[t] = Idle THEN mishaps' = mishaps ELSE Mishap
    /\ \E order \in SetToSeqs(Employees) :
           Goes(s, [Idle EXCEPT !.phase = "next", !.todo = [i \in DOMAIN order |->
               [employee |-> order[i], touched |-> participants[order[i]].touched,
                sent |-> participants[order[i]].sent, last |-> participants[order[i]].last]]])
    /\ UNCHANGED <<clock, participants, reminded>>

Consider(s) ==
    /\ sweeps[s].phase = "next"
    /\ Goes(s, IF Decides(Target(s)) THEN [sweeps[s] EXCEPT !.phase = "delivering", !.at = clock]
               ELSE Rest(s))
    /\ UNCHANGED <<clock, participants, reminded, mishaps>>

Deliver(s) ==
    /\ sweeps[s].phase = "delivering"
    /\ Goes(s, [sweeps[s] EXCEPT !.phase = "recording"])
    /\ reminded' = [reminded EXCEPT ![Target(s).employee] = Append(@, sweeps[s].at)]
    /\ UNCHANGED <<clock, participants, mishaps>>

\* No delivery session, or an error before the message went out.
NotDelivered(s) ==
    /\ sweeps[s].phase = "delivering"
    /\ Goes(s, Rest(s))
    /\ UNCHANGED <<clock, participants, reminded, mishaps>>

\* recordEngagementReminderSent
Record(s) ==
    /\ sweeps[s].phase = "recording"
    /\ participants' = [participants EXCEPT ![Target(s).employee] =
                           [touched |-> @.touched, sent |-> @.sent + 1, last |-> sweeps[s].at]]
    /\ Goes(s, Rest(s))
    /\ UNCHANGED <<clock, reminded, mishaps>>

\* An error after the message went out, or in recording it: logged, and on to the next.
NotRecorded(s) ==
    /\ sweeps[s].phase = "recording"
    /\ Mishap
    /\ Goes(s, Rest(s))
    /\ UNCHANGED <<clock, participants, reminded>>

Restart ==
    /\ \E s \in Sweeps : sweeps[s].phase = "recording"
    /\ Mishap
    /\ sweeps' = [s \in Sweeps |-> Idle]
    /\ UNCHANGED <<clock, participants, reminded>>

\* chat: recordParticipantTouch, for turns the employee starts.
Touch(e) ==
    /\ participants' = [participants EXCEPT ![e].touched = DayOf(clock)]
    /\ participants' # participants
    /\ UNCHANGED <<clock, sweeps, reminded, mishaps>>

Pass ==
    /\ clock < MaxNow
    /\ clock' = clock + 1
    /\ UNCHANGED <<participants, sweeps, reminded, mishaps>>

Next ==
    \/ \E s \in Sweeps :
           \/ StartSweep(s) \/ Consider(s) \/ Deliver(s) \/ NotDelivered(s)
           \/ Record(s) \/ NotRecorded(s)
    \/ Restart
    \/ \E e \in Employees : Touch(e)
    \/ Pass

Spec == Init /\ [][Next]_engagementVars

-----------------------------------------------------------------------------
(* Properties                                                              *)

TypeOK ==
    /\ clock \in 0..MaxNow
    /\ participants \in [Employees -> Participant]
    /\ sweeps \in [Sweeps -> Sweep]
    /\ reminded \in [Employees -> Seq(0..MaxNow)]
    /\ mishaps \in 0..MaxMishaps

\* However long a sweep takes over the candidates it has read, a participant gets no more than
\* the reminders of the program, each decided a day after the last, plus one for every reminder
\* that was sent and not recorded and for every sweep that ran into another.
RemindersAreLimited ==
    \A e \in Employees :
        /\ Len(reminded[e]) <= MaxReminders + mishaps
        /\ Cardinality({i \in 2..Len(reminded[e]) : reminded[e][i] - reminded[e][i - 1] < DayLength})
               <= mishaps

=============================================================================
