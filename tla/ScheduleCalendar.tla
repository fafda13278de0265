--------------------------- MODULE ScheduleCalendar ---------------------------
(***************************************************************************)
(* When a rule of the scheduler fires, in the zone of its owner: the next  *)
(* wall-clock occurrence of src/shared/schedule-time.ts and the first      *)
(* instant of a calendar date of src/shared/iana-timezone.ts.              *)
(*                                                                         *)
(* A zone has one offset before an instant and another from it on, which   *)
(* is what a change of the clocks or of a country's side of the date line  *)
(* is.  Instants count in slots of a day; weeks are shorter than seven     *)
(* days.                                                                   *)
(***************************************************************************)
EXTENDS Integers, FiniteSetsExt

CONSTANTS Zones,       \* set of [before, after, at]: offsets, and the instant they change
          DayLength,   \* slots of a day
          Week,        \* days of a week
          Horizon,     \* instants go up to this one
          MaxLate      \* slots a due rule waits for a tick that succeeds at most

VARIABLES
    zone,      \* the zone of the rule's owner
    rule,      \* [days: weekdays, time: slot]
    moment,    \* the present
    next,      \* next_fire_at, or Never while the rule is not stored
    from,      \* the instant next was computed after
    fired      \* local dates and times of the fires so far

vars == <<zone, rule, moment, next, from, fired>>

Never == -1000

-----------------------------------------------------------------------------
\* Intl.DateTimeFormat in a zone: the wall clock as slots since the epoch.
LocalIn(z, t) == t + IF t < z.at THEN z.before ELSE z.after
DateIn(z, t) == LocalIn(z, t) \div DayLength
TimeIn(z, t) == LocalIn(z, t) % DayLength
Weekday(date) == date % Week

\* Faulty form: the guess is corrected by the offset of the target only.
CorrectedFromTarget(z, target, guess) == target + (target - LocalIn(z, target))

\* The guess moves by as much as its wall clock misses the target, six times at most.
Corrected(z, target, guess) == guess + (target - LocalIn(z, guess))
Attempts == 6

\* The instant with the wall clock target, or Never.
InstantFor(z, target) ==
    LET guess[n \in 0 .. Attempts] ==
            IF n = 0 THEN target ELSE Corrected(z, target, guess[n - 1])
    IN  IF LocalIn(z, guess[Attempts]) = target THEN guess[Attempts] ELSE Never

\* Faulty form: the loop ends one date early.
OffsetsOfOneWeek == 0 .. Week - 1

\* The dates looked at: a week and the same weekday of the next.
Offsets == 0 .. Week

\* The candidates of a rule after an instant that lie in its future.
Candidates(z, r, after) ==
    LET today == DateIn(z, after)
        allowed == {date \in {today + offset : offset \in Offsets} : Weekday(date) \in r.days}
    IN  {date \in allowed : LET t == InstantFor(z, date * DayLength + r.time)
                            IN  t # Never /\ t > after}

NextDailyFireAt(z, r, after) ==
    LET dates == Candidates(z, r, after)
    IN  IF dates = {} THEN Never ELSE InstantFor(z, Min(dates) * DayLength + r.time)

-----------------------------------------------------------------------------
\* The search for the first instant of a date, between two days before it and two after.
StartOfDate(z, date) ==
    LET low == (date - 2) * DayLength
        high == (date + 2) * DayLength
        search[s \in (low .. high) \X (low .. high)] ==
            LET mid == (s[1] + s[2]) \div 2
            IN  IF s[1] >= s[2] THEN s[1]
                ELSE IF DateIn(z, mid) < date THEN search[<<mid + 1, s[2]>>]
                ELSE search[<<s[1], mid>>]
    IN  search[<<low, high>>]

-----------------------------------------------------------------------------
Init ==
    /\ zone \in Zones
    /\ rule \in [days : SUBSET (0 .. Week - 1) \ {{}}, time : 0 .. DayLength - 1]
    /\ moment = 0
    /\ next = Never /\ from = Never
    /\ fired = {}

\* The rule is saved; without a next occurrence nothing is stored.
Save ==
    /\ next = Never
    /\ LET at == NextDailyFireAt(zone, rule, moment)
       IN  /\ at # Never
           /\ next' = at
           /\ from' = moment
    /\ UNCHANGED <<zone, rule, moment, fired>>

\* A tick claims the due rule and moves it on; without a next occurrence the
\* transaction is taken back and the rule stays due.
Claim ==
    /\ next # Never /\ next <= moment
    /\ LET at == NextDailyFireAt(zone, rule, moment)
       IN  /\ at # Never
           /\ next' = at
           /\ from' = moment
    /\ fired' = fired \cup {<<next, DateIn(zone, next)>>}
    /\ UNCHANGED <<zone, rule, moment>>

\* Ticks come in time, unless they are failing.
Advance ==
    /\ moment < Horizon
    /\ moment < next + MaxLate \/ next = Never \/ NextDailyFireAt(zone, rule, moment) = Never
    /\ moment' = moment + 1
    /\ UNCHANGED <<zone, rule, next, from, fired>>

Next == Save \/ Claim \/ Advance

Spec == Init /\ [][Next]_vars

-----------------------------------------------------------------------------
TypeOK ==
    /\ zone \in Zones
    /\ rule \in [days : SUBSET (0 .. Week - 1), time : 0 .. DayLength - 1]
    /\ moment \in 0 .. Horizon
    /\ next \in Int /\ from \in Int
    /\ fired \subseteq Int \X Int

\* All instants of a wall clock, of which there are none or two at a change of the clocks.
Instants(target) ==
    {t \in {target - zone.before, target - zone.after} : LocalIn(zone, t) = target}

\* The instant that counts of a wall clock that comes twice: the first if the clocks are put
\* back only after UTC shows it, else the second.
Counted(target) ==
    {t \in Instants(target) : \A u \in Instants(target) :
                                 IF target < zone.at THEN t <= u ELSE u <= t}

\* The rule asks for a date, and the instant that counts of it lies between two others.
Missed(date, after, before) ==
    /\ Weekday(date) \in rule.days
    /\ \E t \in Counted(date * DayLength + rule.time) : after < t /\ t < before

\* What is fired next has the weekday and the time asked for, and no date from that of the start
\* on is passed over whose occurrence was still to come. Of a wall clock that comes twice one
\* instant is its occurrence and the other none: the second counts in zones ahead of UTC, and
\* the first in zones behind it, although nextDailyFireAt promises "the first allowed
\* wall-clock occurrence strictly after an instant", edges of DST apart.
FirstOccurrence ==
    next # Never =>
        /\ next > from
        /\ Weekday(DateIn(zone, next)) \in rule.days
        /\ TimeIn(zone, next) = rule.time
        /\ \A date \in DateIn(zone, from) .. DateIn(zone, next) : ~Missed(date, from, next)
        /\ \A t \in Instants(LocalIn(zone, next)) :
               /\ zone.before >= 0 /\ zone.after >= 0 => t <= next
               /\ zone.before <= 0 /\ zone.after <= 0 => next <= t

\* A rule has no next occurrence only when no date of the week and a day that
\* it allows has one: a wall clock that exists is found within six corrections.
FoundIfThere ==
    NextDailyFireAt(zone, rule, moment) = Never =>
        \A date \in DateIn(zone, moment) .. DateIn(zone, moment) + Week :
            ~Missed(date, moment, Horizon + moment + 10 * Week * DayLength)

\* A rule fires once on a date, the hour that comes twice included.
OnceADate == \A f, g \in fired : f[2] = g[2] => f = g

\* Where a date starts it has not been that date before, and unless the clocks
\* are put back it is the first such instant (startOfCalendarDateInIanaTimezone).
DatesStart ==
    \A date \in {DateIn(zone, moment) - 1, DateIn(zone, moment), DateIn(zone, moment) + 1} :
        LET start == StartOfDate(zone, date)
        IN  /\ DateIn(zone, start) >= date /\ DateIn(zone, start - 1) < date
            /\ zone.before <= zone.after =>
                   \A t \in (start - 3 * DayLength) .. start - 1 : DateIn(zone, t) < date

NextFireIsRight == FirstOccurrence /\ FoundIfThere /\ OnceADate /\ DatesStart

=============================================================================
