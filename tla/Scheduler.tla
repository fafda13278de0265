----------------------------- MODULE Scheduler -----------------------------
(***************************************************************************)
(* The scheduler of daily touches and reminders.                           *)
(*                                                                         *)
(* A rule of process_schedules names a daily occurrence and the instant of *)
(* the next one.  A tick claims the due rules in one transaction: it adds  *)
(* a pending row to the ledger schedule_fires for every occurrence, moves  *)
(* the rules on, and takes the oldest pending fires.  It then runs them    *)
(* one by one: deliver to Telegram, switch a one-shot rule off, complete   *)
(* the fire.  The process may die between any two of these steps; the next *)
(* start takes up every fire still pending.  The employee and the operator *)
(* write the rules meanwhile.                                              *)
(***************************************************************************)
EXTENDS Naturals, FiniteSets

CONSTANTS
    Schedules,         \* ids of rules; their order breaks ties in the ledger
    Role,              \* what a rule delivers: see Roles
    Shots,             \* the recurrences each rule can be saved with
    Period,            \* instants of one day
    Limit,             \* claimDue: fires taken by one tick
    MaxTime,           \* bound: the clock stops here
    MaxSaves,          \* bound: times a rule is saved by a person
    MaxInterruptions   \* bound: crashes and ticks the database aborts

\* "evening" and "summary" are the touches the retrospective policy knows.
Roles == {"plain", "evening", "summary"}

\* What any sensible instance satisfies.
Sensible ==
    /\ Schedules \subseteq Nat /\ Role \in [Schedules -> Roles]
    /\ Shots \in [Schedules -> SUBSET {"daily", "once"}]
    /\ Period \in Nat \ {0} /\ Limit \in Nat \ {0}
    /\ MaxTime \in Nat /\ MaxSaves \in Nat /\ MaxInterruptions \in Nat

VARIABLES
    now,           \* the wall clock
    schedules,     \* minutka_private.process_schedules
    fires,         \* minutka_private.schedule_fires
    tick,          \* the tick in flight (tickInFlight), lost in a crash
    edit,          \* a disableSchedule of the employee in flight, lost in a crash
    sent,          \* messages the employee got for each fire
    receipts,      \* recorded deliveries of touches, with their local day
    armings,       \* history: times each rule was saved by a person
    interruptions  \* history: crashes and aborted ticks

vars == <<now, schedules, fires, tick, edit, sent, receipts, armings, interruptions>>

-----------------------------------------------------------------------------
(* Records                                                                 *)

\* Time of day, timezone and weekdays together select one instant of every day.
Slots == 0..(Period - 1)
Day(t) == t \div Period

Rule == [state: {"absent", "enabled", "disabled"}, slot: Slots, shot: {"daily", "once"},
         next: Nat]
NoRule == [state |-> "absent", slot |-> 0, shot |-> "daily", next |-> 0]

\* The key (schedule_id, scheduled_for); only occurrences in the past are claimed.
Fires == Schedules \X (0..MaxTime)
Fire == [status: {"none", "pending", "succeeded", "failed"}, shot: {"daily", "once"},
         created: Nat]
NoFire == [status |-> "none", shot |-> "daily", created |-> 0]

Tick == [phase: {"idle", "claiming", "running", "sending", "disarm", "disarming", "completing",
                 "failing"},
         at: Nat, due: SUBSET [id: Schedules, rule: Rule], batch: SUBSET Fires, rule: Rule]
NoTick == [phase |-> "idle", at |-> 0, due |-> {}, batch |-> {}, rule |-> NoRule]

Edit == [phase: {"idle", "read"}, id: Schedules \cup {0}, rule: Rule]
NoEdit == [phase |-> "idle", id |-> 0, rule |-> NoRule]

Init ==
    /\ now = 0
    /\ schedules = [s \in Schedules |-> NoRule]
    /\ fires = [f \in Fires |-> NoFire]
    /\ tick = NoTick
    /\ edit = NoEdit
    /\ sent = [f \in Fires |-> 0]
    /\ receipts = {}
    /\ armings = [s \in Schedules |-> 0]
    /\ interruptions = 0

-----------------------------------------------------------------------------
(* Rules                                                                   *)

\* The first occurrence strictly after an instant.
NextFireAt(after, slot) ==
    LET today == Day(after) * Period + slot
    IN  IF today > after THEN today ELSE today + Period

\* saveDailySchedule of the employee, the operator arming a final report, and the
\* provisioning of a rule that is not there yet: the row is overwritten.
SaveDaily(s, slot, shot) ==
    /\ armings[s] < MaxSaves
    /\ schedules' = [schedules EXCEPT ![s] =
           [state |-> "enabled", slot |-> slot, shot |-> shot, next |-> NextFireAt(now, slot)]]
    /\ armings' = [armings EXCEPT ![s] = @ + 1]
    /\ UNCHANGED <<now, fires, tick, edit, sent, receipts, interruptions>>

\* disableSchedule reads the row and saves all of it back, switched off.
DisableRead(s) ==
    /\ edit.phase = "idle" /\ schedules[s].state # "absent"
    /\ edit' = [phase |-> "read", id |-> s, rule |-> schedules[s]]
    /\ UNCHANGED <<now, schedules, fires, tick, sent, receipts, armings, interruptions>>

SwitchedOff(rule) == [rule EXCEPT !.state = "disabled"]

DisableSave ==
    /\ edit.phase = "read"
    /\ schedules' = [schedules EXCEPT ![edit.id] = SwitchedOff(edit.rule)]
    /\ edit' = NoEdit
    /\ UNCHANGED <<now, fires, tick, sent, receipts, armings, interruptions>>

-----------------------------------------------------------------------------
(* Claiming                                                                *)

Due == {s \in Schedules : schedules[s].state = "enabled" /\ schedules[s].next <= now}

\* BEGIN and the SELECT of the due rules, which locks none of them.
ClaimRead ==
    /\ tick.phase = "idle"
    /\ tick' = [NoTick EXCEPT !.phase = "claiming", !.at = now,
                              !.due = {[id |-> s, rule |-> schedules[s]] : s \in Due}]
    /\ UNCHANGED <<now, schedules, fires, edit, sent, receipts, armings, interruptions>>

\* INSERT ... ON CONFLICT (schedule_id, scheduled_for) DO NOTHING, for each of them.
Claimed ==
    [f \in Fires |->
        IF fires[f].status # "none" THEN fires[f]
        ELSE LET mine == {d \in tick.due : f = <<d.id, d.rule.next>>}
             IN  IF mine = {} THEN NoFire
                 ELSE [status |-> "pending", created |-> tick.at,
                       shot |-> (CHOOSE d \in mine : TRUE).rule.shot]]

\* Fault: the UPDATE of the claim does not compare next_fire_at.
MovedOnBlindly ==
    [s \in Schedules |->
        LET mine == {d \in tick.due : d.id = s}
        IN  IF mine = {} THEN schedules[s]
            ELSE [schedules[s] EXCEPT !.next =
                     NextFireAt(tick.at, (CHOOSE d \in mine : TRUE).rule.slot)]]
\* Fault: a due rule stays due.
NotMovedOn == schedules

\* UPDATE ... WHERE next_fire_at is still the claimed occurrence.
MovedOn ==
    [s \in Schedules |->
        LET mine == {d \in tick.due : d.id = s /\ schedules[s].next = d.rule.next}
        IN  IF mine = {} THEN schedules[s]
            ELSE [schedules[s] EXCEPT !.next =
                     NextFireAt(tick.at, (CHOOSE d \in mine : TRUE).rule.slot)]]

\* ORDER BY created_at, schedule_id, scheduled_for
Before(table, f, g) ==
    \/ table[f].created < table[g].created
    \/ /\ table[f].created = table[g].created
       /\ f[1] < g[1] \/ (f[1] = g[1] /\ f[2] < g[2])

\* Fault: failed fires are taken up again.
OldestUnfinished(table) ==
    LET pending == {f \in Fires : table[f].status \in {"pending", "failed"}}
    IN  {f \in pending : Cardinality({g \in pending : Before(table, g, f)}) < Limit}

Oldest(table) ==
    LET pending == {f \in Fires : table[f].status = "pending"}
    IN  {f \in pending : Cardinality({g \in pending : Before(table, g, f)}) < Limit}

ClaimCommit ==
    /\ tick.phase = "claiming"
    /\ fires' = Claimed
    /\ schedules' = MovedOn
    /\ tick' = [NoTick EXCEPT !.phase = "running", !.batch = Oldest(Claimed)]
    /\ UNCHANGED <<now, edit, sent, receipts, armings, interruptions>>

-----------------------------------------------------------------------------
(* Running                                                                 *)

\* The fire the tick is about to run or is running.
Current == CHOOSE f \in tick.batch : \A g \in tick.batch \ {f} : Before(fires, f, g)

TouchSent(f, day) == <<f, day>> \in receipts

\* Fault: the policy does not look at the summaries of the day.
SuppressedRepeat(f) == Role[f[1]] # "plain" /\ TouchSent(f, Day(now))

\* createRetrospectiveTouchPolicy: this occurrence was delivered today already, or a
\* summary of today replaces the evening touch.
Suppressed(f) ==
    \/ Role[f[1]] # "plain" /\ TouchSent(f, Day(now))
    \/ /\ Role[f[1]] = "evening"
       /\ \E g \in Fires : Role[g[1]] = "summary" /\ TouchSent(g, Day(now))

Running == tick.phase = "running" /\ tick.batch # {}

\* A one-shot rule is switched off before its fire is completed.
AfterRun(f) == IF fires[f].shot = "once" THEN "disarm" ELSE "completing"

Suppress ==
    /\ Running /\ Suppressed(Current)
    /\ tick' = [tick EXCEPT !.phase = AfterRun(Current)]
    /\ UNCHANGED <<now, schedules, fires, edit, sent, receipts, armings, interruptions>>

\* The policy lets the fire pass. It answers from what it read by then; the turn of the model
\* and the sending come later.
Pass ==
    /\ Running /\ ~Suppressed(Current)
    /\ tick' = [tick EXCEPT !.phase = "sending"]
    /\ UNCHANGED <<now, schedules, fires, edit, sent, receipts, armings, interruptions>>

\* The message arrives; the receipt of a touch is recorded or lost.
Deliver ==
    /\ tick.phase = "sending"
    /\ sent' = [sent EXCEPT ![Current] = @ + 1]
    /\ \/ receipts' = receipts
       \/ /\ Role[Current[1]] # "plain"
          /\ receipts' = receipts \cup {<<Current, Day(now)>>}
    /\ tick' = [tick EXCEPT !.phase = AfterRun(Current)]
    /\ UNCHANGED <<now, schedules, fires, edit, armings, interruptions>>

AfterError == "failing"

\* The policy or the run throws: no session, an agent error, Telegram down; or it throws
\* although (a part of) the message arrived.
RunFails ==
    /\ Running \/ tick.phase = "sending"
    /\ \/ sent' = sent
       \/ tick.phase = "sending" /\ sent' = [sent EXCEPT ![Current] = @ + 1]
    /\ tick' = [tick EXCEPT !.phase = AfterError]
    /\ UNCHANGED <<now, schedules, fires, edit, receipts, armings, interruptions>>

\* disableSchedule: the rule is read; one that is off already stays as it is.
DisarmRead ==
    /\ tick.phase = "disarm"
    /\ LET rule == schedules[Current[1]]
       IN  tick' = IF rule.state = "enabled"
                   THEN [tick EXCEPT !.phase = "disarming", !.rule = rule]
                   ELSE [tick EXCEPT !.phase = "completing"]
    /\ UNCHANGED <<now, schedules, fires, edit, sent, receipts, armings, interruptions>>

\* ... and saved back, all of it.
DisarmSave ==
    /\ tick.phase = "disarming"
    /\ schedules' = [schedules EXCEPT ![Current[1]] = SwitchedOff(tick.rule)]
    /\ tick' = [tick EXCEPT !.phase = "completing", !.rule = NoRule]
    /\ UNCHANGED <<now, fires, edit, sent, receipts, armings, interruptions>>

DisarmFails ==
    /\ tick.phase \in {"disarm", "disarming"}
    /\ tick' = [tick EXCEPT !.phase = "failing", !.rule = NoRule]
    /\ UNCHANGED <<now, schedules, fires, edit, sent, receipts, armings, interruptions>>

\* Fault: a failure is not recorded.
CompletedIfServed(f, status) ==
    IF fires[f].status = "pending" /\ status = "succeeded"
    THEN [fires EXCEPT ![f].status = status] ELSE fires

\* UPDATE ... WHERE status = 'pending'
Completed(f, status) ==
    IF fires[f].status = "pending" THEN [fires EXCEPT ![f].status = status] ELSE fires

NextFire == [tick EXCEPT !.phase = "running", !.batch = @ \ {Current}]

Complete ==
    /\ tick.phase = "completing"
    /\ fires' = Completed(Current, "succeeded")
    /\ tick' = NextFire
    /\ UNCHANGED <<now, schedules, edit, sent, receipts, armings, interruptions>>

\* The answer of the database is an error, and the UPDATE is committed or not.
CompleteFails ==
    /\ tick.phase = "completing"
    /\ \/ fires' = fires
       \/ fires' = Completed(Current, "succeeded")
    /\ tick' = [tick EXCEPT !.phase = "failing"]
    /\ UNCHANGED <<now, schedules, edit, sent, receipts, armings, interruptions>>

CompleteFailed ==
    /\ tick.phase = "failing"
    /\ fires' = Completed(Current, "failed")
    /\ tick' = NextFire
    /\ UNCHANGED <<now, schedules, edit, sent, receipts, armings, interruptions>>

TickEnds ==
    /\ tick.phase = "running" /\ tick.batch = {}
    /\ tick' = NoTick
    /\ UNCHANGED <<now, schedules, fires, edit, sent, receipts, armings, interruptions>>

-----------------------------------------------------------------------------
(* Failures and time                                                       *)

\* The claim is rolled back, or recording a failure fails too (committed or not): the
\* rest of the batch waits for the next tick.
TickAborts ==
    /\ interruptions < MaxInterruptions
    /\ tick.phase \in {"claiming", "failing"}
    /\ \/ fires' = fires
       \/ tick.phase = "failing" /\ fires' = Completed(Current, "failed")
    /\ tick' = NoTick
    /\ interruptions' = interruptions + 1
    /\ UNCHANGED <<now, schedules, edit, sent, receipts, armings>>

Crash ==
    /\ interruptions < MaxInterruptions
    /\ tick # NoTick \/ edit # NoEdit
    /\ tick' = NoTick /\ edit' = NoEdit
    /\ interruptions' = interruptions + 1
    /\ UNCHANGED <<now, schedules, fires, sent, receipts, armings>>

Advance ==
    /\ now < MaxTime
    /\ now' = now + 1
    /\ UNCHANGED <<schedules, fires, tick, edit, sent, receipts, armings, interruptions>>

\* The interval callback and the continuations of its promise.
TickStep ==
    \/ ClaimRead \/ ClaimCommit \/ Suppress \/ Pass \/ Deliver \/ RunFails
    \/ DisarmRead \/ DisarmSave \/ DisarmFails
    \/ Complete \/ CompleteFails \/ CompleteFailed \/ TickEnds

Next ==
    \/ \E s \in Schedules, slot \in Slots : \E shot \in Shots[s] : SaveDaily(s, slot, shot)
    \/ \E s \in Schedules : DisableRead(s)
    \/ DisableSave
    \/ TickStep
    \/ TickAborts \/ Crash \/ Advance

Spec == Init /\ [][Next]_vars

\* The interval of one minute fires for ever and what a tick awaits comes back
\* (the runner has its own timeouts).
FairSpec == Spec /\ WF_vars(TickStep)

-----------------------------------------------------------------------------
(* Properties                                                              *)

TypeOK ==
    /\ now \in 0..MaxTime
    /\ schedules \in [Schedules -> Rule]
    /\ fires \in [Fires -> Fire]
    /\ tick \in Tick
    /\ edit \in Edit
    /\ sent \in [Fires -> Nat]
    /\ receipts \subseteq Fires \X Nat
    /\ armings \in [Schedules -> Nat]
    /\ interruptions \in Nat

\* Whoever writes a rule, and whatever it was when the claim read it, its next occurrence
\* is one of its current setting: a rule moved to another hour is never fired at the old one.
NextFireFollowsRule ==
    \A s \in Schedules : schedules[s].state # "absent" =>
        schedules[s].next % Period = schedules[s].slot

\* The employee gets an occurrence twice only if a crash or an aborted tick came between
\* the message and its completion, and once more for each: the ledger never repeats a
\* fire of its own accord.
RepeatsAreInterruptions == \A f \in Fires : sent[f] <= 1 + interruptions

\* Steps pass between the policy's reading of the record and the message, midnight among them:
\* still no touch goes out on a day on which the record has it already, and no evening touch on
\* a day on which it has a summary, since nobody else records a touch meanwhile.
RecordedTouchesStand == [][\A f \in Fires : Role[f[1]] # "plain" /\ sent'[f] > sent[f] =>
    /\ ~TouchSent(f, Day(now))
    /\ Role[f[1]] = "evening" =>
           ~ \E g \in Fires : Role[g[1]] = "summary" /\ TouchSent(g, Day(now))]_vars

Pending(f) == fires[f].status = "pending"

\* While no new ones become due all claimed fires are completed, whatever interrupts the ticks
\* and however many wait: none of them stays behind.
FiresAreSettled == (\E f \in Fires : Pending(f)) ~> (\A f \in Fires : ~Pending(f))

\* A due rule is moved on by a claim unless somebody switches it off first.
DueIsClaimed == \A s \in Schedules : s \in Due ~> s \notin Due

\* A one-time rule "switches itself off after a successful fire"
\* (docs/runbooks/end-of-cycle.md): one arming, one report.
OneShotFiresOnce == \A s \in Schedules :
    Cardinality({f \in Fires : f[1] = s /\ fires[f].shot = "once" /\ fires[f].status = "succeeded"})
        <= armings[s]

=============================================================================
