---------------------------- MODULE ScheduleStores ----------------------------
(***************************************************************************)
(* The two stores of schedules and their fires: the maps in memory and the *)
(* tables process_schedules and schedule_fires.  Every call goes to both,  *)
(* one call after the other; what several pollers do at a time is the      *)
(* subject of Scheduler.  A text stands for the days, the action, the zone *)
(* and oneShot of a schedule.                                              *)
(***************************************************************************)
EXTENDS Integers, FiniteSets

CONSTANTS
    Owners, ScheduleIds, Texts, Times,  \* numbers, none of them 0
    Limits,                             \* limits of a claim
    MaxClock                            \* bound

VARIABLES
    memory,     \* [schedules, scheduleOwners, fires], with NoSchedule, Null, NoFire for no entry
    table,      \* [schedules, fires] by primary key
    clock

scheduleVars == <<memory, table, clock>>

Null == 0

Sensible ==
    /\ Owners \cup ScheduleIds \cup Texts \cup Times \subseteq Nat \ {0}
    /\ Limits \subseteq Nat \ {0} /\ MaxClock \in Nat

Instants == 0 .. MaxClock + 2

\* A day has two instants here; ScheduleCalendar has the days there are.
NextDailyFireAt(after, time) == IF (after + 1) % 2 = time % 2 THEN after + 1 ELSE after + 2

\* The callers pass the first instant of the time of day there is.
Input == [id : ScheduleIds, text : Texts, time : Times, enabled : BOOLEAN]
Schedule == [id : ScheduleIds, text : Texts, time : Times, enabled : BOOLEAN, next : Instants,
             owner : Owners, created : Nat, updated : Nat]
NoSchedule == [id |-> Null, text |-> Null, time |-> Null, enabled |-> FALSE, next |-> 0,
               owner |-> Null, created |-> 0, updated |-> 0]

Decided == {"succeeded", "failed"}
Fire == [id : ScheduleIds, due : Instants, text : Texts, owner : Owners,
         status : {"pending"} \cup Decided, created : Nat, completed : Nat]
NoFire == [id |-> Null, due |-> 0, text |-> Null, owner |-> Null,
           status |-> "none", created |-> 0, completed |-> 0]

Saved(u, input, created) ==
    [id |-> input.id, text |-> input.text, time |-> input.time, enabled |-> input.enabled,
     next |-> NextDailyFireAt(clock, input.time), owner |-> u, created |-> created, updated |-> clock]

Fired(s) == [id |-> s.id, due |-> s.next, text |-> s.text, owner |-> s.owner,
             status |-> "pending", created |-> clock, completed |-> 0]

Advanced(s) == [s EXCEPT !.next = NextDailyFireAt(clock, s.time), !.updated = clock]

Init ==
    /\ memory = [schedules |-> [k \in Owners \X ScheduleIds |-> NoSchedule],
                 scheduleOwners |-> [id \in ScheduleIds |-> Null],
                 fires |-> [k \in ScheduleIds \X Instants |-> NoFire]]
    /\ table = [schedules |-> [id \in ScheduleIds |-> NoSchedule],
                fires |-> [k \in ScheduleIds \X Instants |-> NoFire]]
    /\ clock = 0

-----------------------------------------------------------------------------
(* In memory                                                               *)

MemoryGet(u, id) == memory.schedules[<<u, id>>]

\* No schedule is the answer when the id is somebody else's.
MemorySave(u, input) ==
    LET owner == memory.scheduleOwners[input.id]
        existing == MemoryGet(u, input.id)
    IN  IF owner \notin {Null, u} THEN NoSchedule
        ELSE Saved(u, input, IF existing = NoSchedule THEN clock ELSE existing.created)

\* Left to right by timeOfDay, then by id: each with the number of those before it.
MemoryList(u) ==
    LET own == {s \in {memory.schedules[k] : k \in Owners \X ScheduleIds} : s.owner = u}
        Before(s, t) == s.time < t.time \/ (s.time = t.time /\ s.id < t.id)
    IN  {<<Cardinality({s \in own : Before(s, t)}), t>> : t \in own}

IsDue(s) == s.enabled /\ s.next <= clock

MemoryClaimed ==
    LET Due(k) == {s \in {memory.schedules[<<u, k[1]>>] : u \in Owners} : IsDue(s) /\ s.next = k[2]}
    IN  [schedules |-> [k \in Owners \X ScheduleIds |->
             IF IsDue(memory.schedules[k]) THEN Advanced(memory.schedules[k]) ELSE memory.schedules[k]],
         scheduleOwners |-> memory.scheduleOwners,
         fires |-> [k \in ScheduleIds \X Instants |->
             IF memory.fires[k] # NoFire \/ Due(k) = {} THEN memory.fires[k]
             ELSE Fired(CHOOSE s \in Due(k) : TRUE)]]

CompareFires(f, g) ==
    \/ f.created < g.created
    \/ f.created = g.created /\ f.id < g.id
    \/ f.created = g.created /\ f.id = g.id /\ f.due < g.due

MemoryPending(fires, limit) ==
    LET pending == {f \in {fires[k] : k \in ScheduleIds \X Instants} : f.status = "pending"}
        Place(f) == Cardinality({g \in pending : CompareFires(g, f)})
    IN  {<<Place(f), f>> : f \in {g \in pending : Place(g) < limit}}

MemoryListFires(u, id) ==
    LET own == {f \in {memory.fires[k] : k \in ScheduleIds \X Instants} :
                   f.owner = u /\ (id = Null \/ f.id = id)}
    IN  {<<Cardinality({g \in own : CompareFires(g, f)}), f>> : f \in own}

MemoryComplete(u, id, due, status) ==
    LET existing == memory.fires[<<id, due>>]
    IN  IF existing.owner # u THEN NoFire
        ELSE IF existing.status # "pending" THEN existing
        ELSE [existing EXCEPT !.status = status, !.completed = clock]

-----------------------------------------------------------------------------
(* process_schedules and schedule_fires                                    *)

RowGet(u, id) == IF table.schedules[id].owner = u THEN table.schedules[id] ELSE NoSchedule

\* INSERT ... ON CONFLICT (schedule_id) DO UPDATE ... WHERE user_id = EXCLUDED.user_id
RowSave(u, input) ==
    LET row == table.schedules[input.id]
    IN  IF row = NoSchedule THEN Saved(u, input, clock)
        ELSE IF row.owner = u THEN Saved(u, input, row.created)
        ELSE NoSchedule

\* ORDER BY time_of_day, schedule_id
RowList(u) ==
    LET own == {table.schedules[id] : id \in {i \in ScheduleIds : table.schedules[i].owner = u}}
        Before(s, t) == s.time < t.time \/ (s.time = t.time /\ s.id < t.id)
    IN  {<<Cardinality({s \in own : Before(s, t)}), t>> : t \in own}

\* WHERE enabled AND next_fire_at <= now; ON CONFLICT (schedule_id, scheduled_for) DO NOTHING
RowClaimed ==
    LET Claims(s) == s.enabled /\ s.next <= clock
    IN  [schedules |-> [id \in ScheduleIds |->
             IF Claims(table.schedules[id]) THEN Advanced(table.schedules[id]) ELSE table.schedules[id]],
         fires |-> [k \in ScheduleIds \X Instants |->
             IF /\ Claims(table.schedules[k[1]]) /\ table.schedules[k[1]].next = k[2]
                /\ table.fires[k] = NoFire
             THEN Fired(table.schedules[k[1]]) ELSE table.fires[k]]]

\* ORDER BY created_at, schedule_id, scheduled_for
Precedes(f, g) ==
    IF f.created # g.created THEN f.created < g.created
    ELSE IF f.id # g.id THEN f.id < g.id ELSE f.due < g.due

RowPending(fires, limit) ==
    LET pending == {fires[k] : k \in {j \in ScheduleIds \X Instants : fires[j].status = "pending"}}
        Place(f) == Cardinality({g \in pending : Precedes(g, f)})
    IN  {<<Place(f), f>> : f \in {g \in pending : Place(g) < limit}}

\* Of one schedule: ORDER BY created_at, scheduled_for
RowListFires(u, id) ==
    LET own == {table.fires[k] : k \in {j \in ScheduleIds \X Instants :
                   table.fires[j].owner = u /\ (id # Null => j[1] = id)}}
        Before(f, g) ==
            IF id = Null THEN Precedes(f, g)
            ELSE f.created < g.created \/ (f.created = g.created /\ f.due < g.due)
    IN  {<<Cardinality({g \in own : Before(g, f)}), f>> : f \in own}

\* UPDATE ... WHERE status = 'pending' RETURNING *, else the row as it is
RowComplete(u, id, due, status) ==
    LET row == table.fires[<<id, due>>]
    IN  IF row.owner = u /\ row.status = "pending"
        THEN [row EXCEPT !.status = status, !.completed = clock]
        ELSE IF row.owner = u THEN row ELSE NoFire

-----------------------------------------------------------------------------
(* The calls                                                               *)

Save(u, input) ==
    LET inMemory == MemorySave(u, input)
        row == RowSave(u, input)
    IN  /\ memory' = IF inMemory = NoSchedule THEN memory
                     ELSE [schedules |-> [memory.schedules EXCEPT ![<<u, input.id>>] = inMemory],
                           scheduleOwners |-> [memory.scheduleOwners EXCEPT ![input.id] = u],
                           fires |-> memory.fires]
        /\ table' = IF row = NoSchedule THEN table
                    ELSE [schedules |-> [table.schedules EXCEPT ![input.id] = row],
                          fires |-> table.fires]
        /\ UNCHANGED clock

\* The answer is MemoryPending or RowPending of the fires there are then.
ClaimDue == memory' = MemoryClaimed /\ table' = RowClaimed /\ UNCHANGED clock

Complete(u, id, due, status) ==
    LET inMemory == MemoryComplete(u, id, due, status)
        row == RowComplete(u, id, due, status)
    IN  /\ memory' = IF inMemory = NoFire THEN memory
                     ELSE [memory EXCEPT !.fires[<<id, due>>] = inMemory]
        /\ table' = IF row = NoFire THEN table ELSE [table EXCEPT !.fires[<<id, due>>] = row]
        /\ UNCHANGED clock

Tick == clock < MaxClock /\ clock' = clock + 1 /\ UNCHANGED <<memory, table>>

Next ==
    \/ \E u \in Owners, input \in Input : Save(u, input)
    \/ ClaimDue
    \/ \E u \in Owners, id \in ScheduleIds, due \in Instants, status \in Decided :
          Complete(u, id, due, status)
    \/ Tick

Spec == Init /\ [][Next]_scheduleVars

-----------------------------------------------------------------------------

TypeOK ==
    /\ memory \in [schedules : [Owners \X ScheduleIds -> Schedule \cup {NoSchedule}],
                   scheduleOwners : [ScheduleIds -> Owners \cup {Null}],
                   fires : [ScheduleIds \X Instants -> Fire \cup {NoFire}]]
    /\ table \in [schedules : [ScheduleIds -> Schedule \cup {NoSchedule}],
                  fires : [ScheduleIds \X Instants -> Fire \cup {NoFire}]]
    /\ clock \in 0 .. MaxClock

\* After any calls every further call is answered alike by the maps and by the tables.
Agree ==
    /\ \A u \in Owners :
          /\ \A input \in Input : MemorySave(u, input) = RowSave(u, input)
          /\ MemoryList(u) = RowList(u)
          /\ \A id \in ScheduleIds \cup {Null} : MemoryListFires(u, id) = RowListFires(u, id)
          /\ \A id \in ScheduleIds :
                /\ MemoryGet(u, id) = RowGet(u, id)
                /\ \A due \in Instants, status \in Decided :
                      MemoryComplete(u, id, due, status) = RowComplete(u, id, due, status)
    /\ \A limit \in Limits :
          MemoryPending(MemoryClaimed.fires, limit) = RowPending(RowClaimed.fires, limit)

=============================================================================
