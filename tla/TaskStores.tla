------------------------------ MODULE TaskStores ------------------------------
(***************************************************************************)
(* The two stores of tasks: the maps in memory that the executable specs   *)
(* run on, and minutka_private.tasks.  Every call goes to both, one call   *)
(* after the other; what the transactions of concurrent calls do is the    *)
(* subject of TaskConfirmation.  A text stands for title, project, type    *)
(* and status, which are all required and treated alike.                   *)
(***************************************************************************)
EXTENDS Integers, FiniteSets

CONSTANTS
    Owners, TaskIds, Ideas, Texts, Dates,   \* numbers, none of them 0
    Limits,                                 \* limits of a list, or 0
    MaxRevision, MaxClock                   \* bounds

VARIABLES
    memory,     \* [tasks, taskOwners, originIds], with NoTask or Null where there is no entry
    table,      \* minutka_private.tasks by primary key, NoTask where there is no row
    clock       \* the clock of both

taskVars == <<memory, table, clock>>

Null == 0
Kept == -1

Sensible ==
    /\ Owners \cup TaskIds \cup Ideas \cup Texts \cup Dates \subseteq Nat \ {0}
    /\ Limits \subseteq Nat /\ MaxRevision \in Nat /\ MaxClock \in Nat

Input == [id : TaskIds, text : Texts, due : Dates \cup {Null}, idea : Ideas \cup {Null}]
Task == [id : TaskIds, text : Texts, due : Dates \cup {Null}, idea : Ideas \cup {Null},
         owner : Owners, created : Nat, updated : Nat, revision : Nat \ {0}]
NoTask == [id |-> Null, text |-> Null, due |-> Null, idea |-> Null,
           owner |-> Null, created |-> 0, updated |-> 0, revision |-> 0]

\* A patch keeps the text or the date, or clears the date; it does not keep both.
Patches == [text : Texts \cup {Null}, due : Dates \cup {Null, Kept}] \ {[text |-> Null, due |-> Kept]}
Filters == [text : Texts \cup {Null}, until : Dates \cup {Null}, since : Dates \cup {Null}]

Answer(outcome, task) == [outcome |-> outcome, task |-> task]

New(u, input) ==
    [id |-> input.id, text |-> input.text, due |-> input.due, idea |-> input.idea,
     owner |-> u, created |-> clock, updated |-> clock, revision |-> 1]

Patched(task, patch) ==
    [task EXCEPT !.text = IF patch.text = Null THEN task.text ELSE patch.text,
                 !.due = IF patch.due = Kept THEN task.due ELSE patch.due,
                 !.updated = clock, !.revision = task.revision + 1]

Init ==
    /\ memory = [tasks |-> [k \in Owners \X TaskIds |-> NoTask],
                 taskOwners |-> [id \in TaskIds |-> Null],
                 originIds |-> [k \in Owners \X Ideas |-> Null]]
    /\ table = [id \in TaskIds |-> NoTask]
    /\ clock = 0

-----------------------------------------------------------------------------
(* In memory                                                               *)

SameCreateIntent(task, input) ==
    task.id = input.id /\ task.text = input.text /\ task.due = input.due /\ task.idea = input.idea

SamePatch(task, patch) ==
    /\ patch.text # Null => task.text = patch.text
    /\ patch.due # Kept => task.due = patch.due

MemoryGet(u, id) == memory.tasks[<<u, id>>]

MemoryByOrigin(u, idea) ==
    IF memory.originIds[<<u, idea>>] = Null THEN NoTask
    ELSE MemoryGet(u, memory.originIds[<<u, idea>>])

Meets(task, input) ==
    IF SameCreateIntent(task, input) THEN Answer("unchanged", task) ELSE Answer("conflict", task)

MemoryCreate(u, input) ==
    LET owner == memory.taskOwners[input.id]
    IN  IF owner = u THEN Meets(MemoryGet(u, input.id), input)
        ELSE IF owner # Null THEN Answer("conflict", NoTask)
        ELSE IF input.idea # Null /\ MemoryByOrigin(u, input.idea) # NoTask
        THEN Meets(MemoryByOrigin(u, input.idea), input)
        ELSE Answer("created", New(u, input))

\* Fault: a revision that was read long ago is good enough.
MemoryUpdateLate(u, id, expected, patch) ==
    LET task == MemoryGet(u, id)
    IN  IF task = NoTask THEN Answer("not_found", NoTask)
        ELSE IF task.revision < expected THEN Answer("conflict", task)
        ELSE IF SamePatch(task, patch) THEN Answer("unchanged", task)
        ELSE Answer("updated", Patched(task, patch))

MemoryUpdate(u, id, expected, patch) ==
    LET task == MemoryGet(u, id)
    IN  IF task = NoTask THEN Answer("not_found", NoTask)
        ELSE IF task.revision # expected THEN Answer("conflict", task)
        ELSE IF SamePatch(task, patch) THEN Answer("unchanged", task)
        ELSE Answer("updated", Patched(task, patch))

MemoryDelete(u, id, expected) ==
    LET task == MemoryGet(u, id)
    IN  IF task = NoTask THEN Answer("not_found", NoTask)
        ELSE IF task.revision # expected THEN Answer("conflict", task)
        ELSE Answer("deleted", task)

MatchesFilter(task, filter) ==
    /\ filter.text = Null \/ task.text = filter.text
    /\ filter.until = Null \/ (task.due # Null /\ task.due <= filter.until)
    /\ filter.since = Null \/ (task.due # Null /\ task.due >= filter.since)

CompareCreatedAt(s, t) == s.created < t.created \/ (s.created = t.created /\ s.id < t.id)

CompareDueDate(s, t) ==
    IF s.due = Null /\ t.due # Null THEN FALSE
    ELSE IF s.due # Null /\ t.due = Null THEN TRUE
    ELSE s.due < t.due \/ (s.due = t.due /\ CompareCreatedAt(s, t))

\* A list as its elements, each with the number of those before it.
MemoryList(u, filter, byDue, limit) ==
    LET own == {t \in {memory.tasks[k] : k \in Owners \X TaskIds} :
                   t.owner = u /\ MatchesFilter(t, filter)}
        Place(t) == Cardinality({s \in own : IF byDue THEN CompareDueDate(s, t)
                                             ELSE CompareCreatedAt(s, t)})
    IN  {<<Place(t), t>> : t \in {s \in own : limit = 0 \/ Place(s) < limit}}

-----------------------------------------------------------------------------
(* minutka_private.tasks                                                   *)

RowGet(u, id) == IF table[id].owner = u THEN table[id] ELSE NoTask

\* UNIQUE (user_id, origin_idea_id), where NULL is equal to nothing
RowByOrigin(u, idea) ==
    LET found == {id \in TaskIds : table[id].owner = u /\ table[id].idea = idea}
    IN  IF idea = Null \/ found = {} THEN NoTask ELSE table[CHOOSE id \in found : TRUE]

\* ON CONFLICT DO NOTHING
Vacant(u, input) == table[input.id] = NoTask /\ RowByOrigin(u, input.idea) = NoTask

FindCreateConflict(u, input) ==
    IF table[input.id] # NoTask THEN table[input.id] ELSE RowByOrigin(u, input.idea)

RowCreate(u, input) ==
    LET existing == FindCreateConflict(u, input)
    IN  IF Vacant(u, input) THEN Answer("created", New(u, input))
        ELSE IF existing.owner # u THEN Answer("conflict", NoTask)
        ELSE Meets(existing, input)

RowUpdate(u, id, expected, patch) ==
    LET current == RowGet(u, id)
    IN  IF current = NoTask THEN Answer("not_found", NoTask)
        ELSE IF current.revision # expected THEN Answer("conflict", current)
        ELSE IF SamePatch(current, patch) THEN Answer("unchanged", current)
        ELSE Answer("updated", Patched(current, patch))

\* DELETE ... WHERE revision = $3 RETURNING *, else the row as it is.
RowDelete(u, id, expected) ==
    IF table[id].owner = u /\ table[id].revision = expected THEN Answer("deleted", table[id])
    ELSE IF RowGet(u, id) # NoTask THEN Answer("conflict", RowGet(u, id))
    ELSE Answer("not_found", NoTask)

\* NULL is neither before nor after a date.
Selected(t, filter) ==
    /\ filter.text # Null => t.text = filter.text
    /\ filter.until # Null => t.due # Null /\ t.due <= filter.until
    /\ filter.since # Null => t.due # Null /\ t.due >= filter.since

\* ORDER BY due_date ASC NULLS LAST, created_at ASC, task_id ASC
Precedes(byDue, s, t) ==
    LET tied == ~byDue \/ s.due = t.due
    IN  \/ byDue /\ s.due # Null /\ (t.due = Null \/ s.due < t.due)
        \/ tied /\ s.created < t.created
        \/ tied /\ s.created = t.created /\ s.id < t.id

RowList(u, filter, byDue, limit) ==
    LET own == {t \in {table[id] : id \in TaskIds} : t.owner = u /\ Selected(t, filter)}
        Place(t) == Cardinality({s \in own : Precedes(byDue, s, t)})
    IN  {<<Place(t), t>> : t \in {s \in own : limit = 0 \/ Place(s) < limit}}

-----------------------------------------------------------------------------
(* The calls                                                               *)

Create(u, input) ==
    LET id == input.id
    IN  /\ memory' = IF MemoryCreate(u, input).outcome # "created" THEN memory
                     ELSE [tasks |-> [memory.tasks EXCEPT ![<<u, id>>] = New(u, input)],
                           taskOwners |-> [memory.taskOwners EXCEPT ![id] = u],
                           originIds |-> IF input.idea = Null THEN memory.originIds
                                         ELSE [memory.originIds EXCEPT ![<<u, input.idea>>] = id]]
        /\ table' = IF RowCreate(u, input).outcome # "created" THEN table
                    ELSE [table EXCEPT ![id] = New(u, input)]
        /\ UNCHANGED clock

Update(u, id, expected, patch) ==
    LET inMemory == MemoryUpdate(u, id, expected, patch)
        row == RowUpdate(u, id, expected, patch)
    IN  /\ expected < MaxRevision
        /\ memory' = IF inMemory.outcome # "updated" THEN memory
                     ELSE [memory EXCEPT !.tasks[<<u, id>>] = inMemory.task]
        /\ table' = IF row.outcome # "updated" THEN table ELSE [table EXCEPT ![id] = row.task]
        /\ UNCHANGED clock

Delete(u, id, expected) ==
    LET inMemory == MemoryDelete(u, id, expected)
        idea == inMemory.task.idea
    IN  /\ memory' = IF inMemory.outcome # "deleted" THEN memory
                     ELSE [tasks |-> [memory.tasks EXCEPT ![<<u, id>>] = NoTask],
                           taskOwners |-> [memory.taskOwners EXCEPT ![id] = Null],
                           originIds |-> IF idea = Null THEN memory.originIds
                                         ELSE [memory.originIds EXCEPT ![<<u, idea>>] = Null]]
        /\ table' = IF RowDelete(u, id, expected).outcome # "deleted" THEN table
                    ELSE [table EXCEPT ![id] = NoTask]
        /\ UNCHANGED clock

Tick == clock < MaxClock /\ clock' = clock + 1 /\ UNCHANGED <<memory, table>>

Next ==
    \/ \E u \in Owners, input \in Input : Create(u, input)
    \/ \E u \in Owners, id \in TaskIds, expected \in 1 .. MaxRevision :
          \/ \E patch \in Patches : Update(u, id, expected, patch)
          \/ Delete(u, id, expected)
    \/ Tick

Spec == Init /\ [][Next]_taskVars

-----------------------------------------------------------------------------

TypeOK ==
    /\ memory \in [tasks : [Owners \X TaskIds -> Task \cup {NoTask}],
                   taskOwners : [TaskIds -> Owners \cup {Null}],
                   originIds : [Owners \X Ideas -> TaskIds \cup {Null}]]
    /\ table \in [TaskIds -> Task \cup {NoTask}]
    /\ clock \in 0 .. MaxClock

\* After any calls every further call is answered alike by the maps and by the table.
Agree ==
    /\ \A u \in Owners, input \in Input : MemoryCreate(u, input) = RowCreate(u, input)
    /\ \A u \in Owners, id \in TaskIds, expected \in 1 .. MaxRevision :
          /\ MemoryGet(u, id) = RowGet(u, id)
          /\ MemoryDelete(u, id, expected) = RowDelete(u, id, expected)
          /\ \A patch \in Patches :
                MemoryUpdate(u, id, expected, patch) = RowUpdate(u, id, expected, patch)
    /\ \A u \in Owners, idea \in Ideas : MemoryByOrigin(u, idea) = RowByOrigin(u, idea)
    /\ \A u \in Owners, filter \in Filters, byDue \in BOOLEAN, limit \in Limits :
          MemoryList(u, filter, byDue, limit) = RowList(u, filter, byDue, limit)

=============================================================================
