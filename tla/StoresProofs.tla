----------------------------- MODULE StoresProofs -----------------------------
(***************************************************************************)
(* The two stores of each kind answer alike after any calls, for any       *)
(* number of owners, of what they own, of writes and of instants.          *)
(*                                                                         *)
(* For each kind the invariant relates what memory holds to what the       *)
(* tables, or the bucket, hold: an entry is the row of its key, and what   *)
(* one of both has more of is a function of the rest.  It says too why     *)
(* that is so for good: keys are unique, versions and ids are past ones,   *)
(* what refers to a row refers to one that is there.  From it every pair   *)
(* of answers is equal, and then so is what a call makes of both.          *)
(***************************************************************************)
EXTENDS Stores, Sequences, FiniteSetTheorems, SequenceTheorems, TLAPS

-----------------------------------------------------------------------------
(* Tasks and ideas                                                         *)

LEMMA TNothing ==
    ASSUME T!Sensible
    PROVE  /\ \A u \in People : u # 0
           /\ \A id \in Things : id # 0 /\ id \in Nat
           /\ \A idea \in Names : idea # 0
           /\ T!NoTask \notin T!Task /\ T!NoTask.owner = 0 /\ T!NoTask.idea = 0
           /\ \A task \in T!Task : task.owner \in People /\ task # T!NoTask
  BY DEF T!Sensible, T!Task, T!NoTask, T!Null

\* The maps in memory are what the rows say.
TasksMatch ==
    /\ \A u \in People, id \in Things :
          memory.tasks[<<u, id>>] = IF table[id].owner = u THEN table[id] ELSE T!NoTask
    /\ \A id \in Things : memory.taskOwners[id] = table[id].owner
    /\ \A id \in Things : table[id] # T!NoTask => table[id].id = id
    /\ \A u \in People, idea \in Names :
          /\ \A id \in Things : table[id].owner = u /\ table[id].idea = idea =>
                memory.originIds[<<u, idea>>] = id
          /\ memory.originIds[<<u, idea>>] # 0 =>
                /\ table[memory.originIds[<<u, idea>>]].owner = u
                /\ table[memory.originIds[<<u, idea>>]].idea = idea

TasksInv == T!TypeOK /\ TasksMatch

LEMMA TInit == T!Sensible /\ T!Init => TasksInv
  <1> SUFFICES ASSUME T!Sensible, T!Init PROVE TasksInv
    OBVIOUS
  <1>1. T!TypeOK
    BY DEF T!Init, T!TypeOK, T!Sensible, T!Null
  <1>2. TasksMatch
    BY TNothing DEF T!Init, TasksMatch, T!Null
  <1> QED BY <1>1, <1>2 DEF TasksInv

\* What a task is found by is the same in both.
LEMMA TFound ==
    ASSUME T!Sensible, TasksInv, NEW u \in People
    PROVE  /\ \A id \in Things : T!MemoryGet(u, id) = T!RowGet(u, id)
           /\ \A id \in Things : T!MemoryGet(u, id) = T!NoTask <=> table[id].owner # u
           /\ \A idea \in Names : T!MemoryByOrigin(u, idea) = T!RowByOrigin(u, idea)
  <1>1. ASSUME NEW id \in Things
        PROVE  /\ T!MemoryGet(u, id) = T!RowGet(u, id)
               /\ T!MemoryGet(u, id) = T!NoTask <=> table[id].owner # u
    BY TNothing DEF TasksInv, TasksMatch, T!MemoryGet, T!RowGet
  <1>2. ASSUME NEW idea \in Names
        PROVE  T!MemoryByOrigin(u, idea) = T!RowByOrigin(u, idea)
    <2> DEFINE o == memory.originIds[<<u, idea>>]
               found == {id \in Things : table[id].owner = u /\ table[id].idea = idea}
    <2>1. o \in Things \cup {0}
      BY DEF TasksInv, T!TypeOK, T!Null
    <2>2. CASE o = 0
      <3>1. found = {}
        BY <2>2, TNothing DEF TasksInv, TasksMatch
      <3> QED BY <3>1, <2>2 DEF T!MemoryByOrigin, T!RowByOrigin, T!Null
    <2>3. CASE o # 0
      <3>1. o \in found /\ \A id \in found : id = o
        BY <2>1, <2>3 DEF TasksInv, TasksMatch
      <3>2. found # {} /\ (CHOOSE id \in found : TRUE) = o
        BY <3>1
      <3>3. T!MemoryGet(u, o) = table[o]
        BY <1>1, <2>1, <2>3, <3>1 DEF T!RowGet
      <3>4. T!MemoryByOrigin(u, idea) = T!MemoryGet(u, o)
        BY <2>3 DEF T!MemoryByOrigin, T!Null
      <3>5. T!RowByOrigin(u, idea) = table[o]
        BY <3>2, TNothing DEF T!RowByOrigin, T!Null
      <3> QED BY <3>3, <3>4, <3>5
    <2> QED BY <2>2, <2>3
  <1> QED BY <1>1, <1>2

LEMMA TCreate ==
    ASSUME T!Sensible, TasksInv, NEW u \in People, NEW input \in T!Input
    PROVE  T!MemoryCreate(u, input) = T!RowCreate(u, input)
  <1>1. input.id \in Things /\ (input.idea = 0 \/ input.idea \in Names)
    BY DEF T!Input, T!Null
  <1>2. /\ memory.taskOwners[input.id] = table[input.id].owner
        /\ table[input.id] = T!NoTask \/ table[input.id].owner \in People
        /\ table[input.id].owner = 0 <=> table[input.id] = T!NoTask
    BY <1>1, TNothing DEF TasksInv, TasksMatch, T!TypeOK
  <1>3. T!MemoryGet(u, input.id) = T!RowGet(u, input.id)
    BY <1>1, TFound
  <1>4. CASE table[input.id].owner = u
    BY <1>2, <1>3, <1>4, TNothing
    DEF T!MemoryCreate, T!RowCreate, T!FindCreateConflict, T!Vacant, T!RowGet
  <1>5. CASE table[input.id].owner \notin {u, 0}
    BY <1>2, <1>5, TNothing
    DEF T!MemoryCreate, T!RowCreate, T!FindCreateConflict, T!Vacant, T!Null
  <1>6. CASE table[input.id].owner = 0
    <2>1. T!RowByOrigin(u, 0) = T!NoTask
      BY DEF T!RowByOrigin, T!Null
    <2>2. input.idea # 0 => T!MemoryByOrigin(u, input.idea) = T!RowByOrigin(u, input.idea)
      BY <1>1, TFound
    <2>3. T!RowByOrigin(u, input.idea) # T!NoTask => T!RowByOrigin(u, input.idea).owner = u
      <3>1. ASSUME NEW found, found = {id \in Things : table[id].owner = u /\ table[id].idea = input.idea},
                   found # {}
            PROVE  table[CHOOSE id \in found : TRUE].owner = u
        <4>1. (CHOOSE id \in found : TRUE) \in found
          BY <3>1
        <4> QED BY <3>1, <4>1
      <3> QED BY <3>1 DEF T!RowByOrigin
    <2> QED BY <1>2, <1>6, <2>1, <2>2, <2>3, TNothing
            DEF T!MemoryCreate, T!RowCreate, T!FindCreateConflict, T!Vacant, T!Null
  <1> QED BY <1>4, <1>5, <1>6

LEMMA TChange ==
    ASSUME T!Sensible, TasksInv, NEW u \in People, NEW id \in Things, NEW expected
    PROVE  /\ T!MemoryDelete(u, id, expected) = T!RowDelete(u, id, expected)
           /\ \A patch \in T!Patches :
                 T!MemoryUpdate(u, id, expected, patch) = T!RowUpdate(u, id, expected, patch)
  <1>1. T!MemoryGet(u, id) = T!RowGet(u, id) /\ (T!MemoryGet(u, id) = T!NoTask <=> table[id].owner # u)
    BY TFound
  <1>2. T!MemoryDelete(u, id, expected) = T!RowDelete(u, id, expected)
    BY <1>1 DEF T!MemoryDelete, T!RowDelete, T!RowGet
  <1>3. ASSUME NEW patch \in T!Patches
        PROVE  T!MemoryUpdate(u, id, expected, patch) = T!RowUpdate(u, id, expected, patch)
    BY <1>1 DEF T!MemoryUpdate, T!RowUpdate
  <1> QED BY <1>2, <1>3

\* The two ways to sort and to filter are one.
LEMMA TOrder ==
    ASSUME T!Sensible, NEW s \in T!Task, NEW t \in T!Task, NEW byDue \in BOOLEAN
    PROVE  T!Precedes(byDue, s, t) <=>
               IF byDue THEN T!CompareDueDate(s, t) ELSE T!CompareCreatedAt(s, t)
  <1>1. /\ s.due \in Nat /\ t.due \in Nat /\ s.created \in Nat /\ t.created \in Nat
        /\ s.id \in Nat /\ t.id \in Nat
    BY DEF T!Task, T!Null, T!Sensible
  <1> QED BY <1>1 DEF T!Precedes, T!CompareDueDate, T!CompareCreatedAt, T!Null

LEMMA TList ==
    ASSUME T!Sensible, TasksInv, NEW u \in People, NEW filter \in T!Filters,
           NEW byDue \in BOOLEAN, NEW limit \in Pages
    PROVE  T!MemoryList(u, filter, byDue, limit) = T!RowList(u, filter, byDue, limit)
  <1> DEFINE mine == {t \in {memory.tasks[k] : k \in People \X Things} :
                         t.owner = u /\ T!MatchesFilter(t, filter)}
             own == {t \in {table[id] : id \in Things} : t.owner = u /\ T!Selected(t, filter)}
             MPlace(t) == T!Cardinality({s \in mine : IF byDue THEN T!CompareDueDate(s, t)
                                                    ELSE T!CompareCreatedAt(s, t)})
             Place(t) == T!Cardinality({s \in own : T!Precedes(byDue, s, t)})
  <1>1. mine = own
    <2>1. \A t : T!MatchesFilter(t, filter) <=> T!Selected(t, filter)
      BY DEF T!MatchesFilter, T!Selected
    <2>2. ASSUME NEW t \in mine PROVE t \in own
      <3>1. PICK v \in People, id \in Things : t = memory.tasks[<<v, id>>]
        OBVIOUS
      <3>2. t = table[id]
        BY <3>1, TNothing DEF TasksInv, TasksMatch
      <3> QED BY <2>1, <3>2
    <2>3. ASSUME NEW t \in own PROVE t \in mine
      <3>1. PICK id \in Things : t = table[id]
        OBVIOUS
      <3>2. t = memory.tasks[<<u, id>>]
        BY <3>1 DEF TasksInv, TasksMatch
      <3> QED BY <2>1, <3>2
    <2> HIDE DEF mine, own
    <2> QED BY <2>2, <2>3
  <1>2. own \subseteq T!Task
    BY TNothing DEF TasksInv, T!TypeOK
  <1>3. ASSUME NEW t \in own PROVE MPlace(t) = Place(t)
    <2>1. \A s \in own : T!Precedes(byDue, s, t) <=>
               IF byDue THEN T!CompareDueDate(s, t) ELSE T!CompareCreatedAt(s, t)
      BY <1>2, TOrder
    <2>2. {s \in mine : IF byDue THEN T!CompareDueDate(s, t) ELSE T!CompareCreatedAt(s, t)}
             = {s \in own : T!Precedes(byDue, s, t)}
      <3> HIDE DEF mine, own
      <3> QED BY <1>1, <2>1
    <2> QED BY <2>2
  <1>4. T!MemoryList(u, filter, byDue, limit)
           = {<<MPlace(t), t>> : t \in {s \in mine : limit = 0 \/ MPlace(s) < limit}}
    BY DEF T!MemoryList
  <1>5. T!RowList(u, filter, byDue, limit)
           = {<<Place(t), t>> : t \in {s \in own : limit = 0 \/ Place(s) < limit}}
    BY DEF T!RowList
  <1> HIDE DEF mine, own, MPlace, Place
  <1>6. {s \in mine : limit = 0 \/ MPlace(s) < limit} = {s \in own : limit = 0 \/ Place(s) < limit}
    BY <1>1, <1>3
  <1> QED BY <1>1, <1>3, <1>4, <1>5, <1>6

LEMMA TAgree == T!Sensible /\ TasksInv => T!Agree
  <1> SUFFICES ASSUME T!Sensible, TasksInv PROVE T!Agree
    OBVIOUS
  <1> QED BY TFound, TCreate, TChange, TList DEF T!Agree

LEMMA TStepCreate ==
    ASSUME T!Sensible, TasksInv, NEW u \in People, NEW input \in T!Input, T!Create(u, input)
    PROVE  TasksInv'
  <1> DEFINE new == T!New(u, input)
  <1>1. /\ input.id \in Things /\ (input.idea = 0 \/ input.idea \in Names)
        /\ new \in T!Task /\ new.id = input.id /\ new.owner = u /\ new.idea = input.idea
    BY DEF T!Input, T!Null, T!New, T!Task, TasksInv, T!TypeOK
  <1>2. T!MemoryCreate(u, input) = T!RowCreate(u, input)
    BY TCreate
  <1>3. CASE T!RowCreate(u, input).outcome # "created"
    <2>1. UNCHANGED <<memory, table, clock>>
      BY <1>2, <1>3 DEF T!Create
    <2> QED BY <2>1 DEF TasksInv, T!TypeOK, TasksMatch
  <1>4. CASE T!RowCreate(u, input).outcome = "created"
    <2>1. table[input.id] = T!NoTask /\ T!RowByOrigin(u, input.idea) = T!NoTask
      <3>1. T!Vacant(u, input)
        BY <1>4 DEF T!RowCreate, T!Meets, T!Answer
      <3> QED BY <3>1 DEF T!Vacant
    <2>2. input.idea # 0 => \A id \in Things : ~ (table[id].owner = u /\ table[id].idea = input.idea)
      <3> SUFFICES ASSUME input.idea # 0, NEW x \in Things,
                          table[x].owner = u, table[x].idea = input.idea
                   PROVE  FALSE
        OBVIOUS
      <3> DEFINE found == {id \in Things : table[id].owner = u /\ table[id].idea = input.idea}
      <3>1. (CHOOSE id \in found : TRUE) \in found
        BY <1>1
      <3>2. T!RowByOrigin(u, input.idea) = table[CHOOSE id \in found : TRUE]
        BY <3>1 DEF T!RowByOrigin, T!Null
      <3> QED BY <2>1, <3>1, <3>2, TNothing
    <2>3. /\ memory' = [tasks |-> [memory.tasks EXCEPT ![<<u, input.id>>] = new],
                         taskOwners |-> [memory.taskOwners EXCEPT ![input.id] = u],
                         originIds |-> IF input.idea = 0 THEN memory.originIds
                                       ELSE [memory.originIds EXCEPT ![<<u, input.idea>>] = input.id]]
          /\ table' = [table EXCEPT ![input.id] = new]
          /\ clock' = clock
      BY <1>2, <1>4 DEF T!Create, T!Null
    <2> HIDE DEF new
    <2>4. T!TypeOK'
      BY <1>1, <2>3 DEF TasksInv, T!TypeOK, T!Null
    <2>5. TasksMatch'
      <3>1. ASSUME NEW v \in People, NEW id \in Things
            PROVE  /\ memory'.tasks[<<v, id>>] = IF table'[id].owner = v THEN table'[id] ELSE T!NoTask
                   /\ memory'.taskOwners[id] = table'[id].owner
                   /\ table'[id] # T!NoTask => table'[id].id = id
        BY <1>1, <2>1, <2>3, TNothing DEF TasksInv, TasksMatch, T!TypeOK
      <3>2. ASSUME NEW v \in People, NEW idea \in Names
            PROVE  /\ \A id \in Things : table'[id].owner = v /\ table'[id].idea = idea =>
                         memory'.originIds[<<v, idea>>] = id
                   /\ memory'.originIds[<<v, idea>>] # 0 =>
                         /\ table'[memory'.originIds[<<v, idea>>]].owner = v
                         /\ table'[memory'.originIds[<<v, idea>>]].idea = idea
        <4>1. CASE v = u /\ idea = input.idea
          BY <1>1, <2>2, <2>3, <4>1, TNothing DEF TasksInv, TasksMatch, T!TypeOK
        <4>2. CASE ~ (v = u /\ idea = input.idea)
          <5>1. memory'.originIds[<<v, idea>>] = memory.originIds[<<v, idea>>]
            BY <1>1, <2>3, <4>2 DEF TasksInv, T!TypeOK
          <5>2. \A id \in Things : table'[id].owner = v /\ table'[id].idea = idea
                                     <=> table[id].owner = v /\ table[id].idea = idea
            BY <1>1, <2>1, <2>3, <4>2, TNothing DEF TasksInv, T!TypeOK
          <5>3. memory.originIds[<<v, idea>>] \in Things \cup {0}
            BY DEF TasksInv, T!TypeOK, T!Null
          <5> QED BY <5>1, <5>2, <5>3 DEF TasksInv, TasksMatch
        <4> QED BY <4>1, <4>2
      <3> QED BY <3>1, <3>2 DEF TasksMatch
    <2> QED BY <2>4, <2>5 DEF TasksInv
  <1> QED BY <1>3, <1>4

LEMMA TStepUpdate ==
    ASSUME T!Sensible, TasksInv, NEW u \in People, NEW id \in Things,
           NEW expected, NEW patch \in T!Patches, T!Update(u, id, expected, patch)
    PROVE  TasksInv'
  <1> DEFINE row == T!RowUpdate(u, id, expected, patch)
  <1>1. T!MemoryUpdate(u, id, expected, patch) = row
    BY TChange
  <1>2. CASE row.outcome # "updated"
    <2>1. UNCHANGED <<memory, table, clock>>
      BY <1>1, <1>2 DEF T!Update
    <2> QED BY <2>1 DEF TasksInv, T!TypeOK, TasksMatch
  <1>3. CASE row.outcome = "updated"
    <2>1. /\ table[id].owner = u /\ table[id] \in T!Task
          /\ row.task = T!Patched(table[id], patch)
      BY <1>3, TNothing DEF T!RowUpdate, T!RowGet, T!Answer, TasksInv, T!TypeOK
    <2> DEFINE new == T!Patched(table[id], patch)
    <2>2. new \in T!Task /\ new.id = table[id].id /\ new.owner = u /\ new.idea = table[id].idea
      <3>1. patch.text \in Words \cup {0} /\ patch.due \in Names \cup {0, -1}
        BY DEF T!Patches, T!Kept, T!Null
      <3>2. table[id].revision + 1 \in Nat \ {0} /\ clock \in Nat
        BY <2>1 DEF T!Task, TasksInv, T!TypeOK
      <3> QED BY <2>1, <3>1, <3>2 DEF T!Patched, T!Task, T!Kept, T!Null
    <2>3. /\ memory' = [memory EXCEPT !.tasks[<<u, id>>] = new]
          /\ table' = [table EXCEPT ![id] = new]
          /\ clock' = clock
      BY <1>1, <1>3, <2>1 DEF T!Update
    <2> HIDE DEF new
    <2>4. /\ memory'.tasks = [memory.tasks EXCEPT ![<<u, id>>] = new]
          /\ memory'.taskOwners = memory.taskOwners /\ memory'.originIds = memory.originIds
      BY <2>3 DEF TasksInv, T!TypeOK
    <2>5. T!TypeOK'
      BY <2>2, <2>3 DEF TasksInv, T!TypeOK
    <2>6. \A x \in Things : /\ table'[x].owner = table[x].owner /\ table'[x].idea = table[x].idea
                            /\ table'[x].id = table[x].id
                            /\ table'[x] = T!NoTask <=> table[x] = T!NoTask
      BY <2>1, <2>2, <2>3, TNothing DEF TasksInv, T!TypeOK
    <2>7. \A v \in People, x \in Things :
             memory'.tasks[<<v, x>>] = IF table'[x].owner = v THEN table'[x] ELSE T!NoTask
      <3> SUFFICES ASSUME NEW v \in People, NEW x \in Things
                   PROVE  memory'.tasks[<<v, x>>] = IF table'[x].owner = v THEN table'[x] ELSE T!NoTask
        OBVIOUS
      <3>1. CASE x = id /\ v = u
        BY <2>2, <2>3, <2>4, <3>1 DEF TasksInv, T!TypeOK
      <3>2. CASE ~ (x = id /\ v = u)
        <4>1. memory'.tasks[<<v, x>>] = memory.tasks[<<v, x>>]
          BY <2>4, <3>2 DEF TasksInv, T!TypeOK
        <4>2. IF x = id THEN table'[x] = new ELSE table'[x] = table[x]
          BY <2>3 DEF TasksInv, T!TypeOK
        <4> QED BY <2>1, <2>2, <3>2, <4>1, <4>2 DEF TasksInv, TasksMatch
      <3> QED BY <3>1, <3>2
    <2>8. \A v \in People, idea \in Names : memory.originIds[<<v, idea>>] \in Things \cup {0}
      BY DEF TasksInv, T!TypeOK, T!Null
    <2>9. TasksMatch'
      <3>1. \A x \in Things : /\ memory'.taskOwners[x] = table'[x].owner
                              /\ table'[x] # T!NoTask => table'[x].id = x
        BY <2>4, <2>6 DEF TasksInv, TasksMatch
      <3>2. ASSUME NEW v \in People, NEW i \in Names
            PROVE  /\ \A x \in Things : table'[x].owner = v /\ table'[x].idea = i =>
                         memory'.originIds[<<v, i>>] = x
                   /\ memory'.originIds[<<v, i>>] # 0 =>
                         /\ table'[memory'.originIds[<<v, i>>]].owner = v
                         /\ table'[memory'.originIds[<<v, i>>]].idea = i
        <4>1. memory'.originIds[<<v, i>>] = memory.originIds[<<v, i>>]
          BY <2>4
        <4> QED BY <2>6, <2>8, <4>1 DEF TasksInv, TasksMatch
      <3> QED BY <2>7, <3>1, <3>2 DEF TasksMatch
    <2> QED BY <2>5, <2>9 DEF TasksInv
  <1> QED BY <1>2, <1>3

LEMMA TStepDelete ==
    ASSUME T!Sensible, TasksInv, NEW u \in People, NEW id \in Things, NEW expected,
           T!Delete(u, id, expected)
    PROVE  TasksInv'
  <1> DEFINE row == T!RowDelete(u, id, expected)
  <1>1. T!MemoryDelete(u, id, expected) = row
    BY TChange
  <1>2. CASE row.outcome # "deleted"
    <2>1. UNCHANGED <<memory, table, clock>>
      BY <1>1, <1>2 DEF T!Delete
    <2> QED BY <2>1 DEF TasksInv, T!TypeOK, TasksMatch
  <1>3. CASE row.outcome = "deleted"
    <2> DEFINE idea == table[id].idea
    <2>1. table[id].owner = u /\ table[id] \in T!Task /\ row.task = table[id]
      BY <1>3, TNothing DEF T!RowDelete, T!RowGet, T!Answer, TasksInv, T!TypeOK
    <2>2. idea = 0 \/ idea \in Names
      BY <2>1 DEF T!Task, T!Null
    <2>3. /\ memory' = [tasks |-> [memory.tasks EXCEPT ![<<u, id>>] = T!NoTask],
                         taskOwners |-> [memory.taskOwners EXCEPT ![id] = 0],
                         originIds |-> IF idea = 0 THEN memory.originIds
                                       ELSE [memory.originIds EXCEPT ![<<u, idea>>] = 0]]
          /\ table' = [table EXCEPT ![id] = T!NoTask]
          /\ clock' = clock
      BY <1>1, <1>3, <2>1 DEF T!Delete, T!Null
    <2> HIDE DEF idea
    <2>4. T!TypeOK'
      BY <2>2, <2>3 DEF TasksInv, T!TypeOK, T!Null
    <2>5. TasksMatch'
      <3>1. ASSUME NEW v \in People, NEW x \in Things
            PROVE  /\ memory'.tasks[<<v, x>>] = IF table'[x].owner = v THEN table'[x] ELSE T!NoTask
                   /\ memory'.taskOwners[x] = table'[x].owner
                   /\ table'[x] # T!NoTask => table'[x].id = x
        BY <2>1, <2>3, TNothing DEF TasksInv, TasksMatch, T!TypeOK
      <3>2. ASSUME NEW v \in People, NEW i \in Names
            PROVE  /\ \A x \in Things : table'[x].owner = v /\ table'[x].idea = i =>
                         memory'.originIds[<<v, i>>] = x
                   /\ memory'.originIds[<<v, i>>] # 0 =>
                         /\ table'[memory'.originIds[<<v, i>>]].owner = v
                         /\ table'[memory'.originIds[<<v, i>>]].idea = i
        <4>1. CASE v = u /\ i = idea
          <5>1. memory.originIds[<<v, i>>] = id
            BY <2>1, <4>1 DEF TasksInv, TasksMatch, idea
          <5>2. memory'.originIds[<<v, i>>] = 0
            BY <2>2, <2>3, <4>1, TNothing DEF TasksInv, T!TypeOK
          <5>3. \A x \in Things : ~ (table'[x].owner = v /\ table'[x].idea = i)
            BY <2>3, <4>1, <5>1, TNothing DEF TasksInv, TasksMatch, T!TypeOK
          <5> QED BY <5>2, <5>3
        <4>2. CASE ~ (v = u /\ i = idea)
          <5>1. memory'.originIds[<<v, i>>] = memory.originIds[<<v, i>>]
            BY <2>2, <2>3, <4>2 DEF TasksInv, T!TypeOK
          <5>2. \A x \in Things : table'[x].owner = v /\ table'[x].idea = i
                                     <=> table[x].owner = v /\ table[x].idea = i
            BY <2>1, <2>3, <4>2, TNothing DEF TasksInv, T!TypeOK, idea
          <5>3. memory.originIds[<<v, i>>] \in Things \cup {0}
            BY DEF TasksInv, T!TypeOK, T!Null
          <5> QED BY <5>1, <5>2, <5>3 DEF TasksInv, TasksMatch
        <4> QED BY <4>1, <4>2
      <3> QED BY <3>1, <3>2 DEF TasksMatch
    <2> QED BY <2>4, <2>5 DEF TasksInv
  <1> QED BY <1>2, <1>3

LEMMA TStep == T!Sensible /\ TasksInv /\ T!Next => TasksInv'
  <1> SUFFICES ASSUME T!Sensible, TasksInv, T!Next PROVE TasksInv'
    OBVIOUS
  <1>1. CASE T!Tick
    BY <1>1 DEF T!Tick, TasksInv, T!TypeOK, TasksMatch, T!Sensible
  <1> QED BY <1>1, TStepCreate, TStepUpdate, TStepDelete DEF T!Next

-----------------------------------------------------------------------------
(* Schedules                                                               *)

LEMMA SNothing ==
    ASSUME S!Sensible
    PROVE  /\ \A u \in People : u # 0
           /\ \A id \in Things : id # 0 /\ id \in Nat
           /\ Names \subseteq Nat /\ Days \in Nat
           /\ S!NoSchedule.owner = 0 /\ S!NoSchedule.enabled = FALSE
           /\ \A s \in S!Schedule : s.owner \in People /\ s # S!NoSchedule
           /\ S!NoFire.owner = 0 /\ S!NoFire.status = "none"
           /\ \A f \in S!Fire : f.owner \in People /\ f # S!NoFire /\ f.status # "none"
  BY DEF S!Sensible, S!Schedule, S!NoSchedule, S!Fire, S!NoFire, S!Null, S!Decided

\* The maps in memory are what the rows say.
SchedulesMatch ==
    /\ \A u \in People, id \in Things :
          memory.schedules[<<u, id>>] =
              IF table.schedules[id].owner = u THEN table.schedules[id] ELSE S!NoSchedule
    /\ \A id \in Things : memory.scheduleOwners[id] = table.schedules[id].owner
    /\ \A id \in Things : table.schedules[id] # S!NoSchedule => table.schedules[id].id = id
    /\ memory.fires = table.fires
    /\ \A id \in Things, due \in S!Instants :
          table.fires[<<id, due>>] # S!NoFire => table.fires[<<id, due>>].id = id

SchedulesInv == S!TypeOK /\ SchedulesMatch

LEMMA SInit == S!Sensible /\ S!Init => SchedulesInv
  <1> SUFFICES ASSUME S!Sensible, S!Init PROVE SchedulesInv
    OBVIOUS
  <1>1. S!TypeOK
    BY DEF S!Init, S!TypeOK, S!Sensible, S!Null
  <1>2. SchedulesMatch
    BY SNothing DEF S!Init, SchedulesMatch, S!Null
  <1> QED BY <1>1, <1>2 DEF SchedulesInv

\* What the rows are.
LEMMA SRows ==
    ASSUME S!Sensible, SchedulesInv
    PROVE  /\ \A id \in Things : /\ table.schedules[id] \in S!Schedule \cup {S!NoSchedule}
                                 /\ table.schedules[id].owner \in People \cup {0}
                                 /\ table.schedules[id].owner = 0 <=> table.schedules[id] = S!NoSchedule
           /\ \A id \in Things, due \in S!Instants :
                 /\ table.fires[<<id, due>>] \in S!Fire \cup {S!NoFire}
                 /\ table.fires[<<id, due>>].owner = 0 <=> table.fires[<<id, due>>] = S!NoFire
                 /\ table.fires[<<id, due>>].status = "none" <=> table.fires[<<id, due>>] = S!NoFire
           /\ clock \in Nat
  BY SNothing DEF SchedulesInv, S!TypeOK

LEMMA SFound ==
    ASSUME S!Sensible, SchedulesInv, NEW u \in People
    PROVE  /\ \A id \in Things : S!MemoryGet(u, id) = S!RowGet(u, id)
           /\ \A input \in S!Input : S!MemorySave(u, input) = S!RowSave(u, input)
           /\ \A id \in Things, due \in S!Instants, status \in S!Decided :
                 S!MemoryComplete(u, id, due, status) = S!RowComplete(u, id, due, status)
  <1>1. ASSUME NEW id \in Things PROVE S!MemoryGet(u, id) = S!RowGet(u, id)
    BY DEF SchedulesInv, SchedulesMatch, S!MemoryGet, S!RowGet
  <1>2. ASSUME NEW input \in S!Input
        PROVE  S!MemorySave(u, input) = S!RowSave(u, input)
    <2>1. input.id \in Things
      BY DEF S!Input
    <2>2. memory.scheduleOwners[input.id] = table.schedules[input.id].owner
      BY <2>1 DEF SchedulesInv, SchedulesMatch
    <2> QED BY <1>1, <2>1, <2>2, SRows, SNothing DEF S!MemorySave, S!RowSave, S!RowGet, S!Null
  <1>3. ASSUME NEW id \in Things, NEW due \in S!Instants, NEW status \in S!Decided
        PROVE  S!MemoryComplete(u, id, due, status) = S!RowComplete(u, id, due, status)
    BY DEF SchedulesInv, SchedulesMatch, S!MemoryComplete, S!RowComplete
  <1> QED BY <1>1, <1>2, <1>3

LEMMA SList ==
    ASSUME S!Sensible, SchedulesInv, NEW u \in People
    PROVE  S!MemoryList(u) = S!RowList(u)
  <1> DEFINE mine == {s \in {memory.schedules[k] : k \in People \X Things} : s.owner = u}
             own == {table.schedules[id] : id \in {i \in Things : table.schedules[i].owner = u}}
             Before(s, t) == s.time < t.time \/ (s.time = t.time /\ s.id < t.id)
  <1>1. mine = own
    <2>1. ASSUME NEW s \in mine PROVE s \in own
      <3>1. PICK v \in People, id \in Things : s = memory.schedules[<<v, id>>]
        OBVIOUS
      <3>2. s = table.schedules[id]
        BY <3>1, SNothing DEF SchedulesInv, SchedulesMatch
      <3> QED BY <3>2
    <2>2. ASSUME NEW s \in own PROVE s \in mine
      <3>1. PICK id \in Things : s = table.schedules[id] /\ s.owner = u
        OBVIOUS
      <3>2. s = memory.schedules[<<u, id>>]
        BY <3>1 DEF SchedulesInv, SchedulesMatch
      <3> QED BY <3>1, <3>2
    <2> HIDE DEF mine, own
    <2> QED BY <2>1, <2>2
  <1>2. S!MemoryList(u) = {<<S!Cardinality({s \in mine : Before(s, t)}), t>> : t \in mine}
    BY DEF S!MemoryList
  <1>3. S!RowList(u) = {<<S!Cardinality({s \in own : Before(s, t)}), t>> : t \in own}
    BY DEF S!RowList
  <1> HIDE DEF mine, own, Before
  <1> QED BY <1>1, <1>2, <1>3

LEMMA SOrder ==
    ASSUME S!Sensible, NEW f \in S!Fire, NEW g \in S!Fire
    PROVE  /\ S!CompareFires(f, g) <=> S!Precedes(f, g)
           /\ f.id = g.id => (S!Precedes(f, g) <=>
                 f.created < g.created \/ (f.created = g.created /\ f.due < g.due))
  <1>1. /\ f.created \in Nat /\ g.created \in Nat /\ f.due \in Int /\ g.due \in Int
        /\ f.id \in Nat /\ g.id \in Nat
    BY SNothing DEF S!Fire, S!Instants
  <1> QED BY <1>1 DEF S!CompareFires, S!Precedes

LEMMA SFires ==
    ASSUME S!Sensible, SchedulesInv, NEW u \in People, NEW id \in Things \cup {0}
    PROVE  S!MemoryListFires(u, id) = S!RowListFires(u, id)
  <1> DEFINE keys == Things \X S!Instants
             mine == {f \in {memory.fires[k] : k \in keys} : f.owner = u /\ (id = 0 \/ f.id = id)}
             own == {table.fires[k] : k \in {j \in keys :
                        table.fires[j].owner = u /\ (id # 0 => j[1] = id)}}
             Before(f, g) == IF id = 0 THEN S!Precedes(f, g)
                             ELSE f.created < g.created \/ (f.created = g.created /\ f.due < g.due)
  <1>0. ASSUME NEW k \in keys, table.fires[k].owner = u
        PROVE  table.fires[k].id = k[1] /\ table.fires[k] \in S!Fire
    <2>1. PICK i \in Things, due \in S!Instants : k = <<i, due>>
      OBVIOUS
    <2> QED BY <1>0, <2>1, SRows, SNothing DEF SchedulesInv, SchedulesMatch
  <1>1. mine = own
    <2>1. memory.fires = table.fires
      BY DEF SchedulesInv, SchedulesMatch
    <2>2. ASSUME NEW f \in mine PROVE f \in own
      <3>1. PICK k \in keys : f = table.fires[k]
        BY <2>1
      <3>2. f.owner = u /\ (id = 0 \/ f.id = id)
        OBVIOUS
      <3>3. k \in {j \in keys : table.fires[j].owner = u /\ (id # 0 => j[1] = id)}
        BY <1>0, <3>1, <3>2
      <3> QED BY <3>1, <3>3
    <2>3. ASSUME NEW f \in own PROVE f \in mine
      <3>1. PICK k \in keys : f = table.fires[k] /\ f.owner = u /\ (id # 0 => k[1] = id)
        OBVIOUS
      <3> QED BY <1>0, <2>1, <3>1
    <2> HIDE DEF mine, own
    <2> QED BY <2>2, <2>3
  <1>2. \A f \in own : f \in S!Fire /\ (id # 0 => f.id = id)
    BY <1>0
  <1>3. ASSUME NEW f \in own
        PROVE  {g \in mine : S!CompareFires(g, f)} = {g \in own : Before(g, f)}
    <2>1. \A g \in own : S!CompareFires(g, f) <=> Before(g, f)
      BY <1>2, SOrder
    <2> HIDE DEF mine, own, Before
    <2> QED BY <1>1, <2>1
  <1>4. S!MemoryListFires(u, id)
           = {<<S!Cardinality({g \in mine : S!CompareFires(g, f)}), f>> : f \in mine}
    BY DEF S!MemoryListFires, S!Null
  <1>5. S!RowListFires(u, id) = {<<S!Cardinality({g \in own : Before(g, f)}), f>> : f \in own}
    BY DEF S!RowListFires, S!Null
  <1> HIDE DEF mine, own, Before
  <1> QED BY <1>1, <1>3, <1>4, <1>5

\* A claim advances the same schedules and fires the same.
LEMMA SClaim ==
    ASSUME S!Sensible, SchedulesInv
    PROVE  /\ S!MemoryClaimed.fires = S!RowClaimed.fires
           /\ \A u \in People, id \in Things : S!MemoryClaimed.schedules[<<u, id>>] =
                 IF S!RowClaimed.schedules[id].owner = u THEN S!RowClaimed.schedules[id]
                 ELSE S!NoSchedule
           /\ S!MemoryClaimed.scheduleOwners = memory.scheduleOwners
  <1> DEFINE keys == Things \X S!Instants
             Due(k) == {s \in {memory.schedules[<<u, k[1]>>] : u \in People} :
                           S!IsDue(s) /\ s.next = k[2]}
             Claims(s) == s.enabled /\ s.next <= clock
             Mine(k) == IF memory.fires[k] # S!NoFire \/ Due(k) = {} THEN memory.fires[k]
                        ELSE S!Fired(CHOOSE s \in Due(k) : TRUE)
             Own(k) == IF /\ Claims(table.schedules[k[1]]) /\ table.schedules[k[1]].next = k[2]
                          /\ table.fires[k] = S!NoFire
                       THEN S!Fired(table.schedules[k[1]]) ELSE table.fires[k]
  <1>1. S!MemoryClaimed.fires = [k \in keys |-> Mine(k)]
    BY DEF S!MemoryClaimed
  <1>2. S!RowClaimed.fires = [k \in keys |-> Own(k)]
    BY DEF S!RowClaimed
  <1>3. ASSUME NEW k \in keys PROVE Mine(k) = Own(k)
    <2> DEFINE row == table.schedules[k[1]]
    <2>1. k[1] \in Things /\ memory.fires = table.fires
      BY DEF SchedulesInv, SchedulesMatch
    <2>2. \A u \in People : memory.schedules[<<u, k[1]>>] =
             IF row.owner = u THEN row ELSE S!NoSchedule
      BY <2>1 DEF SchedulesInv, SchedulesMatch
    <2>3. CASE Claims(row) /\ row.next = k[2]
      <3>1. row.owner \in People
        BY <2>1, <2>3, SRows, SNothing
      <3>2. row \in Due(k)
        BY <2>2, <2>3, <3>1 DEF S!IsDue
      <3>3. \A s \in Due(k) : s = row
        BY <2>2, SNothing DEF S!IsDue
      <3>4. Due(k) # {} /\ (CHOOSE s \in Due(k) : TRUE) = row
        BY <3>2, <3>3
      <3> HIDE DEF Due, row
      <3> QED BY <2>1, <2>3, <3>4 DEF row
    <2>4. CASE ~ (Claims(row) /\ row.next = k[2])
      <3>1. Due(k) = {}
        BY <2>2, <2>4, SNothing DEF S!IsDue
      <3> HIDE DEF Due, row
      <3> QED BY <2>1, <2>4, <3>1 DEF row
    <2> QED BY <2>3, <2>4
  <1>4. ASSUME NEW u \in People, NEW id \in Things
        PROVE  S!MemoryClaimed.schedules[<<u, id>>] =
                 IF S!RowClaimed.schedules[id].owner = u THEN S!RowClaimed.schedules[id]
                 ELSE S!NoSchedule
    <2> DEFINE row == table.schedules[id]
    <2>1. S!MemoryClaimed.schedules[<<u, id>>] =
             IF S!IsDue(memory.schedules[<<u, id>>]) THEN S!Advanced(memory.schedules[<<u, id>>])
             ELSE memory.schedules[<<u, id>>]
      BY DEF S!MemoryClaimed
    <2>2. S!RowClaimed.schedules[id] = IF S!IsDue(row) THEN S!Advanced(row) ELSE row
      BY DEF S!RowClaimed, S!IsDue
    <2>3. memory.schedules[<<u, id>>] = IF row.owner = u THEN row ELSE S!NoSchedule
      BY DEF SchedulesInv, SchedulesMatch
    <2>4. S!IsDue(row) => row \in S!Schedule
      BY SRows, SNothing DEF S!IsDue
    <2>5. row \in S!Schedule => S!Advanced(row).owner = row.owner
      BY DEF S!Advanced, S!Schedule
    <2>6. ~ S!IsDue(S!NoSchedule)
      BY SNothing DEF S!IsDue
    <2> HIDE DEF row
    <2> QED BY <2>1, <2>2, <2>3, <2>4, <2>5, <2>6
  <1>5. S!MemoryClaimed.scheduleOwners = memory.scheduleOwners
    BY DEF S!MemoryClaimed
  <1> HIDE DEF Mine, Own
  <1> QED BY <1>1, <1>2, <1>3, <1>4, <1>5

\* Every instant the clock reaches leads to another.
LEMMA SNext ==
    ASSUME S!Sensible, SchedulesInv, NEW time
    PROVE  S!NextDailyFireAt(clock, time) \in S!Instants
  <1>1. clock \in 0 .. Days /\ Days \in Nat
    BY SNothing DEF SchedulesInv, S!TypeOK
  <1> QED BY <1>1 DEF S!NextDailyFireAt, S!Instants

LEMMA SClaimType ==
    ASSUME S!Sensible, SchedulesInv
    PROVE  /\ \A id \in Things :
                 /\ S!RowClaimed.schedules[id] \in S!Schedule \cup {S!NoSchedule}
                 /\ S!RowClaimed.schedules[id].owner = table.schedules[id].owner
                 /\ S!RowClaimed.schedules[id] # S!NoSchedule => S!RowClaimed.schedules[id].id = id
           /\ \A id \in Things, due \in S!Instants :
                 /\ S!RowClaimed.fires[<<id, due>>] \in S!Fire \cup {S!NoFire}
                 /\ S!RowClaimed.fires[<<id, due>>] # S!NoFire => S!RowClaimed.fires[<<id, due>>].id = id
  <1>1. ASSUME NEW id \in Things
        PROVE  /\ S!RowClaimed.schedules[id] \in S!Schedule \cup {S!NoSchedule}
               /\ S!RowClaimed.schedules[id].owner = table.schedules[id].owner
               /\ S!RowClaimed.schedules[id] # S!NoSchedule => S!RowClaimed.schedules[id].id = id
    <2> DEFINE row == table.schedules[id]
    <2>1. S!RowClaimed.schedules[id] = IF S!IsDue(row) THEN S!Advanced(row) ELSE row
      BY DEF S!RowClaimed, S!IsDue
    <2>2. row \in S!Schedule \cup {S!NoSchedule} /\ (row # S!NoSchedule => row.id = id)
      BY SRows DEF SchedulesInv, SchedulesMatch
    <2>3. S!IsDue(row) => row \in S!Schedule
      BY SRows, SNothing DEF S!IsDue
    <2>4. ASSUME row \in S!Schedule
          PROVE  /\ S!Advanced(row) \in S!Schedule
                 /\ S!Advanced(row).owner = row.owner /\ S!Advanced(row).id = row.id
      BY <2>4, SNext, SRows DEF S!Advanced, S!Schedule
    <2> HIDE DEF row
    <2> QED BY <2>1, <2>2, <2>3, <2>4, SNothing DEF row
  <1>2. ASSUME NEW id \in Things, NEW due \in S!Instants
        PROVE  /\ S!RowClaimed.fires[<<id, due>>] \in S!Fire \cup {S!NoFire}
               /\ S!RowClaimed.fires[<<id, due>>] # S!NoFire => S!RowClaimed.fires[<<id, due>>].id = id
    <2> DEFINE row == table.schedules[id]
    <2>1. S!RowClaimed.fires[<<id, due>>] =
             IF S!IsDue(row) /\ row.next = due /\ table.fires[<<id, due>>] = S!NoFire
             THEN S!Fired(row) ELSE table.fires[<<id, due>>]
      BY DEF S!RowClaimed, S!IsDue
    <2>2. S!IsDue(row) => row \in S!Schedule /\ row.id = id
      BY SRows, SNothing DEF S!IsDue, SchedulesInv, SchedulesMatch
    <2>3. ASSUME row \in S!Schedule
          PROVE  S!Fired(row) \in S!Fire /\ S!Fired(row).id = row.id
      BY <2>3, SRows DEF S!Fired, S!Schedule, S!Fire, S!Decided
    <2>4. /\ table.fires[<<id, due>>] \in S!Fire \cup {S!NoFire}
          /\ table.fires[<<id, due>>] # S!NoFire => table.fires[<<id, due>>].id = id
      BY SRows DEF SchedulesInv, SchedulesMatch
    <2> HIDE DEF row
    <2> QED BY <2>1, <2>2, <2>3, <2>4
  <1> QED BY <1>1, <1>2

LEMMA SPending ==
    ASSUME S!Sensible, SchedulesInv, NEW limit \in Limits
    PROVE  S!MemoryPending(S!MemoryClaimed.fires, limit) = S!RowPending(S!RowClaimed.fires, limit)
  <1> DEFINE keys == Things \X S!Instants
             fires == S!RowClaimed.fires
             mine == {f \in {fires[k] : k \in keys} : f.status = "pending"}
             own == {fires[k] : k \in {j \in keys : fires[j].status = "pending"}}
             MPlace(f) == S!Cardinality({g \in mine : S!CompareFires(g, f)})
             Place(f) == S!Cardinality({g \in own : S!Precedes(g, f)})
  <1>1. S!MemoryClaimed.fires = fires
    BY SClaim
  <1>2. \A k \in keys : fires[k] \in S!Fire \cup {S!NoFire}
    BY SClaimType
  <1> HIDE DEF fires
  <1>3. S!MemoryPending(fires, limit) = {<<MPlace(f), f>> : f \in {g \in mine : MPlace(g) < limit}}
    BY DEF S!MemoryPending
  <1>4. S!RowPending(fires, limit) = {<<Place(f), f>> : f \in {g \in own : Place(g) < limit}}
    BY DEF S!RowPending
  <1>5. mine = own
    OBVIOUS
  <1>6. own \subseteq S!Fire
    BY <1>2, SNothing
  <1>7. ASSUME NEW f \in own PROVE MPlace(f) = Place(f)
    <2>1. \A g \in own : S!CompareFires(g, f) <=> S!Precedes(g, f)
      BY <1>6, SOrder
    <2> HIDE DEF mine, own
    <2>2. {g \in mine : S!CompareFires(g, f)} = {g \in own : S!Precedes(g, f)}
      BY <1>5, <2>1
    <2> QED BY <2>2
  <1> HIDE DEF mine, own, MPlace, Place
  <1>8. {g \in mine : MPlace(g) < limit} = {g \in own : Place(g) < limit}
    BY <1>5, <1>7
  <1> QED BY <1>1, <1>3, <1>4, <1>5, <1>7, <1>8 DEF fires

LEMMA SAgree == S!Sensible /\ SchedulesInv => S!Agree
  <1> SUFFICES ASSUME S!Sensible, SchedulesInv PROVE S!Agree
    OBVIOUS
  <1> QED BY SFound, SList, SFires, SPending DEF S!Agree, S!Null

LEMMA SStepSave ==
    ASSUME S!Sensible, SchedulesInv, NEW u \in People, NEW input \in S!Input, S!Save(u, input)
    PROVE  SchedulesInv'
  <1> DEFINE new == S!RowSave(u, input)
             id == input.id
  <1>1. id \in Things /\ S!MemorySave(u, input) = new
    BY SFound DEF S!Input
  <1>2. CASE new = S!NoSchedule
    <2>1. UNCHANGED <<memory, table, clock>>
      BY <1>1, <1>2 DEF S!Save
    <2> QED BY <2>1 DEF SchedulesInv, S!TypeOK, SchedulesMatch
  <1>3. CASE new # S!NoSchedule
    <2>1. table.schedules[id].owner \in {0, u}
      BY <1>1, <1>3, SRows DEF S!RowSave
    <2>2. /\ new \in S!Schedule /\ new.id = id /\ new.owner = u
      <3>1. \E created \in Nat : new = S!Saved(u, input, created)
        BY <1>1, <1>3, SRows, SNothing DEF S!RowSave, S!Schedule
      <3> QED BY <1>1, <3>1, SNext, SRows DEF S!Saved, S!Input, S!Schedule
    <2>3. /\ memory' = [schedules |-> [memory.schedules EXCEPT ![<<u, id>>] = new],
                        scheduleOwners |-> [memory.scheduleOwners EXCEPT ![id] = u],
                        fires |-> memory.fires]
          /\ table' = [schedules |-> [table.schedules EXCEPT ![id] = new], fires |-> table.fires]
          /\ clock' = clock
      BY <1>1, <1>3 DEF S!Save
    <2> HIDE DEF new, id
    <2>4. S!TypeOK'
      BY <1>1, <2>2, <2>3 DEF SchedulesInv, S!TypeOK, S!Null
    <2>5. /\ memory'.fires = memory.fires /\ table'.fires = table.fires
          /\ \A x \in Things : /\ memory'.scheduleOwners[x] = IF x = id THEN u ELSE memory.scheduleOwners[x]
                               /\ table'.schedules[x] = IF x = id THEN new ELSE table.schedules[x]
          /\ \A v \in People, x \in Things : memory'.schedules[<<v, x>>] =
                IF v = u /\ x = id THEN new ELSE memory.schedules[<<v, x>>]
      BY <1>1, <2>3 DEF SchedulesInv, S!TypeOK
    <2>6. \A v \in People, x \in Things : memory'.schedules[<<v, x>>] =
              IF table'.schedules[x].owner = v THEN table'.schedules[x] ELSE S!NoSchedule
      <3> SUFFICES ASSUME NEW v \in People, NEW x \in Things
                   PROVE  memory'.schedules[<<v, x>>] =
                              IF table'.schedules[x].owner = v THEN table'.schedules[x] ELSE S!NoSchedule
        OBVIOUS
      <3>1. memory.schedules[<<v, x>>] =
                IF table.schedules[x].owner = v THEN table.schedules[x] ELSE S!NoSchedule
        BY DEF SchedulesInv, SchedulesMatch
      <3>2. CASE x = id
        BY <2>1, <2>2, <2>5, <3>1, <3>2, SNothing
      <3>3. CASE x # id
        BY <2>5, <3>1, <3>3
      <3> QED BY <3>2, <3>3
    <2>7. SchedulesMatch'
      BY <2>2, <2>5, <2>6 DEF SchedulesInv, SchedulesMatch
    <2> QED BY <2>4, <2>7 DEF SchedulesInv
  <1> QED BY <1>2, <1>3

LEMMA SStepClaim ==
    ASSUME S!Sensible, SchedulesInv, S!ClaimDue
    PROVE  SchedulesInv'
  <1>1. memory' = S!MemoryClaimed /\ table' = S!RowClaimed /\ clock' = clock
    BY DEF S!ClaimDue
  <1>2. /\ table' = [schedules |-> [id \in Things |-> table'.schedules[id]],
                     fires |-> [k \in Things \X S!Instants |-> table'.fires[k]]]
        /\ memory' = [schedules |-> [k \in People \X Things |-> memory'.schedules[k]],
                      scheduleOwners |-> memory.scheduleOwners,
                      fires |-> [k \in Things \X S!Instants |-> memory'.fires[k]]]
    <2>1. /\ table' = [schedules |-> table'.schedules, fires |-> table'.fires]
          /\ table'.schedules = [id \in Things |-> table'.schedules[id]]
      BY <1>1 DEF S!RowClaimed
    <2>2. table'.fires = [k \in Things \X S!Instants |-> table'.fires[k]]
      BY <1>1 DEF S!RowClaimed
    <2>3. /\ memory' = [schedules |-> memory'.schedules, scheduleOwners |-> memory.scheduleOwners,
                         fires |-> memory'.fires]
          /\ memory'.schedules = [k \in People \X Things |-> memory'.schedules[k]]
      BY <1>1 DEF S!MemoryClaimed
    <2>4. memory'.fires = [k \in Things \X S!Instants |-> memory'.fires[k]]
      BY <1>1 DEF S!MemoryClaimed
    <2> QED BY <2>1, <2>2, <2>3, <2>4
  <1>3. /\ \A id \in Things : /\ table'.schedules[id] \in S!Schedule \cup {S!NoSchedule}
                              /\ table'.schedules[id].owner = table.schedules[id].owner
                              /\ table'.schedules[id] # S!NoSchedule => table'.schedules[id].id = id
        /\ \A id \in Things, due \in S!Instants :
              /\ table'.fires[<<id, due>>] \in S!Fire \cup {S!NoFire}
              /\ table'.fires[<<id, due>>] # S!NoFire => table'.fires[<<id, due>>].id = id
    BY <1>1, SClaimType
  <1>4. /\ memory'.fires = table'.fires
        /\ memory'.scheduleOwners = memory.scheduleOwners
        /\ \A u \in People, id \in Things : memory'.schedules[<<u, id>>] =
              IF table'.schedules[id].owner = u THEN table'.schedules[id] ELSE S!NoSchedule
    BY <1>1, SClaim
  <1>5. SchedulesMatch'
    BY <1>3, <1>4 DEF SchedulesInv, SchedulesMatch
  <1>6. table' \in [schedules : [Things -> S!Schedule \cup {S!NoSchedule}],
                    fires : [Things \X S!Instants -> S!Fire \cup {S!NoFire}]]
    BY <1>2, <1>3
  <1>7. memory' \in [schedules : [People \X Things -> S!Schedule \cup {S!NoSchedule}],
                     scheduleOwners : [Things -> People \cup {0}],
                     fires : [Things \X S!Instants -> S!Fire \cup {S!NoFire}]]
    <2>1. memory.scheduleOwners \in [Things -> People \cup {0}]
      BY DEF SchedulesInv, S!TypeOK, S!Null
    <2> QED BY <1>2, <1>3, <1>4, <2>1
  <1>8. S!TypeOK'
    BY <1>1, <1>6, <1>7 DEF SchedulesInv, S!TypeOK, S!Null
  <1> QED BY <1>5, <1>8 DEF SchedulesInv

LEMMA SStepComplete ==
    ASSUME S!Sensible, SchedulesInv, NEW u \in People, NEW id \in Things, NEW due \in S!Instants,
           NEW status \in S!Decided, S!Complete(u, id, due, status)
    PROVE  SchedulesInv'
  <1> DEFINE new == S!RowComplete(u, id, due, status)
             fire == table.fires[<<id, due>>]
  <1>1. S!MemoryComplete(u, id, due, status) = new
    BY SFound
  <1>2. CASE new = S!NoFire
    <2>1. UNCHANGED <<memory, table, clock>>
      BY <1>1, <1>2 DEF S!Complete
    <2> QED BY <2>1 DEF SchedulesInv, S!TypeOK, SchedulesMatch
  <1>3. CASE new # S!NoFire
    <2>1. fire \in S!Fire /\ fire.id = id
      BY <1>3, SRows, SNothing DEF S!RowComplete, SchedulesInv, SchedulesMatch
    <2>2. new \in S!Fire /\ new.id = id
      BY <2>1, <1>3, SRows DEF S!RowComplete, S!Fire
    <2>3. /\ memory' = [memory EXCEPT !.fires[<<id, due>>] = new]
          /\ table' = [table EXCEPT !.fires[<<id, due>>] = new]
          /\ clock' = clock
      BY <1>1, <1>3 DEF S!Complete
    <2> HIDE DEF new
    <2>4. /\ memory'.schedules = memory.schedules /\ memory'.scheduleOwners = memory.scheduleOwners
          /\ table'.schedules = table.schedules
          /\ memory'.fires = [memory.fires EXCEPT ![<<id, due>>] = new]
          /\ table'.fires = [table.fires EXCEPT ![<<id, due>>] = new]
      BY <2>3 DEF SchedulesInv, S!TypeOK
    <2>5. S!TypeOK'
      BY <2>2, <2>3 DEF SchedulesInv, S!TypeOK
    <2>6. \A x \in Things, d \in S!Instants :
             table'.fires[<<x, d>>] = IF x = id /\ d = due THEN new ELSE table.fires[<<x, d>>]
      BY <2>4 DEF SchedulesInv, S!TypeOK
    <2>7. memory'.fires = table'.fires
      BY <2>4 DEF SchedulesInv, SchedulesMatch
    <2>8. SchedulesMatch'
      BY <2>2, <2>4, <2>6, <2>7 DEF SchedulesInv, SchedulesMatch
    <2> QED BY <2>5, <2>8 DEF SchedulesInv
  <1> QED BY <1>2, <1>3

LEMMA SStep == S!Sensible /\ SchedulesInv /\ S!Next => SchedulesInv'
  <1> SUFFICES ASSUME S!Sensible, SchedulesInv, S!Next PROVE SchedulesInv'
    OBVIOUS
  <1>1. CASE S!Tick
    BY <1>1 DEF S!Tick, SchedulesInv, S!TypeOK, SchedulesMatch, S!Sensible
  <1> QED BY <1>1, SStepSave, SStepClaim, SStepComplete DEF S!Next

-----------------------------------------------------------------------------
(* Activities                                                              *)

LEMMA ANothing ==
    ASSUME A!Sensible
    PROVE  /\ \A u \in Names : u # 0
           /\ \A id \in Things : id # 0 /\ id \in Nat
           /\ Edits \in Nat \ {0} /\ Moments \in Nat
           /\ A!NoActivity.owner = 0 /\ A!NoActivity.status = "absent" /\ A!NoActivity.revision = 0
           /\ A!NoActivity.recorded = 0
           /\ \A a \in A!Activity : a.owner \in Names /\ a # A!NoActivity
  BY DEF A!Sensible, A!Activity, A!NoActivity, A!Null

\* The array in memory is what the rows say, and revisions count on from 1.
ActivitiesMatch ==
    /\ memory.activities = table.activities
    /\ \A id \in Things : Len(memory.revisions[id]) = table.activities[id].revision
    /\ \A id \in Things, n \in A!Numbers : table.revisions[<<id, n>>] =
          IF n <= Len(memory.revisions[id]) THEN memory.revisions[id][n] ELSE A!NoRevision

ActivitiesInv == A!TypeOK /\ ActivitiesMatch

LEMMA AInit == A!Sensible /\ A!Init => ActivitiesInv
  <1> SUFFICES ASSUME A!Sensible, A!Init PROVE ActivitiesInv
    OBVIOUS
  <1>1. A!TypeOK
    BY DEF A!Init, A!TypeOK, A!Sensible
  <1>2. ActivitiesMatch
    BY ANothing DEF A!Init, ActivitiesMatch, A!Numbers
  <1> QED BY <1>1, <1>2 DEF ActivitiesInv

LEMMA ARows ==
    ASSUME A!Sensible, ActivitiesInv
    PROVE  /\ \A id \in Things : /\ table.activities[id] \in A!Activity \cup {A!NoActivity}
                                 /\ table.activities[id].recorded \in Nat
                                 /\ memory.activities[id] = table.activities[id]
           /\ clock \in 0 .. Moments /\ clock \in Nat /\ Moments \in Nat
  BY ANothing DEF ActivitiesInv, ActivitiesMatch, A!TypeOK, A!Activity

LEMMA AFound ==
    ASSUME A!Sensible, ActivitiesInv, NEW u \in Names, NEW id \in Things
    PROVE  /\ A!FindRecentActivity(u, id) = A!LoadRecentForUpdate(u, id)
           /\ A!LoadRecentForUpdate(u, id) \in A!Activity \cup {A!NoActivity}
           /\ A!LoadRecentForUpdate(u, id) # A!NoActivity =>
                 A!LoadRecentForUpdate(u, id) = table.activities[id]
  BY ARows DEF A!FindRecentActivity, A!LoadRecentForUpdate

LEMMA AFacets ==
    ASSUME NEW a, NEW c
    PROVE  A!CorrectedFacets(a, c) = A!AppliedFacets(a, c)
  BY DEF A!CorrectedFacets, A!AppliedFacets, A!Facets

LEMMA ACorrect ==
    ASSUME A!Sensible, ActivitiesInv, NEW u \in Names, NEW source, NEW id \in Things,
           NEW expected, NEW c
    PROVE  A!MemoryCorrect(u, source, id, expected, c) = A!RowCorrect(u, source, id, expected, c)
  BY AFound, AFacets, ANothing
  DEF A!MemoryCorrect, A!RowCorrect, A!IsCorrectionReplay, A!RequireActiveRevision

LEMMA ASupersede ==
    ASSUME A!Sensible, ActivitiesInv, NEW u \in Names, NEW source, NEW id \in Things,
           NEW expected, NEW other \in Things, NEW otherExpected
    PROVE  A!MemorySupersede(u, source, id, expected, other, otherExpected)
              = A!RowSupersede(u, source, id, expected, other, otherExpected)
  BY AFound, ANothing
  DEF A!MemorySupersede, A!RowSupersede, A!IsSupersessionReplay, A!RequireActiveRevision

LEMMA ARevisions ==
    ASSUME A!Sensible, ActivitiesInv, NEW id \in Things
    PROVE  A!MemoryRevisions(id) = A!RowRevisions(id)
  BY DEF A!MemoryRevisions, A!RowRevisions, ActivitiesInv, ActivitiesMatch

LEMMA ARecent ==
    ASSUME A!Sensible, ActivitiesInv, NEW u \in Names, NEW from \in 0 .. Moments,
           NEW limit \in Limits
    PROVE  A!MemoryRecent(u, from, limit) = A!RowRecent(u, from, limit)
  <1> DEFINE mine == {a \in {memory.activities[id] : id \in Things} :
                   a.owner = u /\ a.status = "active" /\ a.recorded >= from /\ a.recorded <= clock}
             own == {a \in {table.activities[id] : id \in Things} :
                   a.owner = u /\ a.status = "active" /\ from <= a.recorded /\ a.recorded <= clock}
             MBefore(a, b) == a.recorded > b.recorded \/ (a.recorded = b.recorded /\ a.id > b.id)
             Before(a, b) == IF a.recorded = b.recorded THEN a.id > b.id ELSE a.recorded > b.recorded
             MPlace(b) == A!Cardinality({a \in mine : MBefore(a, b)})
             Place(b) == A!Cardinality({a \in own : Before(a, b)})
  <1>1. mine = own
    BY ARows DEF ActivitiesInv, ActivitiesMatch
  <1>2. ASSUME NEW b \in own PROVE MPlace(b) = Place(b)
    <2>1. \A a \in own : a.recorded \in Nat
      BY ARows
    <2>2. \A a \in own : MBefore(a, b) <=> Before(a, b)
      BY <2>1
    <2> HIDE DEF mine, own, MBefore, Before
    <2>3. {a \in mine : MBefore(a, b)} = {a \in own : Before(a, b)}
      BY <1>1, <2>2
    <2> QED BY <2>3
  <1>3. A!MemoryRecent(u, from, limit) = {<<MPlace(a), a>> : a \in {b \in mine : MPlace(b) < limit}}
    BY DEF A!MemoryRecent
  <1>4. A!RowRecent(u, from, limit) = {<<Place(a), a>> : a \in {b \in own : Place(b) < limit}}
    BY DEF A!RowRecent
  <1> HIDE DEF mine, own, MPlace, Place
  <1>5. {b \in mine : MPlace(b) < limit} = {b \in own : Place(b) < limit}
    BY <1>1, <1>2
  <1> QED BY <1>1, <1>2, <1>3, <1>4, <1>5

LEMMA AOwn ==
    ASSUME A!Sensible, ActivitiesInv, NEW u \in Names,
           NEW from \in 0 .. Moments, NEW to \in 0 .. Moments
    PROVE  A!MemoryOwn(u, from, to) = A!RowOwn(u, from, to)
  <1>1. \A id \in Things : table.activities[id].recorded \in from .. to
            <=> table.activities[id].recorded >= from /\ table.activities[id].recorded <= to
    BY ARows
  <1> QED BY <1>1, ARows DEF A!MemoryOwn, A!RowOwn

LEMMA AAgree == A!Sensible /\ ActivitiesInv => A!Agree
  <1> SUFFICES ASSUME A!Sensible, ActivitiesInv PROVE A!Agree
    OBVIOUS
  <1>1. \A id \in Things : memory.activities[id] = table.activities[id]
    BY ARows
  <1> QED BY <1>1, ARevisions, ARecent, AOwn, ACorrect, ASupersede DEF A!Agree

LEMMA AMutated ==
    ASSUME A!Sensible, ActivitiesInv, NEW id \in Things, NEW a \in A!Activity,
           NEW operation \in {"created", "corrected", "superseded"}, NEW source \in A!Messages,
           a.revision = table.activities[id].revision + 1,
           memory' = A!MemoryMutated(id, a, operation, source),
           table' = A!RowMutated(id, a, operation, source), clock' = clock
    PROVE  ActivitiesInv'
  <1> DEFINE new == A!RevisionSnapshot(a, operation, source)
             number == a.revision
             older == memory.revisions[id]
  <1>1. /\ new \in A!Revision /\ A!InsertedRevision(a, operation, source) = new
        /\ number \in A!Numbers
    BY ARows DEF A!RevisionSnapshot, A!InsertedRevision, A!Activity, A!Revision
  <1>2. /\ memory' = [activities |-> [memory.activities EXCEPT ![id] = a],
                      revisions |-> [memory.revisions EXCEPT ![id] = Append(older, new)]]
        /\ table' = [activities |-> [table.activities EXCEPT ![id] = a],
                     revisions |-> [table.revisions EXCEPT ![<<id, number>>] = new]]
    BY <1>1 DEF A!MemoryMutated, A!RowMutated
  <1>3. older \in Seq(A!Revision) /\ Len(older) + 1 = number /\ Len(older) \in Nat
    BY DEF ActivitiesInv, ActivitiesMatch, A!TypeOK
  <1> HIDE DEF new, number, older
  <1>4. /\ Append(older, new) \in Seq(A!Revision) /\ Len(Append(older, new)) = number
        /\ Append(older, new)[number] = new
        /\ \A n \in 1 .. Len(older) : Append(older, new)[n] = older[n]
    BY <1>1, <1>3
  <1>5. A!TypeOK'
    BY <1>1, <1>2, <1>4 DEF ActivitiesInv, A!TypeOK
  <1>6. /\ memory'.activities = table'.activities
        /\ \A x \in Things : table'.activities[x] = IF x = id THEN a ELSE table.activities[x]
        /\ \A x \in Things : memory'.revisions[x] =
                 IF x = id THEN Append(older, new) ELSE memory.revisions[x]
        /\ \A x \in Things, n \in A!Numbers : table'.revisions[<<x, n>>] =
                 IF x = id /\ n = number THEN new ELSE table.revisions[<<x, n>>]
    BY <1>1, <1>2 DEF ActivitiesInv, ActivitiesMatch, A!TypeOK
  <1>7. \A x \in Things : Len(memory'.revisions[x]) = table'.activities[x].revision
    BY <1>4, <1>6 DEF ActivitiesInv, ActivitiesMatch, number
  <1>8. ASSUME NEW x \in Things, NEW n \in A!Numbers
        PROVE  table'.revisions[<<x, n>>] =
          IF n <= Len(memory'.revisions[x]) THEN memory'.revisions[x][n] ELSE A!NoRevision
    <2>1. table.revisions[<<x, n>>] =
          IF n <= Len(memory.revisions[x]) THEN memory.revisions[x][n] ELSE A!NoRevision
      BY DEF ActivitiesInv, ActivitiesMatch
    <2>2. CASE x # id
      BY <1>6, <2>1, <2>2
    <2>3. CASE x = id /\ n = number
      <3>1. /\ memory'.revisions[x] = Append(older, new) /\ table'.revisions[<<x, n>>] = new
        BY <1>1, <1>6, <2>3
      <3>2. n \in Int /\ Len(memory'.revisions[x]) = n
        BY <1>4, <2>3, <3>1 DEF A!Numbers
      <3> QED BY <1>4, <2>3, <3>1, <3>2
    <2>4. CASE x = id /\ n # number
      <3>1. n <= number <=> n <= Len(older)
        BY <1>1, <1>3, <2>4 DEF A!Numbers
      <3>2. n <= Len(older) => Append(older, new)[n] = older[n]
        BY <1>4 DEF A!Numbers
      <3>3. memory'.revisions[x] = Append(older, new) /\ table'.revisions[<<x, n>>] = table.revisions[<<x, n>>]
        BY <1>6, <2>4
      <3> QED BY <1>4, <2>1, <2>4, <3>1, <3>2, <3>3 DEF older
    <2> QED BY <2>2, <2>3, <2>4
  <1> QED BY <1>5, <1>6, <1>7, <1>8 DEF ActivitiesInv, ActivitiesMatch

LEMMA AStepSave ==
    ASSUME A!Sensible, ActivitiesInv, NEW u \in Names, NEW id \in Things, NEW category \in Names,
           NEW label \in Names \cup {0}, A!SaveActivity(u, id, category, label)
    PROVE  ActivitiesInv'
  <1>1. PICK a : a = A!Recorded(u, id, category, label)
    OBVIOUS
  <1>2. PICK source : source = <<u, clock>>
    OBVIOUS
  <1>3. a \in A!Activity /\ a.revision = 1
    BY <1>1, ARows, ANothing DEF A!Recorded, A!Activity, A!Numbers, A!Null
  <1>4. source \in A!Messages
    BY <1>2, ARows DEF A!Messages
  <1>5. /\ table.activities[id] = A!NoActivity /\ clock' = clock
        /\ memory' = A!MemoryMutated(id, a, "created", source)
        /\ table' = A!RowMutated(id, a, "created", source)
    BY <1>1, <1>2 DEF A!SaveActivity
  <1>6. a.revision = table.activities[id].revision + 1
    BY <1>3, <1>5, ANothing
  <1> QED BY <1>3, <1>4, <1>5, <1>6, AMutated

LEMMA AUnchanged ==
    ASSUME ActivitiesInv, UNCHANGED <<memory, table, clock>>
    PROVE  ActivitiesInv'
  BY DEF ActivitiesInv, A!TypeOK, ActivitiesMatch

LEMMA AStepCorrect ==
    ASSUME A!Sensible, ActivitiesInv, NEW u \in Names, NEW source \in A!Messages, NEW id \in Things,
           NEW expected \in A!Numbers, NEW c \in A!Corrections, A!Correct(u, source, id, expected, c)
    PROVE  ActivitiesInv'
  <1>1. PICK a : a = A!RowCorrect(u, source, id, expected, c)
    OBVIOUS
  <1>2. /\ a = A!MemoryCorrect(u, source, id, expected, c)
        /\ memory.activities[id] = table.activities[id]
    BY <1>1, ACorrect, ARows
  <1>3. CASE a \in {A!NoActivity, table.activities[id]}
    BY <1>1, <1>2, <1>3, AUnchanged DEF A!Correct
  <1>4. CASE a \notin {A!NoActivity, table.activities[id]}
    <2> DEFINE row == table.activities[id]
               facets == A!AppliedFacets(row, c)
    <2>1. /\ row \in A!Activity /\ row.revision = expected
          /\ a = A!Corrected(row, facets, source)
      BY <1>1, <1>4, AFound, ANothing DEF A!RowCorrect, A!RequireActiveRevision
    <2>2. facets.category \in Names \cup {0} /\ facets.label \in Names \cup {0}
      <3>1. /\ row.category \in Names \cup {0} /\ row.label \in Names \cup {0}
            /\ c.category \in Names \cup {0} /\ c.label \in Names \cup {0, -1}
        BY <2>1 DEF A!Activity, A!Corrections, A!Null, A!Kept
      <3> QED BY <3>1 DEF A!AppliedFacets, A!Facets, A!Null, A!Kept
    <2>3. expected + 1 \in A!Numbers
      BY ANothing DEF A!Correct, A!Numbers
    <2> HIDE DEF facets, row
    <2>4. a \in A!Activity /\ a.revision = row.revision + 1
      BY <2>1, <2>2, <2>3, ARows DEF A!Corrected, A!Activity, A!Null
    <2>5. /\ memory' = A!MemoryMutated(id, a, "corrected", source)
          /\ table' = A!RowMutated(id, a, "corrected", source) /\ clock' = clock
      BY <1>1, <1>2, <1>4 DEF A!Correct
    <2> QED BY <2>4, <2>5, AMutated DEF row
  <1> QED BY <1>3, <1>4

LEMMA AStepSupersede ==
    ASSUME A!Sensible, ActivitiesInv, NEW u \in Names, NEW source \in A!Messages, NEW id \in Things,
           NEW expected \in A!Numbers, NEW other \in Things, NEW otherExpected \in A!Numbers,
           A!Supersede(u, source, id, expected, other, otherExpected)
    PROVE  ActivitiesInv'
  <1>1. PICK a : a = A!RowSupersede(u, source, id, expected, other, otherExpected)
    OBVIOUS
  <1>2. /\ a = A!MemorySupersede(u, source, id, expected, other, otherExpected)
        /\ memory.activities[id] = table.activities[id]
    BY <1>1, ASupersede, ARows
  <1>3. CASE a \in {A!NoActivity, table.activities[id]}
    BY <1>1, <1>2, <1>3, AUnchanged DEF A!Supersede
  <1>4. CASE a \notin {A!NoActivity, table.activities[id]}
    <2> DEFINE row == table.activities[id]
    <2>1. /\ row \in A!Activity /\ row.revision = expected
          /\ a = A!Superseded(row, other, source)
      BY <1>1, <1>4, AFound, ANothing DEF A!RowSupersede, A!RequireActiveRevision
    <2>2. expected + 1 \in A!Numbers
      BY ANothing DEF A!Supersede, A!Numbers
    <2> HIDE DEF row
    <2>3. a \in A!Activity /\ a.revision = row.revision + 1
      BY <2>1, <2>2, ARows DEF A!Superseded, A!Activity, A!Null
    <2>4. /\ memory' = A!MemoryMutated(id, a, "superseded", source)
          /\ table' = A!RowMutated(id, a, "superseded", source) /\ clock' = clock
      BY <1>1, <1>2, <1>4 DEF A!Supersede
    <2> QED BY <2>3, <2>4, AMutated DEF row
  <1> QED BY <1>3, <1>4

LEMMA AStep == A!Sensible /\ ActivitiesInv /\ A!Next => ActivitiesInv'
  <1> SUFFICES ASSUME A!Sensible, ActivitiesInv, A!Next PROVE ActivitiesInv'
    OBVIOUS
  <1>1. CASE A!Tick
    BY <1>1 DEF A!Tick, ActivitiesInv, A!TypeOK, ActivitiesMatch, A!Sensible
  <1> QED BY <1>1, AStepSave, AStepCorrect, AStepSupersede DEF A!Next, A!Null

-----------------------------------------------------------------------------
(* Profiles, enrolment codes and consents                                  *)

LEMMA PNothing ==
    ASSUME P!Sensible
    PROVE  /\ \A e \in People : e # 0 /\ e \in Nat
           /\ \A c \in Names : c # 0
           /\ Days \in Nat
           /\ P!NoParticipant.employee = 0 /\ P!NoParticipant.status = "absent"
           /\ P!NoParticipant.group = 0 /\ P!NoConsent.version = 0
           /\ \A p \in P!Participant : p # P!NoParticipant
           /\ \A p \in P!Profile : p # P!NoProfile
           /\ \A x \in P!Consent : x # P!NoConsent /\ x.version # 0
  BY DEF P!Sensible, P!Participant, P!NoParticipant, P!Consent, P!NoConsent, P!Profile, P!NoProfile,
         P!Null

\* The arrays in memory are what the rows say; the index of codes is that of their digests.
ProfilesMatch ==
    /\ memory.participants = table.participants
    /\ memory.consents = table.consents /\ memory.profiles = table.profiles
    /\ \A e \in People :
          /\ table.codes[e] # 0 =>
                /\ table.participants[e] # P!NoParticipant
                /\ memory.inviteIndex[table.codes[e]] = e
          /\ table.participants[e] # P!NoParticipant => table.participants[e].employee = e
          /\ table.participants[e].status = "profile_completed" => table.profiles[e] # P!NoProfile
    /\ \A c \in Names : memory.inviteIndex[c] # 0 => table.codes[memory.inviteIndex[c]] = c

ProfilesInv == P!TypeOK /\ ProfilesMatch

LEMMA PInit == P!Sensible /\ P!Init => ProfilesInv
  <1> SUFFICES ASSUME P!Sensible, P!Init PROVE ProfilesInv
    OBVIOUS
  <1>1. P!TypeOK
    BY DEF P!Init, P!TypeOK, P!Sensible, P!Null
  <1>2. ProfilesMatch
    BY PNothing DEF P!Init, ProfilesMatch, P!Null
  <1> QED BY <1>1, <1>2 DEF ProfilesInv

LEMMA PRows ==
    ASSUME P!Sensible, ProfilesInv
    PROVE  /\ \A e \in People :
                 /\ table.participants[e] \in P!Participant \cup {P!NoParticipant}
                 /\ table.consents[e] \in P!Consent \cup {P!NoConsent}
                 /\ table.profiles[e] \in P!Profile \cup {P!NoProfile}
                 /\ memory.participants[e] = table.participants[e]
                 /\ memory.consents[e] = table.consents[e]
                 /\ memory.profiles[e] = table.profiles[e]
           /\ clock \in Nat
  BY PNothing DEF ProfilesInv, ProfilesMatch, P!TypeOK

LEMMA PByCode ==
    ASSUME P!Sensible, ProfilesInv, NEW c \in Names
    PROVE  /\ memory.inviteIndex[c] = P!RowOwner(c)
           /\ P!RowOwner(c) \in People \cup {0}
           /\ P!MemoryByCode(c) = P!RowByCode(c)
  <1> DEFINE owners == {e \in People : table.codes[e] = c}
             o == memory.inviteIndex[c]
  <1>1. o \in People \cup {0}
    BY DEF ProfilesInv, P!TypeOK, P!Null
  <1>2. CASE o = 0
    <2>1. owners = {}
      BY <1>2, PNothing DEF ProfilesInv, ProfilesMatch
    <2> QED BY <1>2, <2>1 DEF P!RowOwner, P!RowByCode, P!MemoryByCode, P!Null
  <1>3. CASE o # 0
    <2>1. o \in owners /\ \A e \in owners : e = o
      BY <1>1, <1>3, PNothing DEF ProfilesInv, ProfilesMatch
    <2>2. owners # {} /\ (CHOOSE e \in owners : TRUE) = o
      BY <2>1
    <2>3. P!RowOwner(c) = o
      BY <2>2 DEF P!RowOwner
    <2> QED BY <1>1, <1>3, <2>3, PRows DEF P!RowByCode, P!MemoryByCode, P!Null
  <1> QED BY <1>2, <1>3

LEMMA POpen ==
    ASSUME P!Sensible, ProfilesInv, NEW c \in Names, NEW shown \in BOOLEAN
    PROVE  P!MemoryOpen(c, shown) = P!RowOpen(c, shown)
  BY PByCode, PNothing DEF P!MemoryOpen, P!RowOpen

LEMMA PIssue ==
    ASSUME P!Sensible, ProfilesInv, NEW c \in Names, NEW e \in People, NEW g \in Names
    PROVE  P!MemoryIssue(e, c, g) = P!RowIssue(e, c, g)
  BY PByCode, PRows, PNothing DEF P!MemoryIssue, P!RowIssue, P!Null

LEMMA PLatest ==
    ASSUME NEW a \in Nat, NEW b \in Nat
    PROVE  P!LatestDate(a, b) = P!Greatest(a, b)
  BY DEF P!LatestDate, P!Greatest

\* What is answered to an employee.
LEMMA PFound ==
    ASSUME P!Sensible, ProfilesInv, NEW e \in People
    PROVE  /\ P!MemoryShown(e) = P!RowShown(e)
           /\ P!MemoryReminded(e) = P!RowReminded(e)
           /\ P!MemoryDeleteInvited(e) = P!RowDeleteInvited(e)
           /\ \A version \in Names : P!MemoryAccept(e, version) = P!RowAccept(e, version)
           /\ \A words \in Names : P!MemoryUpdate(e, words) = P!RowUpdate(e, words)
           /\ \A on \in 1 .. clock : P!MemoryTouch(e, on) = P!RowTouch(e, on)
           /\ \A role, on : table.participants[e] \in P!Participant /\ on \in Nat =>
                 P!MemoryTouched(e, role, on) = P!RowTouched(e, role, on)
           /\ \A profile : \A allowUpdate \in BOOLEAN :
                 P!MemoryComplete(e, profile, allowUpdate) = P!RowComplete(e, profile, allowUpdate)
           /\ table.participants[e] \in P!Participant => P!MemoryConsented(e) = P!RowConsented(e)
  <1> DEFINE row == table.participants[e]
  <1>1. /\ memory.participants[e] = row /\ memory.consents[e] = table.consents[e]
        /\ memory.profiles[e] = table.profiles[e]
        /\ row \in P!Participant \cup {P!NoParticipant}
        /\ table.consents[e] \in P!Consent \cup {P!NoConsent} /\ clock \in Nat
    BY PRows
  <1>2. row.touch \in Nat /\ (row \in P!Participant => [row EXCEPT !.touch = row.touch] = row)
    BY <1>1 DEF P!Participant, P!NoParticipant
  <1>3. P!MemoryShown(e) = P!RowShown(e) /\ P!MemoryReminded(e) = P!RowReminded(e)
    BY <1>1 DEF P!MemoryShown, P!RowShown, P!MemoryReminded, P!RowReminded
  <1>4. P!MemoryDeleteInvited(e) = P!RowDeleteInvited(e)
    BY <1>1, PNothing DEF P!MemoryDeleteInvited, P!RowDeleteInvited
  <1>5. ASSUME NEW version \in Names PROVE P!MemoryAccept(e, version) = P!RowAccept(e, version)
    BY <1>1, PNothing DEF P!MemoryAccept, P!RowAccept
  <1>6. ASSUME NEW words \in Names PROVE P!MemoryUpdate(e, words) = P!RowUpdate(e, words)
    BY <1>1 DEF P!MemoryUpdate, P!RowUpdate
  <1>7. ASSUME NEW on \in 1 .. clock PROVE P!MemoryTouch(e, on) = P!RowTouch(e, on)
    <2>1. P!Greatest(row.touch, on) = IF row.touch = 0 \/ row.touch < on THEN on ELSE row.touch
      BY <1>1, <1>2 DEF P!Greatest
    <2> HIDE DEF row
    <2> QED BY <1>1, <1>2, <2>1 DEF P!MemoryTouch, P!RowTouch, row
  <1>8. ASSUME NEW role, NEW on, row \in P!Participant, on \in Nat
        PROVE  P!MemoryTouched(e, role, on) = P!RowTouched(e, role, on)
    BY <1>1, <1>2, <1>8, PLatest DEF P!MemoryTouched, P!RowTouched
  <1>9. ASSUME NEW profile, NEW allowUpdate \in BOOLEAN
        PROVE  P!MemoryComplete(e, profile, allowUpdate) = P!RowComplete(e, profile, allowUpdate)
    BY <1>1 DEF P!MemoryComplete, P!RowComplete, ProfilesInv, ProfilesMatch
  <1>10. ASSUME row \in P!Participant PROVE P!MemoryConsented(e) = P!RowConsented(e)
    <2>1. CASE row.status = "profile_completed"
      <3>1. [row EXCEPT !.status = "profile_completed"] = row
        BY <1>10, <2>1 DEF P!Participant
      <3> QED BY <1>1, <2>1, <3>1 DEF P!MemoryConsented, P!RowConsented
    <2>2. CASE row.status # "profile_completed"
      BY <1>1, <2>2 DEF P!MemoryConsented, P!RowConsented
    <2> QED BY <2>1, <2>2
  <1> QED BY <1>3, <1>4, <1>5, <1>6, <1>7, <1>8, <1>9, <1>10

LEMMA PCandidates ==
    ASSUME P!Sensible, ProfilesInv
    PROVE  P!MemoryCandidates = P!RowCandidates
  <1> DEFINE mine == {e \in People :
                 /\ memory.participants[e].status = "profile_completed"
                 /\ memory.participants[e].touch # 0 /\ memory.profiles[e] # P!NoProfile}
             own == {d \in People : table.profiles[d] # P!NoProfile /\ table.participants[d].touch # 0
                                    /\ table.participants[d].status = "profile_completed"}
  <1>1. mine = own
    BY PRows
  <1>2. P!MemoryCandidates = {<<memory.participants[e], memory.profiles[e].words>> : e \in mine}
    BY DEF P!MemoryCandidates
  <1>3. P!RowCandidates = {<<table.participants[e], table.profiles[e].words>> : e \in own}
    BY DEF P!RowCandidates
  <1>4. mine \subseteq People
    OBVIOUS
  <1> HIDE DEF mine, own
  <1> QED BY <1>1, <1>2, <1>3, <1>4, PRows

LEMMA PPage ==
    ASSUME P!Sensible, ProfilesInv, NEW g \in Names, NEW limit \in Limits, NEW at \in 1 .. clock,
           NEW after \in People \cup {0}
    PROVE  P!MemoryPage(g, limit, at, after) = P!RowPage(g, limit, at, after)
  <1> DEFINE Before(p, q) ==
                 p.created < q.created \/ (p.created = q.created /\ p.employee < q.employee)
             Exceeds(p, created, employee) ==
                 IF p.created = created THEN p.employee > employee ELSE p.created > created
             mine == {p \in {memory.participants[e] : e \in People} :
                         /\ p.group = g
                         /\ after = 0 \/ p.created > at \/ (p.created = at /\ p.employee > after)}
             own == {p \in {table.participants[e] : e \in People} :
                         p.group = g /\ (after # 0 => Exceeds(p, at, after))}
             MPlace(p) == P!Cardinality({q \in mine : Before(q, p)})
             Place(p) == P!Cardinality({q \in own : Exceeds(p, q.created, q.employee)})
  <1>1. \A e \in People : table.participants[e].group = g =>
            /\ table.participants[e].created \in Nat /\ table.participants[e].employee \in Nat
    BY PRows, PNothing DEF P!Participant
  <1>2. at \in Nat /\ after \in Nat
    BY PRows, PNothing
  <1>3. mine = own
    <2>1. \A e \in People : table.participants[e].group = g =>
             (Exceeds(table.participants[e], at, after)
                <=> \/ table.participants[e].created > at
                    \/ table.participants[e].created = at /\ table.participants[e].employee > after)
      BY <1>1, <1>2
    <2> HIDE DEF Exceeds
    <2> QED BY <2>1, PRows
  <1>4. \A p \in own : p.created \in Nat /\ p.employee \in Nat
    BY <1>1
  <1>5. ASSUME NEW p \in own PROVE MPlace(p) = Place(p)
    <2>1. \A q \in own : Before(q, p) <=> Exceeds(p, q.created, q.employee)
      BY <1>4
    <2> HIDE DEF mine, own, Before, Exceeds
    <2>2. {q \in mine : Before(q, p)} = {q \in own : Exceeds(p, q.created, q.employee)}
      BY <1>3, <2>1
    <2> QED BY <2>2
  <1>6. P!MemoryPage(g, limit, at, after) = {<<MPlace(p), p>> : p \in {q \in mine : MPlace(q) < limit}}
    BY DEF P!MemoryPage, P!Null
  <1>7. P!RowPage(g, limit, at, after) = {<<Place(p), p>> : p \in {q \in own : Place(q) < limit}}
    BY DEF P!RowPage, P!Null
  <1> HIDE DEF mine, own, MPlace, Place
  <1>8. {q \in mine : MPlace(q) < limit} = {q \in own : Place(q) < limit}
    BY <1>3, <1>5
  <1> QED BY <1>3, <1>5, <1>6, <1>7, <1>8

LEMMA PAgree == P!Sensible /\ ProfilesInv => P!Agree
  <1> SUFFICES ASSUME P!Sensible, ProfilesInv PROVE P!Agree
    OBVIOUS
  <1>1. \A c \in Names :
          /\ P!MemoryByCode(c) = P!RowByCode(c)
          /\ \A shown \in BOOLEAN : P!MemoryOpen(c, shown) = P!RowOpen(c, shown)
          /\ \A e \in People, g \in Names : P!MemoryIssue(e, c, g) = P!RowIssue(e, c, g)
    BY PByCode, POpen, PIssue
  <1>2. ASSUME NEW e \in People
        PROVE  /\ memory.participants[e] = table.participants[e]
               /\ memory.consents[e] = table.consents[e]
               /\ memory.profiles[e] = table.profiles[e]
               /\ P!MemoryShown(e) = P!RowShown(e)
               /\ P!MemoryReminded(e) = P!RowReminded(e)
               /\ P!MemoryDeleteInvited(e) = P!RowDeleteInvited(e)
               /\ \A version \in Names : P!MemoryAccept(e, version) = P!RowAccept(e, version)
               /\ \A words \in Names : P!MemoryUpdate(e, words) = P!RowUpdate(e, words)
               /\ \A on \in 1 .. clock : P!MemoryTouch(e, on) = P!RowTouch(e, on)
               /\ \A profile : \A allowUpdate \in BOOLEAN :
                     P!MemoryComplete(e, profile, allowUpdate) = P!RowComplete(e, profile, allowUpdate)
    BY PRows, PFound
  <1>3. P!MemoryCandidates = P!RowCandidates
    BY PCandidates
  <1>4. \A g \in Names, limit \in Limits, at \in 1 .. clock, after \in People \cup {0} :
           P!MemoryPage(g, limit, at, after) = P!RowPage(g, limit, at, after)
    BY PPage
  <1> QED BY <1>1, <1>2, <1>3, <1>4 DEF P!Agree, P!Null

LEMMA PUnchanged ==
    ASSUME ProfilesInv, UNCHANGED <<memory, table, clock>>
    PROVE  ProfilesInv'
  BY DEF ProfilesInv, P!TypeOK, ProfilesMatch

\* A step that leaves the codes alone.
LEMMA PChanged ==
    ASSUME P!Sensible, ProfilesInv, NEW e \in People, table.participants[e] # P!NoParticipant,
           NEW p \in P!Participant, p.employee = e,
           P!TypeOK', memory'.inviteIndex = memory.inviteIndex, table'.codes = table.codes,
           memory'.participants = [memory.participants EXCEPT ![e] = p],
           table'.participants = [table.participants EXCEPT ![e] = p],
           memory'.consents = table'.consents, memory'.profiles = table'.profiles,
           p.status = "profile_completed" => table'.profiles[e] # P!NoProfile,
           \A d \in People : table.profiles[d] # P!NoProfile => table'.profiles[d] # P!NoProfile
    PROVE  ProfilesInv'
  <1>1. /\ memory'.participants = table'.participants
        /\ \A d \in People : table'.participants[d] = IF d = e THEN p ELSE table.participants[d]
    BY DEF ProfilesInv, ProfilesMatch, P!TypeOK
  <1>2. ProfilesMatch'
    BY <1>1, PNothing DEF ProfilesInv, ProfilesMatch
  <1> QED BY <1>2 DEF ProfilesInv

LEMMA PChangedAlone ==
    ASSUME P!Sensible, ProfilesInv, NEW e \in People, table.participants[e] # P!NoParticipant,
           NEW p \in P!Participant, p.employee = e,
           p.status = "profile_completed" => table.profiles[e] # P!NoProfile,
           memory' = [memory EXCEPT !.participants = [memory.participants EXCEPT ![e] = p]],
           table' = [table EXCEPT !.participants = [table.participants EXCEPT ![e] = p]],
           clock' = clock
    PROVE  ProfilesInv'
  <1>1. P!TypeOK'
    BY DEF ProfilesInv, P!TypeOK
  <1>2. /\ memory'.participants = [memory.participants EXCEPT ![e] = p]
        /\ table'.participants = [table.participants EXCEPT ![e] = p]
        /\ memory'.inviteIndex = memory.inviteIndex /\ table'.codes = table.codes
        /\ memory'.consents = table'.consents /\ memory'.profiles = table'.profiles
        /\ table'.profiles = table.profiles
    BY DEF ProfilesInv, ProfilesMatch, P!TypeOK
  <1> QED BY <1>1, <1>2, PChanged

LEMMA PStepIssue ==
    ASSUME P!Sensible, ProfilesInv, NEW e \in People, NEW c \in Names, NEW g \in Names,
           P!IssueInvite(e, c, g)
    PROVE  ProfilesInv'
  <1>1. P!MemoryIssue(e, c, g) = P!RowIssue(e, c, g)
    BY PIssue
  <1>2. CASE ~ P!RowIssue(e, c, g).created
    BY <1>1, <1>2, PUnchanged DEF P!IssueInvite
  <1>3. CASE P!RowIssue(e, c, g).created
    <2> DEFINE new == P!Invited(e, g)
    <2>1. P!RowOwner(c) = 0 /\ table.participants[e] = P!NoParticipant
      BY <1>3 DEF P!RowIssue, P!Issued, P!Null
    <2>2. memory.inviteIndex[c] = 0 /\ table.codes[e] = 0
      BY <2>1, PByCode DEF ProfilesInv, ProfilesMatch
    <2>3. new \in P!Participant /\ new.employee = e /\ new.status = "invite_issued"
      BY PRows DEF P!Invited, P!NoParticipant, P!Participant, P!Statuses, P!Null
    <2> HIDE DEF new
    <2>4. /\ memory' = [memory EXCEPT !.participants = [memory.participants EXCEPT ![e] = new],
                                      !.inviteIndex = [memory.inviteIndex EXCEPT ![c] = e]]
          /\ table' = [table EXCEPT !.participants = [table.participants EXCEPT ![e] = new],
                                    !.codes = [table.codes EXCEPT ![e] = c]]
          /\ clock' = clock
      BY <1>1, <1>3 DEF P!IssueInvite, new
    <2>5. P!TypeOK'
      BY <2>3, <2>4 DEF ProfilesInv, P!TypeOK, P!Null
    <2>6. /\ memory'.participants = table'.participants
          /\ memory'.consents = table'.consents /\ memory'.profiles = table'.profiles
          /\ table'.profiles = table.profiles
          /\ \A d \in People : /\ table'.participants[d] = IF d = e THEN new ELSE table.participants[d]
                               /\ table'.codes[d] = IF d = e THEN c ELSE table.codes[d]
          /\ \A x \in Names : memory'.inviteIndex[x] = IF x = c THEN e ELSE memory.inviteIndex[x]
      BY <2>4 DEF ProfilesInv, ProfilesMatch, P!TypeOK
    <2>7. /\ \A d \in People : table.codes[d] \in Names \cup {0}
          /\ \A x \in Names : memory.inviteIndex[x] \in People \cup {0}
      BY DEF ProfilesInv, P!TypeOK, P!Null
    <2>8. ProfilesMatch'
      BY <2>1, <2>2, <2>3, <2>6, <2>7, PNothing DEF ProfilesInv, ProfilesMatch
    <2> QED BY <2>5, <2>8 DEF ProfilesInv
  <1> QED BY <1>2, <1>3

LEMMA PStepOpen ==
    ASSUME P!Sensible, ProfilesInv, NEW c \in Names, NEW shown \in BOOLEAN, P!OpenInvite(c, shown)
    PROVE  ProfilesInv'
  <1> DEFINE answer == P!RowOpen(c, shown)
  <1>1. P!MemoryOpen(c, shown) = answer
    BY POpen
  <1>2. CASE ~ answer.opened
    BY <1>1, <1>2, PUnchanged DEF P!OpenInvite
  <1>3. CASE answer.opened
    <2>1. PICK e : e = P!RowOwner(c)
      OBVIOUS
    <2>2. PICK row : row = P!RowByCode(c)
      OBVIOUS
    <2>3. PICK p : p = answer.participant
      OBVIOUS
    <2>4. /\ row.status = "invite_issued"
          /\ p = [row EXCEPT !.status = "invite_opened", !.shown = IF shown THEN clock ELSE row.shown]
      BY <1>3, <2>2, <2>3 DEF P!RowOpen, P!Opened
    <2>5. e \in People /\ row = table.participants[e]
      BY <2>1, <2>2, <2>4, PByCode, PNothing DEF P!RowByCode, P!Null
    <2>6. row \in P!Participant /\ row.employee = e /\ row # P!NoParticipant
      BY <2>4, <2>5, PRows, PNothing DEF ProfilesInv, ProfilesMatch
    <2>7. p \in P!Participant /\ p.employee = e /\ p.status # "profile_completed"
      BY <2>4, <2>6, PRows DEF P!Participant, P!Statuses
    <2>8. /\ memory' = [memory EXCEPT !.participants = [memory.participants EXCEPT ![e] = p]]
          /\ table' = [table EXCEPT !.participants = [table.participants EXCEPT ![e] = p]]
          /\ clock' = clock
      BY <1>1, <1>3, <2>3, <2>7 DEF P!OpenInvite, P!InMemory, P!InTable
    <2> QED BY <2>5, <2>6, <2>7, <2>8, PChangedAlone
  <1> QED BY <1>2, <1>3

LEMMA PStepAccept ==
    ASSUME P!Sensible, ProfilesInv, NEW e \in People, NEW version \in Names,
           P!AcceptConsent(e, version)
    PROVE  ProfilesInv'
  <1> DEFINE answer == P!RowAccept(e, version)
             row == table.participants[e]
  <1>1. P!MemoryAccept(e, version) = answer
    BY PFound
  <1>2. row # P!NoParticipant /\ row \in P!Participant /\ row.employee = e
    BY PRows DEF P!AcceptConsent, ProfilesInv, ProfilesMatch
  <1>3. CASE ~ answer.created
    BY <1>1, <1>3, PUnchanged DEF P!AcceptConsent
  <1>4. CASE answer.created
    <2>1. PICK p : p = P!RowConsented(e)
      OBVIOUS
    <2>2. P!MemoryConsented(e) = p
      BY <1>2, <2>1, PFound
    <2>3. /\ p \in P!Participant /\ p.employee = e
          /\ p.status = "profile_completed" => row.status = "profile_completed"
      BY <1>2, <2>1 DEF P!RowConsented, P!Participant, P!Statuses
    <2>4. PICK x : x = answer.consent
      OBVIOUS
    <2>5. x \in P!Consent
      BY <1>4, <2>4, PRows DEF P!RowAccept, P!Accepted, P!Consent
    <2>6. /\ memory' = [memory EXCEPT !.consents = [memory.consents EXCEPT ![e] = x],
                              !.participants = [memory.participants EXCEPT ![e] = p]]
          /\ table' = [table EXCEPT !.consents = [table.consents EXCEPT ![e] = x],
                              !.participants = [table.participants EXCEPT ![e] = p]]
          /\ clock' = clock
      BY <1>1, <1>4, <2>1, <2>2, <2>4 DEF P!AcceptConsent
    <2>7. P!TypeOK'
      BY <2>3, <2>5, <2>6 DEF ProfilesInv, P!TypeOK
    <2>8. /\ memory'.participants = [memory.participants EXCEPT ![e] = p]
          /\ table'.participants = [table.participants EXCEPT ![e] = p]
          /\ memory'.inviteIndex = memory.inviteIndex /\ table'.codes = table.codes
          /\ memory'.consents = table'.consents /\ memory'.profiles = table'.profiles
          /\ table'.profiles = table.profiles
      BY <2>6 DEF ProfilesInv, ProfilesMatch, P!TypeOK
    <2>9. p.status = "profile_completed" => table.profiles[e] # P!NoProfile
      BY <2>3 DEF ProfilesInv, ProfilesMatch
    <2> QED BY <1>2, <2>3, <2>7, <2>8, <2>9, PChanged
  <1> QED BY <1>3, <1>4

LEMMA PStepComplete ==
    ASSUME P!Sensible, ProfilesInv, NEW e \in People, NEW role \in Names, NEW words \in Names,
           NEW allowUpdate \in BOOLEAN, NEW on \in 0 .. clock,
           P!CompleteProfile(e, role, words, allowUpdate, on)
    PROVE  ProfilesInv'
  <1> DEFINE row == table.participants[e]
             earlier == table.profiles[e]
  <1>1. PICK profile : profile = [employee |-> e, role |-> role, words |-> words,
                                  created |-> IF memory.profiles[e] = P!NoProfile THEN clock
                                              ELSE memory.profiles[e].created]
    OBVIOUS
  <1>2. PICK answer : answer = P!RowComplete(e, profile, allowUpdate)
    OBVIOUS
  <1>3. answer = P!MemoryComplete(e, profile, allowUpdate)
    BY <1>2, PFound
  <1>4. profile \in P!Profile /\ P!RowUpserted(e, profile) = profile
    <2>1. profile \in P!Profile /\ (earlier # P!NoProfile => earlier.created = profile.created)
      BY <1>1, PRows DEF P!Profile
    <2>2. [profile EXCEPT !.created = profile.created] = profile
      BY <2>1 DEF P!Profile
    <2> HIDE DEF earlier
    <2> QED BY <2>1, <2>2 DEF P!RowUpserted, earlier
  <1>5. CASE answer.profile = P!NoProfile \/ (answer.wasCompleted /\ ~allowUpdate)
    BY <1>1, <1>2, <1>3, <1>5, PUnchanged DEF P!CompleteProfile
  <1>6. CASE ~ (answer.profile = P!NoProfile \/ (answer.wasCompleted /\ ~allowUpdate))
    <2>1. row # P!NoParticipant /\ row \in P!Participant /\ row.employee = e
      BY <1>2, <1>6, PRows DEF P!RowComplete, P!Completed, ProfilesInv, ProfilesMatch
    <2>2. PICK p : p = P!RowTouched(e, role, on)
      OBVIOUS
    <2>3. on \in Nat /\ P!MemoryTouched(e, role, on) = p
      <3>1. on \in Nat
        BY PRows
      <3> QED BY <2>1, <2>2, <3>1, PFound
    <2>4. p \in P!Participant /\ p.employee = e
      <3>1. P!Greatest(row.touch, on) \in Nat
        BY <2>1, <2>3 DEF P!Greatest, P!Participant
      <3> QED BY <2>1, <2>2, <3>1 DEF P!RowTouched, P!Participant, P!Statuses
    <2>5. /\ memory' = [memory EXCEPT !.profiles = [memory.profiles EXCEPT ![e] = profile],
                              !.participants = [memory.participants EXCEPT ![e] = p]]
          /\ table' = [table EXCEPT !.profiles = [table.profiles EXCEPT ![e] = profile],
                              !.participants = [table.participants EXCEPT ![e] = p]]
          /\ clock' = clock
      <3>1. /\ memory' =
                   IF \/ P!MemoryComplete(e, profile, allowUpdate).profile = P!NoProfile
                      \/ P!MemoryComplete(e, profile, allowUpdate).wasCompleted /\ ~allowUpdate
                   THEN memory
                   ELSE [memory EXCEPT !.profiles = [memory.profiles EXCEPT ![e] = profile],
                             !.participants = [memory.participants EXCEPT
                                                   ![e] = P!MemoryTouched(e, role, on)]]
            /\ table' =
                   IF \/ P!RowComplete(e, profile, allowUpdate).profile = P!NoProfile
                      \/ P!RowComplete(e, profile, allowUpdate).wasCompleted /\ ~allowUpdate
                   THEN table
                   ELSE [table EXCEPT !.profiles = [table.profiles EXCEPT ![e] = P!RowUpserted(e, profile)],
                             !.participants = [table.participants EXCEPT ![e] = P!RowTouched(e, role, on)]]
            /\ clock' = clock
        BY <1>1, Zenon DEF P!CompleteProfile
      <3>2. /\ P!MemoryComplete(e, profile, allowUpdate) = answer
            /\ P!RowComplete(e, profile, allowUpdate) = answer
            /\ P!MemoryTouched(e, role, on) = p /\ P!RowTouched(e, role, on) = p
            /\ P!RowUpserted(e, profile) = profile
        BY <1>2, <1>3, <1>4, <2>2, <2>3
      <3>3. /\ memory' =
                   IF answer.profile = P!NoProfile \/ (answer.wasCompleted /\ ~allowUpdate) THEN memory
                   ELSE [memory EXCEPT !.profiles = [memory.profiles EXCEPT ![e] = profile],
                              !.participants = [memory.participants EXCEPT ![e] = p]]
            /\ table' =
                   IF answer.profile = P!NoProfile \/ (answer.wasCompleted /\ ~allowUpdate) THEN table
                   ELSE [table EXCEPT !.profiles = [table.profiles EXCEPT ![e] = profile],
                              !.participants = [table.participants EXCEPT ![e] = p]]
        BY <3>1, <3>2, Zenon
      <3> QED BY <1>6, <3>1, <3>3
    <2>6. P!TypeOK'
      BY <1>4, <2>4, <2>5 DEF ProfilesInv, P!TypeOK
    <2>7. /\ memory'.participants = [memory.participants EXCEPT ![e] = p]
          /\ table'.participants = [table.participants EXCEPT ![e] = p]
          /\ memory'.inviteIndex = memory.inviteIndex /\ table'.codes = table.codes
          /\ memory'.consents = table'.consents /\ memory'.profiles = table'.profiles
          /\ \A d \in People : table'.profiles[d] = IF d = e THEN profile ELSE table.profiles[d]
      BY <2>5 DEF ProfilesInv, ProfilesMatch, P!TypeOK
    <2>8. /\ table'.profiles[e] # P!NoProfile
          /\ \A d \in People : table.profiles[d] # P!NoProfile => table'.profiles[d] # P!NoProfile
      BY <1>4, <2>7, PNothing
    <2> QED BY <2>1, <2>4, <2>6, <2>7, <2>8, PChanged
  <1> QED BY <1>5, <1>6

LEMMA PStepUpdate ==
    ASSUME P!Sensible, ProfilesInv, NEW e \in People, NEW words \in Names,
           P!UpdatePersonalContext(e, words)
    PROVE  ProfilesInv'
  <1>1. PICK profile : profile = P!RowUpdate(e, words)
    OBVIOUS
  <1>2. P!MemoryUpdate(e, words) = profile
    BY <1>1, PFound
  <1>3. CASE profile = P!NoProfile
    BY <1>1, <1>2, <1>3, PUnchanged DEF P!UpdatePersonalContext
  <1>4. CASE profile # P!NoProfile
    <2>1. profile \in P!Profile
      BY <1>1, <1>4, PRows DEF P!RowUpdate, P!Profile
    <2>2. /\ memory' = [memory EXCEPT !.profiles = [memory.profiles EXCEPT ![e] = profile]]
          /\ table' = [table EXCEPT !.profiles = [table.profiles EXCEPT ![e] = profile]]
          /\ clock' = clock
      BY <1>1, <1>2, <1>4 DEF P!UpdatePersonalContext
    <2>3. P!TypeOK'
      BY <2>1, <2>2 DEF ProfilesInv, P!TypeOK
    <2>4. /\ memory'.participants = memory.participants /\ table'.participants = table.participants
          /\ memory'.inviteIndex = memory.inviteIndex /\ table'.codes = table.codes
          /\ memory'.consents = table'.consents /\ memory'.profiles = table'.profiles
          /\ \A d \in People : table'.profiles[d] = IF d = e THEN profile ELSE table.profiles[d]
      BY <2>2 DEF ProfilesInv, ProfilesMatch, P!TypeOK
    <2>5. ProfilesMatch'
      BY <2>1, <2>4, PNothing DEF ProfilesInv, ProfilesMatch
    <2> QED BY <2>3, <2>5 DEF ProfilesInv
  <1> QED BY <1>3, <1>4

\* The last touch, the explanation shown and the reminder sent are columns of a participant.
LEMMA PStepShown ==
    ASSUME P!Sensible, ProfilesInv, NEW e \in People, P!RecordPrivacyExplanationShown(e)
    PROVE  ProfilesInv'
  <1>1. PICK p : p = P!RowShown(e)
    OBVIOUS
  <1>2. P!MemoryShown(e) = p
    BY <1>1, PFound
  <1>3. CASE p = P!NoParticipant
    BY <1>1, <1>2, <1>3, PUnchanged DEF P!RecordPrivacyExplanationShown
  <1>4. CASE p # P!NoParticipant
    <2>1. /\ table.participants[e] # P!NoParticipant /\ table.participants[e].employee = e
          /\ p = [table.participants[e] EXCEPT !.shown = clock]
      BY <1>1, <1>4 DEF P!RowShown, ProfilesInv, ProfilesMatch
    <2>2. p \in P!Participant /\ p.employee = e /\ p.status = table.participants[e].status
      BY <2>1, PRows DEF P!Participant
    <2>3. /\ memory' = [memory EXCEPT !.participants = [memory.participants EXCEPT ![e] = p]]
          /\ table' = [table EXCEPT !.participants = [table.participants EXCEPT ![e] = p]]
          /\ clock' = clock
      BY <1>1, <1>2, <1>4 DEF P!RecordPrivacyExplanationShown, P!InMemory, P!InTable
    <2>4. p.status = "profile_completed" => table.profiles[e] # P!NoProfile
      BY <2>2 DEF ProfilesInv, ProfilesMatch
    <2> QED BY <2>1, <2>2, <2>3, <2>4, PChangedAlone
  <1> QED BY <1>3, <1>4

LEMMA PStepReminded ==
    ASSUME P!Sensible, ProfilesInv, NEW e \in People, P!RecordEngagementReminderSent(e)
    PROVE  ProfilesInv'
  <1>1. PICK p : p = P!RowReminded(e)
    OBVIOUS
  <1>2. P!MemoryReminded(e) = p
    BY <1>1, PFound
  <1>3. CASE p = P!NoParticipant
    BY <1>1, <1>2, <1>3, PUnchanged DEF P!RecordEngagementReminderSent
  <1>4. CASE p # P!NoParticipant
    <2> DEFINE row == table.participants[e]
    <2>1. /\ row # P!NoParticipant /\ row.employee = e /\ row \in P!Participant
          /\ p = [row EXCEPT !.sent = row.sent + 1, !.lastSent = clock]
      BY <1>1, <1>4, PRows DEF P!RowReminded, ProfilesInv, ProfilesMatch
    <2>2. p \in P!Participant /\ p.employee = e /\ p.status = row.status
      <3>1. row.sent + 1 \in Nat /\ clock \in Nat
        BY <2>1, PRows DEF P!Participant
      <3> QED BY <2>1, <3>1 DEF P!Participant
    <2>3. /\ memory' = [memory EXCEPT !.participants = [memory.participants EXCEPT ![e] = p]]
          /\ table' = [table EXCEPT !.participants = [table.participants EXCEPT ![e] = p]]
          /\ clock' = clock
      BY <1>1, <1>2, <1>4 DEF P!RecordEngagementReminderSent, P!InMemory, P!InTable
    <2>4. p.status = "profile_completed" => table.profiles[e] # P!NoProfile
      BY <2>2 DEF ProfilesInv, ProfilesMatch
    <2> QED BY <2>1, <2>2, <2>3, <2>4, PChangedAlone
  <1> QED BY <1>3, <1>4

LEMMA PStepTouch ==
    ASSUME P!Sensible, ProfilesInv, NEW e \in People, NEW on \in 1 .. clock,
           P!RecordParticipantTouch(e, on)
    PROVE  ProfilesInv'
  <1>1. PICK p : p = P!RowTouch(e, on)
    OBVIOUS
  <1>2. P!MemoryTouch(e, on) = p
    BY <1>1, PFound
  <1>3. CASE p = P!NoParticipant
    BY <1>1, <1>2, <1>3, PUnchanged DEF P!RecordParticipantTouch
  <1>4. CASE p # P!NoParticipant
    <2> DEFINE row == table.participants[e]
    <2>1. /\ row # P!NoParticipant /\ row.employee = e /\ row \in P!Participant
          /\ p = [row EXCEPT !.touch = P!Greatest(row.touch, on)]
      BY <1>1, <1>4, PRows DEF P!RowTouch, ProfilesInv, ProfilesMatch
    <2>2. P!Greatest(row.touch, on) \in Nat
      BY <2>1, PRows DEF P!Greatest, P!Participant
    <2>3. p \in P!Participant /\ p.employee = e /\ p.status = row.status
      BY <2>1, <2>2 DEF P!Participant
    <2>4. /\ memory' = [memory EXCEPT !.participants = [memory.participants EXCEPT ![e] = p]]
          /\ table' = [table EXCEPT !.participants = [table.participants EXCEPT ![e] = p]]
          /\ clock' = clock
      BY <1>1, <1>2, <1>4 DEF P!RecordParticipantTouch, P!InMemory, P!InTable
    <2>5. p.status = "profile_completed" => table.profiles[e] # P!NoProfile
      BY <2>3 DEF ProfilesInv, ProfilesMatch
    <2> QED BY <2>1, <2>3, <2>4, <2>5, PChangedAlone
  <1> QED BY <1>3, <1>4

\* Without an employee the index has no code of theirs.
LEMMA PWithout ==
    ASSUME P!Sensible, ProfilesInv, NEW e \in People,
           memory' = P!MemoryWithout(e), table' = P!RowWithout(e), clock' = clock
    PROVE  ProfilesInv'
  <1>1. P!TypeOK'
    BY DEF P!MemoryWithout, P!RowWithout, ProfilesInv, P!TypeOK, P!Null
  <1>2. /\ memory'.participants = table'.participants
        /\ memory'.consents = table'.consents /\ memory'.profiles = table'.profiles
        /\ \A d \in People :
              /\ table'.participants[d] = IF d = e THEN P!NoParticipant ELSE table.participants[d]
              /\ table'.codes[d] = IF d = e THEN 0 ELSE table.codes[d]
              /\ table'.profiles[d] = IF d = e THEN P!NoProfile ELSE table.profiles[d]
        /\ \A c \in Names : memory'.inviteIndex[c] =
              IF memory.inviteIndex[c] = e THEN 0 ELSE memory.inviteIndex[c]
    BY DEF P!MemoryWithout, P!RowWithout, ProfilesInv, ProfilesMatch, P!TypeOK, P!Null
  <1>3. /\ \A d \in People : table.codes[d] \in Names \cup {0}
        /\ \A c \in Names : memory.inviteIndex[c] \in People \cup {0}
    BY DEF ProfilesInv, P!TypeOK, P!Null
  <1>4. ProfilesMatch'
    BY <1>2, <1>3, PNothing DEF ProfilesInv, ProfilesMatch
  <1> QED BY <1>1, <1>4 DEF ProfilesInv

LEMMA PStepDelete ==
    ASSUME P!Sensible, ProfilesInv, NEW e \in People,
           P!DeleteInvitedParticipant(e) \/ P!DeleteEmployeePersonalData(e)
    PROVE  ProfilesInv'
  <1>1. P!MemoryDeleteInvited(e) = P!RowDeleteInvited(e)
    BY PFound
  <1>2. \/ UNCHANGED <<memory, table, clock>>
        \/ memory' = P!MemoryWithout(e) /\ table' = P!RowWithout(e) /\ clock' = clock
    BY <1>1 DEF P!DeleteInvitedParticipant, P!DeleteEmployeePersonalData
  <1> QED BY <1>2, PUnchanged, PWithout

LEMMA PStep == P!Sensible /\ ProfilesInv /\ P!Next => ProfilesInv'
  <1> SUFFICES ASSUME P!Sensible, ProfilesInv, P!Next PROVE ProfilesInv'
    OBVIOUS
  <1>1. CASE P!Tick
    BY <1>1 DEF P!Tick, ProfilesInv, P!TypeOK, ProfilesMatch, P!Sensible
  <1> QED BY <1>1, PStepIssue, PStepOpen, PStepAccept, PStepComplete, PStepUpdate, PStepShown,
             PStepReminded, PStepTouch, PStepDelete DEF P!Next

-----------------------------------------------------------------------------
(* Context documents                                                       *)

\* The state of an object whose versions and markers these are
StatOf(objects) ==
    IF objects = {} THEN D!NoDocument
    ELSE LET latest == CHOOSE o \in objects : \A other \in objects : other.version <= o.version
         IN  IF latest.content = 0 THEN D!NoDocument ELSE latest

\* The maps in memory are what the bucket says; versions of a key differ and are past.
DocumentsMatch ==
    \A k \in D!Keys :
       /\ memory.documents[k] = StatOf(table[k])
       /\ memory.versions[k] = {o \in table[k] : o.content # 0}
       /\ memory.documents[k] # D!NoDocument => memory.documents[k] \in memory.versions[k]
       /\ \A o, p \in table[k] : o.version = p.version => o = p
       /\ \A o \in table[k] : o.version <= clock
       /\ memory.versions[k] # {} =>
             \E v \in memory.versions[k] : \A w \in memory.versions[k] : w.version <= v.version

DocumentsInv == D!TypeOK /\ DocumentsMatch

LEMMA DNothing ==
    ASSUME D!Sensible
    PROVE  /\ \A x \in Words : x # 0 /\ x \in Nat
           /\ D!NoDocument.version = 0 /\ D!NoDocument.content = 0
           /\ \A x \in D!Document : x # D!NoDocument /\ x \in D!Object /\ x.content # 0 /\ x.version \in Nat \ {0}
           /\ \A x \in D!Object : x.version \in Nat /\ (x.content # 0 => x \in D!Document)
           /\ Names \subseteq Things
  BY DEF D!Sensible, D!Document, D!NoDocument, D!Object, D!Null

LEMMA DStat == \A k : D!Stat(k) = StatOf(table[k])
  BY DEF D!Stat, StatOf, D!Null

\* The latest is what was added last.
LEMMA DLatest ==
    ASSUME NEW objects, NEW o, o.version \in Nat, \A p \in objects : p.version \in Nat /\ p.version < o.version
    PROVE  StatOf(objects \cup {o}) = IF o.content = 0 THEN D!NoDocument ELSE o
  <1> DEFINE both == objects \cup {o}
             latest == CHOOSE x \in both : \A other \in both : other.version <= x.version
  <1>1. o \in both /\ \A other \in both : other.version <= o.version
    OBVIOUS
  <1>2. latest \in both /\ \A other \in both : other.version <= latest.version
    BY <1>1
  <1>3. latest = o
    BY <1>1, <1>2
  <1> HIDE DEF latest
  <1>4. StatOf(both) = IF latest.content = 0 THEN D!NoDocument ELSE latest
    BY <1>1 DEF StatOf, latest
  <1> QED BY <1>3, <1>4

LEMMA DInit == D!Sensible /\ D!Init => DocumentsInv
  <1> SUFFICES ASSUME D!Sensible, D!Init PROVE DocumentsInv
    OBVIOUS
  <1>1. PICK imported \in [Names \X Names -> Words \cup {0}] :
           LET Was(k) == k[3] = "legacy" /\ k[2] \in Names /\ imported[<<k[1], k[2]>>] # 0
               Import(k) == [version |-> 1, content |-> imported[<<k[1], k[2]>>]]
           IN  /\ memory = [documents |-> [k \in D!Keys |-> IF Was(k) THEN Import(k) ELSE D!NoDocument],
                            versions |-> [k \in D!Keys |-> IF Was(k) THEN {Import(k)} ELSE {}]]
               /\ table = [k \in D!Keys |-> IF Was(k) THEN {Import(k)} ELSE {}]
    BY DEF D!Init, D!Null
  <1>2. clock = 1
    BY DEF D!Init
  <1> DEFINE Was(k) == k[3] = "legacy" /\ k[2] \in Names /\ imported[<<k[1], k[2]>>] # 0
             Import(k) == [version |-> 1, content |-> imported[<<k[1], k[2]>>]]
  <1>3. /\ memory = [documents |-> [k \in D!Keys |-> IF Was(k) THEN Import(k) ELSE D!NoDocument],
                     versions |-> [k \in D!Keys |-> IF Was(k) THEN {Import(k)} ELSE {}]]
        /\ table = [k \in D!Keys |-> IF Was(k) THEN {Import(k)} ELSE {}]
    BY <1>1
  <1>4. ASSUME NEW k \in D!Keys, Was(k)
        PROVE  Import(k) \in D!Document /\ Import(k).version = 1 /\ Import(k).content # 0
    <2>1. k[1] \in Names /\ k[2] \in Names
      BY <1>4 DEF D!Keys
    <2> QED BY <1>4, <2>1 DEF D!Document
  <1>5. ASSUME NEW k \in D!Keys, Was(k)
        PROVE  StatOf({Import(k)}) = Import(k)
    <2>1. StatOf({} \cup {Import(k)}) = Import(k)
      BY <1>4, <1>5, DLatest
    <2>2. {} \cup {Import(k)} = {Import(k)}
      OBVIOUS
    <2> QED BY <2>1, <2>2
  <1>6. StatOf({}) = D!NoDocument
    BY DEF StatOf
  <1> HIDE DEF Was, Import
  <1>7. D!TypeOK
    BY <1>2, <1>3, <1>4, DNothing DEF D!TypeOK
  <1>8. DocumentsMatch
    <2> SUFFICES ASSUME NEW k \in D!Keys
                 PROVE  /\ memory.documents[k] = StatOf(table[k])
                        /\ memory.versions[k] = {o \in table[k] : o.content # 0}
                        /\ memory.documents[k] # D!NoDocument => memory.documents[k] \in memory.versions[k]
                        /\ \A o, p \in table[k] : o.version = p.version => o = p
                        /\ \A o \in table[k] : o.version <= clock
                        /\ memory.versions[k] # {} =>
                              \E v \in memory.versions[k] : \A w \in memory.versions[k] : w.version <= v.version
      BY DEF DocumentsMatch
    <2>1. CASE Was(k)
      <3>1. /\ memory.documents[k] = Import(k) /\ memory.versions[k] = {Import(k)} /\ table[k] = {Import(k)}
        BY <1>3, <2>1
      <3> QED BY <1>2, <1>4, <1>5, <2>1, <3>1
    <2>2. CASE ~ Was(k)
      <3>1. memory.documents[k] = D!NoDocument /\ memory.versions[k] = {} /\ table[k] = {}
        BY <1>3, <2>2
      <3> QED BY <1>6, <3>1
    <2> QED BY <2>1, <2>2
  <1> QED BY <1>7, <1>8 DEF DocumentsInv

LEMMA DRows ==
    ASSUME D!Sensible, DocumentsInv, NEW k \in D!Keys
    PROVE  /\ memory.documents[k] = D!Stat(k) /\ memory.versions[k] = D!Historical(k)
           /\ memory.documents[k] \in D!Document \cup {D!NoDocument}
           /\ D!Historical(k) \subseteq D!Document /\ D!Historical(k) \subseteq table[k]
           /\ table[k] \subseteq D!Object
           /\ memory.documents[k] # D!NoDocument => memory.documents[k] \in D!Historical(k)
           /\ \A o, p \in table[k] : o.version = p.version => o = p
           /\ D!Historical(k) # {} =>
                 \E v \in D!Historical(k) : \A w \in D!Historical(k) : w.version <= v.version
  BY DStat DEF DocumentsInv, DocumentsMatch, D!TypeOK, D!Historical, D!Null

LEMMA DFound ==
    ASSUME D!Sensible, DocumentsInv, NEW u \in Names, NEW d \in Things
    PROVE  /\ \A place \in D!Places : D!ReadExact(u, d, place) = D!GetExact(u, d, place)
           /\ D!CurrentLogical(u, d) = D!ReadLogical(u, d)
           /\ D!ReadLogical(u, d) \in D!Document \cup {D!NoDocument}
  <1>1. ASSUME NEW place \in D!Places
        PROVE  /\ D!ReadExact(u, d, place) = D!GetExact(u, d, place)
               /\ D!GetExact(u, d, place) \in D!Document \cup {D!NoDocument}
    <2>1. <<u, d, place>> \in D!Keys
      BY DEF D!Keys
    <2> QED BY <2>1, DRows DEF D!ReadExact, D!GetExact
  <1>2. "canonical" \in D!Places /\ "legacy" \in D!Places
    BY DEF D!Places
  <1> QED BY <1>1, <1>2 DEF D!CurrentLogical, D!ReadLogical

LEMMA DAnswers ==
    ASSUME D!Sensible, DocumentsInv, NEW u \in Names, NEW d \in Things
    PROVE  /\ \A content : D!MemoryPutIfAbsent(u, d, content) = D!BucketPutIfAbsent(u, d, content)
           /\ \A content, version : D!MemoryPutIfVersion(u, d, version, content)
                                       = D!BucketPutIfVersion(u, d, version, content)
           /\ \A version : D!MemoryDeleteIf(u, d, version) = D!BucketDeleteIf(u, d, version)
           /\ \A to \in Things : \A version : D!MemoryMove(u, d, to, version) = D!BucketMove(u, d, to, version)
  <1>1. \A x \in Things : D!CurrentLogical(u, x) = D!ReadLogical(u, x)
    BY DFound
  <1>2. \A content : D!MemoryPutIfAbsent(u, d, content) = D!BucketPutIfAbsent(u, d, content)
    BY <1>1 DEF D!MemoryPutIfAbsent, D!BucketPutIfAbsent
  <1>3. \A content, version : D!MemoryPutIfVersion(u, d, version, content)
                                       = D!BucketPutIfVersion(u, d, version, content)
    BY <1>1 DEF D!MemoryPutIfVersion, D!BucketPutIfVersion
  <1>4. \A version : D!MemoryDeleteIf(u, d, version) = D!BucketDeleteIf(u, d, version)
    BY <1>1 DEF D!MemoryDeleteIf, D!BucketDeleteIf
  <1>5. ASSUME NEW to \in Things, NEW version
        PROVE  D!MemoryMove(u, d, to, version) = D!BucketMove(u, d, to, version)
    BY <1>1 DEF D!MemoryMove, D!BucketMove
  <1> QED BY <1>2, <1>3, <1>4, <1>5

LEMMA DVersion ==
    ASSUME D!Sensible, DocumentsInv, NEW k \in D!Keys, NEW version
    PROVE  /\ D!Version(k, version) = {v \in memory.versions[k] : v.version = version}
           /\ D!Version(k, version) \subseteq D!Document
           /\ \A v, w \in D!Version(k, version) : v = w
  BY DRows DEF D!Version, D!Historical, D!Null

LEMMA DPinned ==
    ASSUME D!Sensible, DocumentsInv, NEW u \in Names, NEW d \in Things, NEW place \in D!Places,
           NEW version \in Nat \ {0}
    PROVE  D!MemoryPinned(u, d, place, version) \in {D!NoDocument, D!BucketPinned(u, d, place, version)}
  <1> DEFINE k == <<u, d, place>>
             found == D!Version(k, version)
  <1>1. k \in D!Keys
    BY DEF D!Keys
  <1>2. CASE memory.documents[k].version # version
    BY <1>2 DEF D!MemoryPinned, D!ReadExact
  <1>3. CASE memory.documents[k].version = version
    <2>1. memory.documents[k] # D!NoDocument
      BY <1>3, DNothing
    <2>2. memory.documents[k] \in found
      BY <1>1, <1>3, <2>1, DRows DEF D!Version, D!Historical, D!Null
    <2>3. (CHOOSE o \in found : TRUE) = memory.documents[k]
      BY <1>1, <2>2, DVersion
    <2>4. D!BucketPinned(u, d, place, version) = memory.documents[k]
      BY <2>2, <2>3 DEF D!BucketPinned
    <2> QED BY <1>3, <2>4 DEF D!MemoryPinned, D!ReadExact
  <1> QED BY <1>2, <1>3

LEMMA DRestore ==
    ASSUME D!Sensible, DocumentsInv, NEW u \in Names, NEW d \in Things, NEW version
    PROVE  /\ D!MemoryRestore(u, d, version) = D!BucketRestore(u, d, version)
           /\ \/ D!BucketRestore(u, d, version) = D!NoDocument
              \/ \E content \in Words : D!BucketRestore(u, d, version) = D!New(content)
  <1> DEFINE canonical == D!Version(<<u, d, "canonical">>, version)
             legacy == D!Version(<<u, d, "legacy">>, version)
  <1>1. <<u, d, "canonical">> \in D!Keys /\ <<u, d, "legacy">> \in D!Keys
    BY DEF D!Keys, D!Places
  <1>2. /\ canonical = {v \in memory.versions[<<u, d, "canonical">>] : v.version = version}
        /\ legacy = {v \in memory.versions[<<u, d, "legacy">>] : v.version = version}
        /\ canonical \subseteq D!Document /\ legacy \subseteq D!Document
    BY <1>1, DVersion
  <1> HIDE DEF canonical, legacy
  <1>3. D!MemoryRestore(u, d, version)
           = LET found == IF canonical # {} \/ d \notin Names THEN canonical ELSE legacy
             IN  IF found = {} THEN D!NoDocument ELSE D!New((CHOOSE v \in found : TRUE).content)
    BY <1>2 DEF D!MemoryRestore
  <1>4. /\ D!BucketPinned(u, d, "canonical", version)
              = IF canonical = {} THEN D!NoDocument ELSE CHOOSE o \in canonical : TRUE
        /\ D!BucketPinned(u, d, "legacy", version)
              = IF legacy = {} THEN D!NoDocument ELSE CHOOSE o \in legacy : TRUE
    BY DEF D!BucketPinned, canonical, legacy
  <1>5. \A x \in D!Document : x # D!NoDocument /\ x.content \in Words
    BY DNothing DEF D!Document
  <1>6. canonical # {} => (CHOOSE v \in canonical : TRUE) \in D!Document
    BY <1>2
  <1>7. legacy # {} => (CHOOSE v \in legacy : TRUE) \in D!Document
    BY <1>2
  <1>8. CASE canonical # {}
    BY <1>3, <1>4, <1>5, <1>6, <1>8 DEF D!BucketRestore
  <1>9. CASE canonical = {} /\ (d \notin Names \/ legacy = {})
    BY <1>3, <1>4, <1>9 DEF D!BucketRestore
  <1>10. CASE canonical = {} /\ d \in Names /\ legacy # {}
    BY <1>3, <1>4, <1>5, <1>7, <1>10 DEF D!BucketRestore
  <1> QED BY <1>8, <1>9, <1>10

\* Of a history that is not empty some version is within every limit.
LEMMA DNewest ==
    ASSUME D!Sensible, DocumentsInv, NEW k \in D!Keys, NEW limit \in Words
    PROVE  /\ D!Newest(D!Historical(k), limit) = D!Newest(memory.versions[k], limit)
           /\ D!Newest(D!Historical(k), limit) = {} <=> D!Historical(k) = {}
  <1> DEFINE history == D!Historical(k)
  <1>1. memory.versions[k] = history
    BY DRows
  <1>2. ASSUME history # {}
        PROVE  D!Newest(history, limit) # {}
    <2>1. PICK v \in history : \A w \in history : w.version <= v.version
      BY <1>2, DRows
    <2>2. \A w \in history : w.version \in Nat
      BY DRows, DNothing
    <2>3. {w \in history : w.version > v.version} = {}
      BY <2>1, <2>2
    <2>4. D!Cardinality({}) = 0
      BY FS_EmptySet DEF D!Cardinality, Cardinality
    <2>5. limit \in Nat /\ 0 < limit
      BY DEF D!Sensible
    <2>6. v \in D!Newest(history, limit)
      BY <2>1, <2>3, <2>4, <2>5 DEF D!Newest
    <2> QED BY <2>6
  <1>3. D!Newest({}, limit) = {}
    BY DEF D!Newest
  <1> QED BY <1>1, <1>2, <1>3

LEMMA DVersions ==
    ASSUME D!Sensible, DocumentsInv, NEW u \in Names, NEW d \in Things, NEW limit \in Words
    PROVE  D!MemoryVersions(u, d, limit) = D!BucketVersions(u, d, limit)
  <1>1. <<u, d, "canonical">> \in D!Keys /\ <<u, d, "legacy">> \in D!Keys
    BY DEF D!Keys, D!Places
  <1>2. \A k \in D!Keys : memory.versions[k] = D!Historical(k)
    BY DRows
  <1> QED BY <1>1, <1>2, DNewest DEF D!MemoryVersions, D!BucketVersions

LEMMA DLists ==
    ASSUME D!Sensible, DocumentsInv, NEW u \in Names, NEW within \in SUBSET Things
    PROVE  /\ D!MemoryList(u, within) = D!BucketList(u, within)
           /\ \A place \in D!Places : D!MemoryListExact(u, within, place) = D!BucketListExact(u, within, place)
  <1>1. \A k \in D!Keys : memory.documents[k] = D!Stat(k)
    BY DRows
  <1> DEFINE entries == {k \in D!Keys : k[1] = u /\ k[2] \in within /\ memory.documents[k] # D!NoDocument}
             Listed(place) == {k \in D!Keys : k[1] = u /\ k[2] \in within /\ k[3] = place
                                               /\ D!Stat(k) # D!NoDocument}
             objects == Listed("canonical") \cup Listed("legacy")
  <1>2. \A k \in D!Keys : k[3] \in {"canonical", "legacy"}
    BY DEF D!Keys, D!Places
  <1>3. entries = objects
    BY <1>1, <1>2
  <1>4. \A k \in entries : <<u, k[2], "canonical">> \in D!Keys
    BY DEF D!Keys, D!Places
  <1>5. \A k \in entries : memory.documents[<<u, k[2], "canonical">>] = D!NoDocument
                               <=> <<u, k[2], "canonical">> \notin objects
    <2> TAKE k \in entries
    <2> DEFINE c == <<u, k[2], "canonical">>
    <2>1. c \in D!Keys /\ c[1] = u /\ c[2] \in within
      BY <1>4
    <2>2. c \in entries <=> memory.documents[c] # D!NoDocument
      BY <2>1
    <2> QED BY <1>3, <2>2
  <1>6. D!MemoryList(u, within) = D!BucketList(u, within)
    <2> DEFINE first == {e \in entries : e[3] = "canonical" \/ memory.documents[<<u, e[2], "canonical">>] = D!NoDocument}
               second == {e \in objects : e[3] = "canonical" \/ <<u, e[2], "canonical">> \notin objects}
    <2>1. first = second
      BY <1>3, <1>5
    <2>2. \A e \in first : memory.documents[e] = D!Stat(e)
      BY <1>1
    <2>3. D!MemoryList(u, within) = {<<k[2], memory.documents[k]>> : k \in first}
      BY DEF D!MemoryList
    <2>4. D!BucketList(u, within) = {<<k[2], D!Stat(k)>> : k \in second}
      BY DEF D!BucketList
    <2> HIDE DEF first, second
    <2> QED BY <2>1, <2>2, <2>3, <2>4
  <1>7. ASSUME NEW place \in D!Places
        PROVE  D!MemoryListExact(u, within, place) = D!BucketListExact(u, within, place)
    <2> DEFINE first == {e \in D!Keys : /\ e[1] = u /\ e[2] \in within /\ e[3] = place
                                        /\ memory.documents[e] # D!NoDocument}
               second == {o \in {u} \X within \X {place} : D!Stat(o) # D!NoDocument}
    <2>1. \A k \in D!Keys : k[1] = u /\ k[2] \in within /\ k[3] = place <=> k \in {u} \X within \X {place}
      BY DEF D!Keys
    <2>2. {u} \X within \X {place} \subseteq D!Keys
      BY DEF D!Keys
    <2>3. first = second
      BY <1>1, <2>1, <2>2
    <2>4. \A e \in first : memory.documents[e] = D!Stat(e)
      BY <1>1
    <2>5. D!MemoryListExact(u, within, place) = {<<k, memory.documents[k]>> : k \in first}
      BY DEF D!MemoryListExact
    <2>6. D!BucketListExact(u, within, place) = {<<k, D!Stat(k)>> : k \in second}
      BY DEF D!BucketListExact
    <2> HIDE DEF first, second
    <2> QED BY <2>3, <2>4, <2>5, <2>6
  <1> QED BY <1>6, <1>7

LEMMA DAgree == D!Sensible /\ DocumentsInv => D!Agree
  <1> SUFFICES ASSUME D!Sensible, DocumentsInv PROVE D!Agree
    OBVIOUS
  <1>1. \A version \in 1 .. clock : version \in Nat \ {0}
    BY DEF DocumentsInv, D!TypeOK
  <1>2. \A u \in Names : \A d \in Things : \A place \in D!Places :
           D!ReadExact(u, d, place) = D!GetExact(u, d, place)
    BY DFound
  <1>3. \A u \in Names : \A d \in Things : D!CurrentLogical(u, d) = D!ReadLogical(u, d)
    BY DFound
  <1>4. \A u \in Names : \A d \in Things : \A place \in D!Places : \A version \in 1 .. clock :
           D!MemoryPinned(u, d, place, version) \in {D!NoDocument, D!BucketPinned(u, d, place, version)}
    BY <1>1, DPinned
  <1>5. \A u \in Names : \A d \in Things : \A version : D!MemoryRestore(u, d, version) = D!BucketRestore(u, d, version)
    BY DRestore
  <1>6. \A u \in Names : \A d \in Things : \A limit \in Words : D!MemoryVersions(u, d, limit) = D!BucketVersions(u, d, limit)
    BY DVersions
  <1>7. \A u \in Names : \A within \in SUBSET Things :
           /\ D!MemoryList(u, within) = D!BucketList(u, within)
           /\ \A place \in D!Places : D!MemoryListExact(u, within, place) = D!BucketListExact(u, within, place)
    BY DLists
  <1>8. \A u \in Names : \A d \in Things :
           /\ \A content : D!MemoryPutIfAbsent(u, d, content) = D!BucketPutIfAbsent(u, d, content)
           /\ \A content, version : D!MemoryPutIfVersion(u, d, version, content)
                                       = D!BucketPutIfVersion(u, d, version, content)
           /\ \A version : D!MemoryDeleteIf(u, d, version) = D!BucketDeleteIf(u, d, version)
           /\ \A to \in Things : \A version : D!MemoryMove(u, d, to, version) = D!BucketMove(u, d, to, version)
    BY DAnswers
  <1> QED BY <1>2, <1>3, <1>4, <1>5, <1>6, <1>7, <1>8 DEF D!Agree

\* What a call does to an object
Kept(k) ==
    /\ memory'.documents[k] = memory.documents[k] /\ memory'.versions[k] = memory.versions[k]
    /\ table'[k] = table[k]
Removed(k) ==
    /\ memory'.documents[k] = D!NoDocument /\ memory'.versions[k] = memory.versions[k]
    /\ table'[k] = table[k] \cup {D!Marker(clock + 1)}
Written(k, content) ==
    /\ memory'.documents[k] = D!New(content) /\ memory'.versions[k] = memory.versions[k] \cup {D!New(content)}
    /\ table'[k] = table[k] \cup {D!New(content)}

LEMMA DWritten ==
    ASSUME D!Sensible, DocumentsInv, D!TypeOK', clock' = clock + 1,
           \A k \in D!Keys : Kept(k) \/ Removed(k) \/ \E content \in Words : Written(k, content)
    PROVE  DocumentsInv'
  <1> SUFFICES ASSUME NEW k \in D!Keys
               PROVE  /\ memory'.documents[k] = StatOf(table'[k])
                      /\ memory'.versions[k] = {o \in table'[k] : o.content # 0}
                      /\ memory'.documents[k] # D!NoDocument => memory'.documents[k] \in memory'.versions[k]
                      /\ \A o, p \in table'[k] : o.version = p.version => o = p
                      /\ \A o \in table'[k] : o.version <= clock'
                      /\ memory'.versions[k] # {} =>
                            \E v \in memory'.versions[k] : \A w \in memory'.versions[k] : w.version <= v.version
    BY DEF DocumentsInv, DocumentsMatch, StatOf, D!NoDocument, D!Null
  <1>1. /\ memory.documents[k] = StatOf(table[k])
        /\ memory.versions[k] = {o \in table[k] : o.content # 0}
        /\ memory.documents[k] # D!NoDocument => memory.documents[k] \in memory.versions[k]
        /\ \A o, p \in table[k] : o.version = p.version => o = p
        /\ \A o \in table[k] : o.version <= clock
        /\ memory.versions[k] # {} =>
              \E v \in memory.versions[k] : \A w \in memory.versions[k] : w.version <= v.version
    BY DEF DocumentsInv, DocumentsMatch
  <1>2. clock \in Nat /\ \A o \in table[k] : o.version \in Nat
    BY DNothing DEF DocumentsInv, D!TypeOK
  <1>3. \A o \in table[k] : o.version < clock + 1 /\ o.version <= clock + 1
    BY <1>1, <1>2
  <1>4. CASE Kept(k)
    BY <1>1, <1>3, <1>4 DEF Kept
  <1>5. CASE Removed(k)
    <2> DEFINE o == D!Marker(clock + 1)
    <2>1. o.version = clock + 1 /\ o.content = 0
      BY DEF D!Marker, D!Null
    <2> HIDE DEF o
    <2>4. o.version \in Nat /\ \A p \in table[k] : p.version \in Nat /\ p.version < o.version
      BY <1>2, <1>3, <2>1
    <2>2. StatOf(table[k] \cup {o}) = D!NoDocument
      <3>1. StatOf(table[k] \cup {o}) = IF o.content = 0 THEN D!NoDocument ELSE o
        BY ONLY <2>4, DLatest
      <3> QED BY <2>1, <3>1
    <2>3. /\ memory'.documents[k] = D!NoDocument /\ memory'.versions[k] = memory.versions[k]
          /\ table'[k] = table[k] \cup {o}
      BY <1>5 DEF Removed, o
    <2> QED BY <1>1, <1>2, <1>3, <2>1, <2>2, <2>3
  <1>6. ASSUME NEW content \in Words, Written(k, content)
        PROVE  /\ memory'.documents[k] = StatOf(table'[k])
               /\ memory'.versions[k] = {o \in table'[k] : o.content # 0}
               /\ memory'.documents[k] # D!NoDocument => memory'.documents[k] \in memory'.versions[k]
               /\ \A o, p \in table'[k] : o.version = p.version => o = p
               /\ \A o \in table'[k] : o.version <= clock'
               /\ memory'.versions[k] # {} =>
                     \E v \in memory'.versions[k] : \A w \in memory'.versions[k] : w.version <= v.version
    <2> DEFINE o == D!New(content)
    <2>1. o.version = clock + 1 /\ o.content # 0
      BY DNothing DEF D!New
    <2> HIDE DEF o
    <2>4. o.version \in Nat /\ \A p \in table[k] : p.version \in Nat /\ p.version < o.version
      BY <1>2, <1>3, <2>1
    <2>2. StatOf(table[k] \cup {o}) = o
      <3>1. StatOf(table[k] \cup {o}) = IF o.content = 0 THEN D!NoDocument ELSE o
        BY ONLY <2>4, DLatest
      <3> QED BY <2>1, <3>1
    <2>3. /\ memory'.documents[k] = o /\ memory'.versions[k] = memory.versions[k] \cup {o}
          /\ table'[k] = table[k] \cup {o}
      BY <1>6 DEF Written, o
    <2>5. \A p \in memory'.versions[k] : p.version <= o.version
      BY <1>1, <1>3, <2>1, <2>3, <1>2
    <2> QED BY <1>1, <1>2, <1>3, <2>1, <2>2, <2>3, <2>5
  <1> QED BY <1>4, <1>5, <1>6

LEMMA DNew ==
    ASSUME D!Sensible, D!TypeOK, D!Advance
    PROVE  /\ clock' = clock + 1 /\ clock' \in Nat \ {0}
           /\ \A content \in Words : D!New(content) \in D!Document
           /\ D!Marker(clock + 1) \in D!Object
           /\ D!Document \subseteq D!Object
           /\ \A u \in Names : \A d \in Things : <<u, d, "canonical">> \in D!Keys
  BY DNothing DEF D!TypeOK, D!Advance, D!New, D!Marker, D!Document, D!Object, D!Keys, D!Places, D!Null

LEMMA DSaves ==
    ASSUME D!Sensible, DocumentsInv, D!Advance, NEW u \in Names, NEW d \in Things, NEW content \in Words,
           memory' = D!SaveVersion(memory.documents, u, d, D!New(content)),
           table' = D!WriteCanonical(table, u, d, D!New(content))
    PROVE  DocumentsInv'
  <1> DEFINE c == <<u, d, "canonical">>
             o == D!New(content)
  <1>1. D!TypeOK /\ c \in D!Keys /\ o \in D!Document /\ o \in D!Object
    BY DNew DEF DocumentsInv
  <1>2. /\ memory' = [documents |-> [memory.documents EXCEPT ![c] = o],
                      versions |-> [memory.versions EXCEPT ![c] = memory.versions[c] \cup {o}]]
        /\ table' = [table EXCEPT ![c] = table[c] \cup {o}]
    BY DEF D!SaveVersion, D!WriteCanonical
  <1> HIDE DEF c, o
  <1>3. D!TypeOK'
    BY <1>1, <1>2, DNew DEF D!TypeOK
  <1>4. ASSUME NEW k \in D!Keys
        PROVE  /\ k # c => Kept(k)
               /\ k = c => Written(k, content)
    BY <1>1, <1>2 DEF D!TypeOK, Kept, Written, o
  <1> QED BY <1>1, <1>3, <1>4, DNew, DWritten

LEMMA DIdles ==
    ASSUME D!Sensible, DocumentsInv, D!Advance, memory' = memory, table' = table
    PROVE  DocumentsInv'
  <1>1. D!TypeOK'
    BY DNew DEF DocumentsInv, D!TypeOK
  <1>2. \A k \in D!Keys : Kept(k)
    BY DEF Kept
  <1> QED BY <1>1, <1>2, DNew, DWritten DEF DocumentsInv

LEMMA DForgets ==
    ASSUME D!Sensible, DocumentsInv, D!Advance, NEW u \in Names, NEW d \in Things,
           memory' = [memory EXCEPT !.documents = D!Forgotten(u, d)],
           table' = D!RemoveObjects(u, d)
    PROVE  DocumentsInv'
  <1>1. D!TypeOK
    BY DEF DocumentsInv
  <1>2. /\ memory' = [documents |-> [k \in D!Keys |-> IF k \in D!Storages(u, d) THEN D!NoDocument
                                                      ELSE memory.documents[k]],
                      versions |-> memory.versions]
        /\ table' = [k \in D!Keys |-> IF k \in D!Storages(u, d) THEN table[k] \cup {D!Marker(clock + 1)}
                                      ELSE table[k]]
    BY <1>1 DEF D!Forgotten, D!RemoveObjects, D!TypeOK
  <1>3. D!TypeOK'
    BY <1>1, <1>2, DNew DEF D!TypeOK
  <1>4. \A k \in D!Keys : Kept(k) \/ Removed(k)
    BY <1>1, <1>2 DEF D!TypeOK, Kept, Removed
  <1> QED BY <1>1, <1>3, <1>4, DNew, DWritten

LEMMA DMoves ==
    ASSUME D!Sensible, DocumentsInv, D!Advance, NEW u \in Names, NEW d \in Things, NEW to \in Things,
           NEW content \in Words, to # d,
           memory' = D!SaveVersion(D!Forgotten(u, d), u, to, D!New(content)),
           table' = D!WriteCanonical(D!RemoveObjects(u, d), u, to, D!New(content))
    PROVE  DocumentsInv'
  <1> DEFINE c == <<u, to, "canonical">>
             o == D!New(content)
  <1>1. D!TypeOK /\ c \in D!Keys /\ o \in D!Document /\ o \in D!Object
    BY DNew DEF DocumentsInv
  <1>2. c \notin D!Storages(u, d)
    BY DEF D!Storages
  <1> DEFINE documents == [k \in D!Keys |-> IF k \in D!Storages(u, d) THEN D!NoDocument ELSE memory.documents[k]]
             objects == [k \in D!Keys |-> IF k \in D!Storages(u, d) THEN table[k] \cup {D!Marker(clock + 1)}
                                         ELSE table[k]]
  <1>3. /\ memory' = [documents |-> [documents EXCEPT ![c] = o],
                      versions |-> [memory.versions EXCEPT ![c] = memory.versions[c] \cup {o}]]
        /\ table' = [objects EXCEPT ![c] = objects[c] \cup {o}]
    BY DEF D!SaveVersion, D!WriteCanonical, D!Forgotten, D!RemoveObjects
  <1>4. objects[c] = table[c]
    BY <1>1, <1>2
  <1>5. ASSUME NEW k \in D!Keys
        PROVE  /\ k # c /\ k \notin D!Storages(u, d) => Kept(k)
               /\ k # c /\ k \in D!Storages(u, d) => Removed(k)
               /\ k = c => Written(k, content)
    <2>1. /\ memory'.documents = [documents EXCEPT ![c] = o]
          /\ memory'.versions = [memory.versions EXCEPT ![c] = memory.versions[c] \cup {o}]
          /\ table' = [objects EXCEPT ![c] = objects[c] \cup {o}]
      BY <1>3
    <2>2. /\ DOMAIN documents = D!Keys /\ DOMAIN objects = D!Keys
          /\ DOMAIN memory.versions = D!Keys
      BY <1>1 DEF D!TypeOK
    <2>3. CASE k = c
      <3> HIDE DEF documents, objects, o
      <3>1. /\ memory'.documents[k] = o /\ memory'.versions[k] = memory.versions[k] \cup {o}
            /\ table'[k] = table[k] \cup {o}
        BY <1>1, <1>4, <2>1, <2>2, <2>3
      <3> QED BY <1>2, <2>3, <3>1 DEF Written, o
    <2>4. CASE k # c
      <3> HIDE DEF documents, objects, o
      <3>1. /\ memory'.documents[k] = documents[k] /\ memory'.versions[k] = memory.versions[k]
            /\ table'[k] = objects[k]
        BY <1>1, <2>1, <2>2, <2>4
      <3> QED BY <2>4, <3>1 DEF documents, objects, Kept, Removed
    <2> QED BY <2>3, <2>4
  <1>6. D!TypeOK'
    <2>1. documents \in [D!Keys -> D!Document \cup {D!NoDocument}]
      BY <1>1 DEF D!TypeOK
    <2>2. objects \in [D!Keys -> SUBSET D!Object]
      BY <1>1, DNew DEF D!TypeOK
    <2> HIDE DEF c, o, documents, objects
    <2> QED BY <1>1, <1>3, <1>4, <2>1, <2>2, DNew DEF D!TypeOK
  <1> QED BY <1>1, <1>5, <1>6, DNew, DWritten

LEMMA DStep == D!Sensible /\ DocumentsInv /\ D!Next => DocumentsInv'
  <1> SUFFICES ASSUME D!Sensible, DocumentsInv, D!Next PROVE DocumentsInv'
    OBVIOUS
  <1>1. PICK u \in Names : \E d \in Things :
           \/ \E content \in Words : D!Put(u, d, content) \/ D!PutIfAbsent(u, d, content)
           \/ \E version \in 1 .. clock :
                 \/ \E content \in Words : D!PutIfVersion(u, d, version, content)
                 \/ \E to \in Things : D!MoveIfVersion(u, d, to, version)
                 \/ D!DeleteIfVersion(u, d, version) \/ D!RestoreVersion(u, d, version)
           \/ D!Delete(u, d)
    BY DEF D!Next
  <1>2. PICK d \in Things :
           \/ \E content \in Words : D!Put(u, d, content) \/ D!PutIfAbsent(u, d, content)
           \/ \E version \in 1 .. clock :
                 \/ \E content \in Words : D!PutIfVersion(u, d, version, content)
                 \/ \E to \in Things : D!MoveIfVersion(u, d, to, version)
                 \/ D!DeleteIfVersion(u, d, version) \/ D!RestoreVersion(u, d, version)
           \/ D!Delete(u, d)
    BY <1>1
  <1>3. ASSUME NEW content \in Words, D!Put(u, d, content)
        PROVE  DocumentsInv'
    BY <1>3, DSaves DEF D!Put
  <1>4. ASSUME NEW content \in Words, D!PutIfAbsent(u, d, content)
        PROVE  DocumentsInv'
    <2>1. D!MemoryPutIfAbsent(u, d, content) = D!BucketPutIfAbsent(u, d, content)
      BY DAnswers
    <2> QED BY <1>4, <2>1, DSaves, DIdles DEF D!PutIfAbsent
  <1>5. ASSUME NEW version, NEW content \in Words, D!PutIfVersion(u, d, version, content)
        PROVE  DocumentsInv'
    <2>1. D!MemoryPutIfVersion(u, d, version, content) = D!BucketPutIfVersion(u, d, version, content)
      BY DAnswers
    <2> QED BY <1>5, <2>1, DSaves, DIdles DEF D!PutIfVersion
  <1>6. ASSUME NEW version, NEW to \in Things, D!MoveIfVersion(u, d, to, version)
        PROVE  DocumentsInv'
    <2> DEFINE answer == D!BucketMove(u, d, to, version)
    <2>1. D!MemoryMove(u, d, to, version) = answer
      BY DAnswers
    <2>2. /\ D!Advance
          /\ memory' = IF answer.outcome # "moved" THEN memory
                       ELSE D!SaveVersion(D!Forgotten(u, d), u, to, answer.document)
          /\ table' = IF answer.outcome # "moved" THEN table
                      ELSE D!WriteCanonical(D!RemoveObjects(u, d), u, to, answer.document)
      BY <1>6, <2>1 DEF D!MoveIfVersion
    <2>3. CASE answer.outcome # "moved"
      BY <2>2, <2>3, DIdles
    <2>4. CASE answer.outcome = "moved"
      <3> DEFINE source == D!ReadLogical(u, d)
      <3>1. /\ source # D!NoDocument /\ D!ReadLogical(u, to) = D!NoDocument
            /\ answer.document = D!New(source.content)
        BY <2>4 DEF D!BucketMove, D!Answer
      <3>2. source.content \in Words /\ to # d
        BY <3>1, DFound DEF D!Document
      <3> HIDE DEF answer, source
      <3> QED BY <2>2, <2>4, <3>1, <3>2, DMoves
    <2> QED BY <2>3, <2>4
  <1>7. ASSUME NEW version, D!DeleteIfVersion(u, d, version)
        PROVE  DocumentsInv'
    <2>1. D!MemoryDeleteIf(u, d, version) = D!BucketDeleteIf(u, d, version)
      BY DAnswers
    <2> QED BY <1>7, <2>1, DForgets, DIdles DEF D!DeleteIfVersion
  <1>8. ASSUME NEW version, D!RestoreVersion(u, d, version)
        PROVE  DocumentsInv'
    <2> DEFINE answer == D!BucketRestore(u, d, version)
    <2>1. /\ D!MemoryRestore(u, d, version) = answer
          /\ answer = D!NoDocument \/ \E content \in Words : answer = D!New(content)
      BY DRestore
    <2>2. /\ D!Advance
          /\ memory' = IF answer = D!NoDocument THEN memory ELSE D!SaveVersion(memory.documents, u, d, answer)
          /\ table' = IF answer = D!NoDocument THEN table ELSE D!WriteCanonical(table, u, d, answer)
      BY <1>8, <2>1 DEF D!RestoreVersion
    <2> HIDE DEF answer
    <2> QED BY <2>1, <2>2, DSaves, DIdles
  <1>9. ASSUME D!Delete(u, d)
        PROVE  DocumentsInv'
    BY <1>9, DForgets DEF D!Delete
  <1> QED BY <1>2, <1>3, <1>4, <1>5, <1>6, <1>7, <1>8, <1>9

-----------------------------------------------------------------------------
(* Telegram sessions                                                       *)

\* The entries are the rows, one of each employee; only a session has claims of messages.
SessionsMatch ==
    /\ \A c \in Things : memory[c].row = table.sessions[c]
    /\ \A c \in Things : \A id \in Names : memory[c].messages[id] = table.messages[<<c, id>>]
    /\ \A c, d \in Things :
          table.sessions[c].employee = table.sessions[d].employee /\ table.sessions[c].employee # 0 => c = d
    /\ \A c \in Things : table.sessions[c] = C!NoRow => \A id \in Names : table.messages[<<c, id>>] = C!NoMessage

SessionsInv == C!TypeOK /\ SessionsMatch

LEMMA CNothing ==
    ASSUME C!Sensible
    PROVE  /\ \A x \in Things \cup Names \cup People : x # 0 /\ x \in Nat
           /\ C!NoRow.employee = 0 /\ C!NoRow.user = 0 /\ C!NoRow.claim = C!NoClaim
           /\ \A r \in C!Row : r.employee # 0 /\ r # C!NoRow
           /\ C!NoMessage.at = 0 /\ C!NoMessage.completed = FALSE
           /\ \A m \in C!Message : m # C!NoMessage /\ m.at \in Nat \ {0}
           /\ C!NoClaim.at = 0
           /\ \A x \in C!Claim : x.at \in Nat \ {0} /\ x # C!NoClaim
  BY DEF C!Sensible, C!NoRow, C!Row, C!NoMessage, C!Message, C!NoClaim, C!Claim, C!Null

LEMMA CInit == C!Sensible /\ C!Init => SessionsInv
  <1> SUFFICES ASSUME C!Sensible, C!Init PROVE SessionsInv
    OBVIOUS
  <1>1. PICK chat \in Things, user \in Names \cup {0}, e \in People, thread \in Names, old \in BOOLEAN :
          LET rows == [c \in Things |-> IF old /\ c = chat THEN C!New(user, e, thread, FALSE) ELSE C!NoRow]
          IN  /\ memory = [c \in Things |-> C!Entry(rows[c], C!Unclaimed)]
              /\ table = [sessions |-> rows, messages |-> [k \in Things \X Names |-> C!NoMessage]]
    BY DEF C!Init, C!Null
  <1>2. clock = 1
    BY DEF C!Init
  <1> DEFINE rows == [c \in Things |-> IF old /\ c = chat THEN C!New(user, e, thread, FALSE) ELSE C!NoRow]
  <1>3. /\ \A c \in Things : rows[c] \in C!Row \cup {C!NoRow}
        /\ \A c \in Things : rows[c].employee # 0 => c = chat
    BY CNothing DEF C!Row, C!New, C!Null
  <1>4. /\ memory = [c \in Things |-> [row |-> rows[c], messages |-> [id \in Names |-> C!NoMessage]]]
        /\ table = [sessions |-> rows, messages |-> [k \in Things \X Names |-> C!NoMessage]]
    BY <1>1 DEF C!Entry, C!Unclaimed
  <1>5. rows \in [Things -> C!Row \cup {C!NoRow}]
    BY <1>3
  <1> HIDE DEF rows
  <1>6. C!TypeOK
    BY <1>2, <1>3, <1>4, <1>5 DEF C!TypeOK
  <1>7. SessionsMatch
    BY <1>3, <1>4, CNothing DEF SessionsMatch
  <1> QED BY <1>6, <1>7 DEF SessionsInv

LEMMA CRows ==
    ASSUME C!Sensible, SessionsInv, NEW c \in Things
    PROVE  /\ C!MemoryRow(c) = table.sessions[c]
           /\ table.sessions[c] \in C!Row \cup {C!NoRow}
           /\ \A id \in Names : /\ memory[c].messages[id] = table.messages[<<c, id>>]
                                /\ table.messages[<<c, id>>] \in C!Message \cup {C!NoMessage}
           /\ table.sessions[c].claim \in C!Claim \cup {C!NoClaim}
           /\ memory[c] = C!Entry(memory[c].row, memory[c].messages)
           /\ clock \in Nat \ {0}
  <1>1. /\ table.sessions[c] \in C!Row \cup {C!NoRow}
        /\ \A id \in Names : <<c, id>> \in Things \X Names
    BY DEF SessionsInv, C!TypeOK
  <1>2. table.sessions[c].claim \in C!Claim \cup {C!NoClaim}
    BY <1>1, CNothing DEF C!Row
  <1>3. memory[c] = C!Entry(memory[c].row, memory[c].messages)
    BY DEF SessionsInv, C!TypeOK, C!Entry
  <1> QED BY <1>1, <1>2, <1>3 DEF SessionsInv, SessionsMatch, C!TypeOK, C!MemoryRow

LEMMA CDelivery ==
    ASSUME C!Sensible, SessionsInv, NEW e \in People
    PROVE  C!MemoryDelivery(e) = C!RowDelivery(e)
  <1> DEFINE targets == {c \in Things : table.sessions[c].employee = e /\ table.sessions[c].linked}
             entries == {c \in Things : table.sessions[c].employee = e}
  <1>1. C!ChatsOf(e) = entries
    BY CRows DEF C!ChatsOf
  <1>2. e # 0
    BY CNothing
  <1>3. \A c, d \in entries : c = d
    BY <1>2 DEF SessionsInv, SessionsMatch
  <1>4. CASE entries = {}
    <2>1. targets = {}
      BY <1>4
    <2> QED BY <1>1, <1>4, <2>1 DEF C!MemoryDelivery, C!RowDelivery
  <1>5. ASSUME NEW c \in entries
        PROVE  C!MemoryDelivery(e) = C!RowDelivery(e)
    <2>1. (CHOOSE x \in entries : TRUE) = c
      BY <1>3, <1>5
    <2>2. C!MemoryDelivery(e) = IF table.sessions[c].linked THEN C!Found(table.sessions[c], c)
                                ELSE C!Found(C!NoRow, C!Null)
      <3>1. C!MemoryRow(c) = table.sessions[c]
        BY CRows
      <3>2. C!ChatsOf(e) # {} /\ (CHOOSE x \in C!ChatsOf(e) : TRUE) = c
        BY <1>1, <2>1
      <3> HIDE DEF entries
      <3> QED BY <3>1, <3>2 DEF C!MemoryDelivery
    <2>3. C!RowDelivery(e) = IF targets = {} THEN C!Found(C!NoRow, C!Null)
                             ELSE C!Found(table.sessions[CHOOSE x \in targets : TRUE], CHOOSE x \in targets : TRUE)
      BY DEF C!RowDelivery
    <2>4. CASE table.sessions[c].linked
      <3>1. targets # {} /\ (CHOOSE x \in targets : TRUE) = c
        BY <1>3, <2>4
      <3> QED BY <2>2, <2>3, <2>4, <3>1
    <2>5. CASE ~ table.sessions[c].linked
      <3>1. targets = {}
        BY <1>3, <2>5
      <3> QED BY <2>2, <2>3, <2>5, <3>1
    <2> QED BY <2>4, <2>5
  <1> QED BY <1>4, <1>5

\* What a call of an employee from a chat finds is alike.
LEMMA CAnswers ==
    ASSUME C!Sensible, SessionsInv, NEW identity \in C!Identities, NEW e \in People
    PROVE  /\ C!MemoryClaim(identity, e) = C!RowClaim(identity, e)
           /\ C!MemoryIs(identity, e) = C!RowIs(identity, e)
           /\ \A draft : \A at \in Nat \ {0} :
                 /\ C!MemoryClaimDelivery(identity, e, draft, at) = C!RowClaimDelivery(identity, e, draft, at)
                 /\ C!MemoryHolds(identity, e, draft, at) = C!RowHolds(identity, e, draft, at)
           /\ \A id \in Names : \A at \in Nat \ {0} :
                 /\ C!MemoryClaimMessage(identity, e, id, at) = C!RowClaimMessage(identity, e, id, at)
                 /\ C!MemoryHoldsMessage(identity, e, id, at) = C!RowHoldsMessage(identity, e, id, at)
  <1> DEFINE c == identity.chat
             row == table.sessions[c]
  <1>1. c \in Things
    BY DEF C!Identities
  <1>2. C!MemoryRow(c) = row /\ row.claim \in C!Claim \cup {C!NoClaim}
    BY <1>1, CRows
  <1>3. C!MemoryIs(identity, e) = C!RowIs(identity, e)
    BY <1>2 DEF C!MemoryIs, C!RowIs
  <1>4. C!MemoryClaim(identity, e) = C!RowClaim(identity, e)
    <2>1. C!ChatsOf(e) = {d \in Things : table.sessions[d].employee = e}
      BY CRows DEF C!ChatsOf
    <2> QED BY <1>2, <2>1 DEF C!MemoryClaim, C!RowClaim
  <1>5. ASSUME NEW draft, NEW at \in Nat \ {0}
        PROVE  /\ C!MemoryClaimDelivery(identity, e, draft, at) = C!RowClaimDelivery(identity, e, draft, at)
               /\ C!MemoryHolds(identity, e, draft, at) = C!RowHolds(identity, e, draft, at)
    <2>1. row.claim # C!NoClaim /\ row.claim.at >= at <=> ~ (row.claim.at = 0 \/ row.claim.at < at)
      BY <1>2, CNothing
    <2>2. C!MemoryClaimDelivery(identity, e, draft, at) = C!RowClaimDelivery(identity, e, draft, at)
      BY <1>2, <1>3, <2>1 DEF C!MemoryClaimDelivery, C!RowClaimDelivery
    <2>3. row.claim = [draft |-> draft, at |-> at] <=> row.claim.draft = draft /\ row.claim.at = at
      BY <1>2 DEF C!Claim, C!NoClaim
    <2>4. C!MemoryHolds(identity, e, draft, at) = C!RowHolds(identity, e, draft, at)
      BY <1>2, <1>3, <2>3 DEF C!MemoryHolds, C!RowHolds, C!MemoryIs, C!RowIs
    <2> QED BY <2>2, <2>4
  <1>6. ASSUME NEW id \in Names, NEW at \in Nat \ {0}
        PROVE  /\ C!MemoryClaimMessage(identity, e, id, at) = C!RowClaimMessage(identity, e, id, at)
               /\ C!MemoryHoldsMessage(identity, e, id, at) = C!RowHoldsMessage(identity, e, id, at)
    <2> DEFINE message == table.messages[<<c, id>>]
    <2>1. memory[c].messages[id] = message /\ message \in C!Message \cup {C!NoMessage}
      BY <1>1, CRows
    <2>2. message.at \in Nat /\ message.completed \in BOOLEAN /\ (message = C!NoMessage => ~ message.completed)
      <3>1. CASE message \in C!Message
        BY <3>1, CNothing DEF C!Message
      <3>2. CASE message = C!NoMessage
        BY <3>2 DEF C!NoMessage
      <3> QED BY <2>1, <3>1, <3>2
    <2>3. message.completed \/ (message # C!NoMessage /\ message.at >= at)
             <=> ~ (message = C!NoMessage \/ (~ message.completed /\ message.at < at))
      BY <2>2
    <2>4. C!MemoryClaimMessage(identity, e, id, at) = C!RowClaimMessage(identity, e, id, at)
      BY <1>3, <2>1, <2>3 DEF C!MemoryClaimMessage, C!RowClaimMessage
    <2>5. C!MemoryHoldsMessage(identity, e, id, at) = C!RowHoldsMessage(identity, e, id, at)
      BY <1>3, <2>1 DEF C!MemoryHoldsMessage, C!RowHoldsMessage
    <2> QED BY <2>4, <2>5
  <1> QED BY <1>3, <1>4, <1>5, <1>6

LEMMA COld ==
    ASSUME C!Sensible, SessionsInv, NEW before
    PROVE  C!MemoryOld(before) = C!RowOld(before)
  <1>1. \A k \in Things \X Names : memory[k[1]].messages[k[2]] = table.messages[k]
    <2> TAKE k \in Things \X Names
    <2>1. k[1] \in Things /\ k[2] \in Names /\ k = <<k[1], k[2]>>
      OBVIOUS
    <2>2. memory[k[1]].messages[k[2]] = table.messages[<<k[1], k[2]>>]
      BY <2>1, CRows
    <2> QED BY <2>1, <2>2
  <1> QED BY <1>1 DEF C!MemoryOld, C!RowOld

LEMMA CAgree == C!Sensible /\ SessionsInv => C!Agree
  <1> SUFFICES ASSUME C!Sensible, SessionsInv PROVE C!Agree
    OBVIOUS
  <1>1. \A chat \in Things : \A user \in Names \cup {0} :
           C!MemoryGetByIdentity(chat, user) = C!RowGetByIdentity(chat, user)
    BY CRows DEF C!MemoryGetByIdentity, C!RowGetByIdentity, C!Null
  <1>2. \A at \in 1 .. clock : at \in Nat \ {0}
    BY DEF SessionsInv, C!TypeOK
  <1> QED BY <1>1, <1>2, CDelivery, CAnswers, COld DEF C!Agree, C!Null

LEMMA CUnchanged ==
    ASSUME SessionsInv, memory' = memory, table' = table, clock' \in Nat \ {0}
    PROVE  SessionsInv'
  BY DEF SessionsInv, SessionsMatch, C!TypeOK

\* Another row of the same employee, or the first row of an employee
LEMMA CRowSet ==
    ASSUME C!Sensible, SessionsInv, NEW c \in Things, NEW row \in C!Row,
           \A d \in Things \ {c} : table.sessions[d].employee # row.employee,
           memory' = [memory EXCEPT ![c] = C!Entry(row, memory[c].messages)],
           table' = [table EXCEPT !.sessions = [table.sessions EXCEPT ![c] = row]],
           clock' = clock
    PROVE  SessionsInv'
  <1>1. C!TypeOK
    BY DEF SessionsInv
  <1>2. /\ memory' = [memory EXCEPT ![c] = [row |-> row, messages |-> memory[c].messages]]
        /\ table' = [sessions |-> [table.sessions EXCEPT ![c] = row], messages |-> table.messages]
    BY <1>1 DEF C!Entry, C!TypeOK
  <1>3. C!TypeOK'
    <2>1. memory[c].messages \in [Names -> C!Message \cup {C!NoMessage}]
      BY <1>1 DEF C!TypeOK
    <2>2. [row |-> row, messages |-> memory[c].messages]
             \in [row : C!Row \cup {C!NoRow}, messages : [Names -> C!Message \cup {C!NoMessage}]]
      BY <2>1
    <2>3. memory' \in [Things -> [row : C!Row \cup {C!NoRow}, messages : [Names -> C!Message \cup {C!NoMessage}]]]
      BY <1>1, <1>2, <2>2 DEF C!TypeOK
    <2>4. table' \in [sessions : [Things -> C!Row \cup {C!NoRow}],
                      messages : [Things \X Names -> C!Message \cup {C!NoMessage}]]
      <3>1. [table.sessions EXCEPT ![c] = row] \in [Things -> C!Row \cup {C!NoRow}]
        BY <1>1 DEF C!TypeOK
      <3>2. table.messages \in [Things \X Names -> C!Message \cup {C!NoMessage}]
        BY <1>1 DEF C!TypeOK
      <3> QED BY ONLY <1>2, <3>1, <3>2
    <2> QED BY <1>1, <2>3, <2>4 DEF C!TypeOK, C!Row, C!NoRow, C!Message, C!NoMessage, C!Claim, C!NoClaim, C!Null
  <1>4. /\ \A d \in Things : memory'[d].row = IF d = c THEN row ELSE memory[d].row
        /\ \A d \in Things : memory'[d].messages = memory[d].messages
        /\ \A d \in Things : table'.sessions[d] = IF d = c THEN row ELSE table.sessions[d]
        /\ table'.messages = table.messages
    BY <1>1, <1>2 DEF C!TypeOK
  <1>5. /\ \A d \in Things : memory[d].row = table.sessions[d]
        /\ \A d \in Things : \A id \in Names : memory[d].messages[id] = table.messages[<<d, id>>]
        /\ \A d, x \in Things :
              table.sessions[d].employee = table.sessions[x].employee /\ table.sessions[d].employee # 0 => d = x
        /\ \A d \in Things : table.sessions[d] = C!NoRow => \A id \in Names : table.messages[<<d, id>>] = C!NoMessage
    BY DEF SessionsInv, SessionsMatch
  <1>6. /\ \A d \in Things : memory'[d].row = table'.sessions[d]
        /\ \A d \in Things : \A id \in Names : memory'[d].messages[id] = table'.messages[<<d, id>>]
    BY <1>4, <1>5
  <1>7. \A d, x \in Things :
           table'.sessions[d].employee = table'.sessions[x].employee /\ table'.sessions[d].employee # 0 => d = x
    BY <1>4, <1>5
  <1>8. \A d \in Things : table'.sessions[d] = C!NoRow => \A id \in Names : table'.messages[<<d, id>>] = C!NoMessage
    BY <1>4, <1>5, CNothing
  <1> QED BY <1>3, <1>6, <1>7, <1>8 DEF SessionsInv, SessionsMatch, C!NoRow, C!NoMessage, C!Null, C!NoClaim

\* A call that changes a session where both find it
LEMMA CChanged ==
    ASSUME C!Sensible, SessionsInv, NEW c \in Things, NEW row, NEW found \in BOOLEAN, clock' = clock,
           found => table.sessions[c] # C!NoRow /\ row \in C!Row /\ row.employee = table.sessions[c].employee,
           IF found THEN C!InMemory(c, row) ELSE UNCHANGED memory,
           IF found THEN C!InTable(c, row) ELSE UNCHANGED table
    PROVE  SessionsInv'
  <1>1. CASE ~ found
    BY <1>1, CUnchanged DEF SessionsInv, C!TypeOK
  <1>2. CASE found
    <2>1. row.employee # 0
      BY <1>2, CNothing
    <2>2. \A d \in Things \ {c} : table.sessions[d].employee # row.employee
      BY <1>2, <2>1 DEF SessionsInv, SessionsMatch
    <2> QED BY <1>2, <2>2, CRowSet DEF C!InMemory, C!InTable
  <1> QED BY <1>1, <1>2

LEMMA CMessage ==
    ASSUME C!Sensible, SessionsInv, NEW c \in Things, NEW id \in Names, NEW message \in C!Message \cup {C!NoMessage},
           NEW found \in BOOLEAN, found => table.sessions[c] # C!NoRow,
           C!SetMessage(c, id, found, found, message)
    PROVE  SessionsInv'
  <1>1. C!TypeOK
    BY DEF SessionsInv
  <1>2. CASE ~ found
    <2>1. memory' = memory /\ table' = table /\ clock' = clock
      BY <1>2 DEF C!SetMessage
    <2> QED BY <1>1, <2>1, CUnchanged DEF C!TypeOK
  <1>3. CASE found
    <2>1. /\ memory' = [memory EXCEPT ![c] = [row |-> memory[c].row,
                                              messages |-> [memory[c].messages EXCEPT ![id] = message]]]
          /\ table' = [sessions |-> table.sessions, messages |-> [table.messages EXCEPT ![<<c, id>>] = message]]
          /\ clock' = clock
      BY <1>1, <1>3 DEF C!SetMessage, C!Entry, C!TypeOK
    <2>2. <<c, id>> \in Things \X Names
      OBVIOUS
    <2>3. C!TypeOK'
      BY <1>1, <2>1, <2>2 DEF C!TypeOK
    <2>4. /\ \A d \in Things : memory'[d].row = memory[d].row
          /\ \A d \in Things : \A x \in Names :
                memory'[d].messages[x] = IF d = c /\ x = id THEN message ELSE memory[d].messages[x]
          /\ table'.sessions = table.sessions
          /\ \A d \in Things : \A x \in Names :
                table'.messages[<<d, x>>] = IF d = c /\ x = id THEN message ELSE table.messages[<<d, x>>]
      BY <1>1, <2>1 DEF C!TypeOK
    <2>5. /\ \A d \in Things : memory[d].row = table.sessions[d]
          /\ \A d \in Things : \A x \in Names : memory[d].messages[x] = table.messages[<<d, x>>]
          /\ \A d, x \in Things :
                table.sessions[d].employee = table.sessions[x].employee /\ table.sessions[d].employee # 0 => d = x
          /\ \A d \in Things : table.sessions[d] = C!NoRow => \A x \in Names : table.messages[<<d, x>>] = C!NoMessage
      BY DEF SessionsInv, SessionsMatch
    <2>6. /\ \A d \in Things : memory'[d].row = table'.sessions[d]
          /\ \A d \in Things : \A x \in Names : memory'[d].messages[x] = table'.messages[<<d, x>>]
      BY <2>4, <2>5
    <2>7. \A d \in Things : table'.sessions[d] = C!NoRow => \A x \in Names : table'.messages[<<d, x>>] = C!NoMessage
      BY <1>3, <2>4, <2>5
    <2>8. \A d, x \in Things :
             table'.sessions[d].employee = table'.sessions[x].employee /\ table'.sessions[d].employee # 0 => d = x
      BY <2>4, <2>5
    <2> QED BY <2>3, <2>6, <2>7, <2>8 DEF SessionsInv, SessionsMatch, C!NoRow, C!NoMessage, C!Null, C!NoClaim
  <1> QED BY <1>2, <1>3

LEMMA CDeletes ==
    ASSUME C!Sensible, SessionsInv, NEW e \in People, C!DeleteByEmployee(e)
    PROVE  SessionsInv'
  <1> DEFINE gone == {c \in Things : table.sessions[c].employee = e}
  <1>1. C!TypeOK
    BY DEF SessionsInv
  <1>2. \A c \in Things : C!MemoryRow(c).employee = e <=> c \in gone
    BY CRows
  <1>3. /\ memory' = [c \in Things |-> IF c \in gone THEN [row |-> C!NoRow, messages |-> [id \in Names |-> C!NoMessage]]
                                       ELSE memory[c]]
        /\ table' = [sessions |-> [c \in Things |-> IF c \in gone THEN C!NoRow ELSE table.sessions[c]],
                     messages |-> [k \in Things \X Names |-> IF k[1] \in gone THEN C!NoMessage ELSE table.messages[k]]]
        /\ clock' = clock
    <2>1. memory' = [c \in Things |-> IF c \in gone THEN [row |-> C!NoRow, messages |-> [id \in Names |-> C!NoMessage]]
                                       ELSE memory[c]]
      BY <1>2 DEF C!DeleteByEmployee, C!Entry, C!Unclaimed
    <2>2. \A k \in Things \X Names : table.sessions[k[1]].employee = e <=> k[1] \in gone
      OBVIOUS
    <2>3. table' = [sessions |-> [c \in Things |-> IF c \in gone THEN C!NoRow ELSE table.sessions[c]],
                    messages |-> [k \in Things \X Names |-> IF k[1] \in gone THEN C!NoMessage ELSE table.messages[k]]]
      BY <2>2 DEF C!DeleteByEmployee
    <2> QED BY <2>1, <2>3 DEF C!DeleteByEmployee
  <1> HIDE DEF gone
  <1>4. C!TypeOK'
    BY <1>1, <1>3 DEF C!TypeOK
  <1>5. /\ \A d \in Things : memory'[d].row = IF d \in gone THEN C!NoRow ELSE memory[d].row
        /\ \A d \in Things : table'.sessions[d] = IF d \in gone THEN C!NoRow ELSE table.sessions[d]
        /\ \A d \in Things : \A x \in Names :
              /\ memory'[d].messages[x] = IF d \in gone THEN C!NoMessage ELSE memory[d].messages[x]
              /\ table'.messages[<<d, x>>] = IF d \in gone THEN C!NoMessage ELSE table.messages[<<d, x>>]
    BY <1>1, <1>3 DEF C!TypeOK
  <1>6. SessionsMatch'
    <2>1. /\ \A d \in Things : memory'[d].row = table'.sessions[d]
          /\ \A d \in Things : \A x \in Names : memory'[d].messages[x] = table'.messages[<<d, x>>]
      BY <1>5 DEF SessionsInv, SessionsMatch
    <2>2. \A d, x \in Things :
             table'.sessions[d].employee = table'.sessions[x].employee /\ table'.sessions[d].employee # 0 => d = x
      BY <1>5, CNothing DEF SessionsInv, SessionsMatch
    <2>3. \A d \in Things : table'.sessions[d] = C!NoRow => \A x \in Names : table'.messages[<<d, x>>] = C!NoMessage
      BY <1>5 DEF SessionsInv, SessionsMatch
    <2> QED BY <2>1, <2>2, <2>3 DEF SessionsMatch, C!NoRow, C!NoMessage, C!Null, C!NoClaim
  <1> QED BY <1>4, <1>6 DEF SessionsInv

LEMMA CRotates ==
    ASSUME C!Sensible, SessionsInv, NEW e \in People, NEW next \in Names, C!RotateThread(e, next)
    PROVE  SessionsInv'
  <1> DEFINE entries == {c \in Things : table.sessions[c].employee = e}
  <1>1. C!TypeOK /\ clock' = clock
    BY DEF SessionsInv, C!RotateThread
  <1>2. C!ChatsOf(e) = entries
    BY CRows DEF C!ChatsOf
  <1>3. table' = [table EXCEPT !.sessions = [c \in Things |->
                      IF table.sessions[c].employee = e THEN [table.sessions[c] EXCEPT !.thread = next]
                      ELSE table.sessions[c]]]
    BY DEF C!RotateThread
  <1>4. CASE entries = {}
    <2>1. memory' = memory
      BY <1>2, <1>4 DEF C!RotateThread
    <2>2. table' = table
      <3>1. [c \in Things |-> IF table.sessions[c].employee = e THEN [table.sessions[c] EXCEPT !.thread = next]
                              ELSE table.sessions[c]] = table.sessions
        BY <1>1, <1>4 DEF C!TypeOK
      <3> QED BY <1>1, <1>3, <3>1 DEF C!TypeOK
    <2> QED BY <1>1, <2>1, <2>2, CUnchanged DEF C!TypeOK
  <1>5. ASSUME NEW c \in entries
        PROVE  SessionsInv'
    <2> DEFINE row == [table.sessions[c] EXCEPT !.thread = next]
    <2>1. e # 0
      BY CNothing
    <2>2. \A d \in Things : d \in entries <=> d = c
      BY <2>1 DEF SessionsInv, SessionsMatch
    <2>3. (CHOOSE d \in entries : TRUE) = c
      BY <2>2
    <2>4. table.sessions[c] \in C!Row /\ table.sessions[c].employee = e
      BY <1>1, <1>5, <2>1, CNothing DEF C!TypeOK
    <2>5. row \in C!Row /\ row.employee = e
      BY <2>4 DEF C!Row
    <2>6. memory[c].row = table.sessions[c]
      BY DEF SessionsInv, SessionsMatch
    <2>7. memory' = [memory EXCEPT ![c] = C!Entry(row, memory[c].messages)]
      <3>1. C!ChatsOf(e) # {} /\ (CHOOSE d \in C!ChatsOf(e) : TRUE) = c
        BY <1>2, <1>5, <2>3
      <3> QED BY <2>6, <3>1 DEF C!RotateThread
    <2>8. table' = [table EXCEPT !.sessions = [table.sessions EXCEPT ![c] = row]]
      <3>1. [d \in Things |-> IF table.sessions[d].employee = e THEN [table.sessions[d] EXCEPT !.thread = next]
                              ELSE table.sessions[d]]
               = [table.sessions EXCEPT ![c] = row]
        BY <1>1, <2>2 DEF C!TypeOK
      <3> QED BY <1>3, <3>1
    <2>9. \A d \in Things \ {c} : table.sessions[d].employee # row.employee
      BY <2>2, <2>5
    <2> HIDE DEF row
    <2> QED BY <1>1, <2>5, <2>7, <2>8, <2>9, CRowSet
  <1> QED BY <1>4, <1>5

LEMMA CPurges ==
    ASSUME C!Sensible, SessionsInv, NEW before, C!PurgeActionMessages(before)
    PROVE  SessionsInv'
  <1> DEFINE old == C!RowOld(before)
  <1>1. C!TypeOK
    BY DEF SessionsInv
  <1>2. /\ memory' = [c \in Things |-> [row |-> memory[c].row,
                        messages |-> [id \in Names |-> IF <<c, id>> \in old THEN C!NoMessage ELSE memory[c].messages[id]]]]
        /\ table' = [sessions |-> table.sessions,
                     messages |-> [k \in Things \X Names |-> IF k \in old THEN C!NoMessage ELSE table.messages[k]]]
        /\ clock' = clock
    <2>1. C!MemoryOld(before) = old
      BY COld
    <2>2. memory' = [c \in Things |-> [row |-> memory[c].row,
                        messages |-> [id \in Names |-> IF <<c, id>> \in old THEN C!NoMessage ELSE memory[c].messages[id]]]]
      BY <2>1 DEF C!PurgeActionMessages, C!Entry
    <2>3. table' = [table EXCEPT !.messages =
                      [k \in Things \X Names |-> IF k \in old THEN C!NoMessage ELSE table.messages[k]]]
      BY DEF C!PurgeActionMessages
    <2>4. DOMAIN table = {"sessions", "messages"} /\ clock' = clock
      BY <1>1 DEF C!TypeOK, C!PurgeActionMessages
    <2> HIDE DEF old
    <2>5. table' = [sessions |-> table.sessions,
                    messages |-> [k \in Things \X Names |-> IF k \in old THEN C!NoMessage ELSE table.messages[k]]]
      BY <1>1, <2>3 DEF C!TypeOK
    <2> QED BY <2>2, <2>4, <2>5
  <1> HIDE DEF old
  <1>3. C!TypeOK'
    <2>1. \A c \in Things : memory[c].row \in C!Row \cup {C!NoRow}
                              /\ \A id \in Names : memory[c].messages[id] \in C!Message \cup {C!NoMessage}
      BY <1>1 DEF C!TypeOK
    <2>2. memory' \in [Things -> [row : C!Row \cup {C!NoRow}, messages : [Names -> C!Message \cup {C!NoMessage}]]]
      BY <1>2, <2>1
    <2>3. table' \in [sessions : [Things -> C!Row \cup {C!NoRow}],
                      messages : [Things \X Names -> C!Message \cup {C!NoMessage}]]
      BY <1>1, <1>2 DEF C!TypeOK
    <2> QED BY <1>1, <1>2, <2>2, <2>3 DEF C!TypeOK, C!Row, C!NoRow, C!Message, C!NoMessage, C!Claim, C!NoClaim, C!Null
  <1>4. /\ \A d \in Things : memory'[d].row = memory[d].row
        /\ table'.sessions = table.sessions
        /\ \A d \in Things : \A x \in Names :
              /\ memory'[d].messages[x] = IF <<d, x>> \in old THEN C!NoMessage ELSE memory[d].messages[x]
              /\ table'.messages[<<d, x>>] = IF <<d, x>> \in old THEN C!NoMessage ELSE table.messages[<<d, x>>]
    BY <1>1, <1>2 DEF C!TypeOK
  <1>5. SessionsMatch'
    <2>1. /\ \A d \in Things : memory'[d].row = table'.sessions[d]
          /\ \A d \in Things : \A x \in Names : memory'[d].messages[x] = table'.messages[<<d, x>>]
      BY <1>4 DEF SessionsInv, SessionsMatch
    <2>2. \A d, x \in Things :
             table'.sessions[d].employee = table'.sessions[x].employee /\ table'.sessions[d].employee # 0 => d = x
      BY <1>4 DEF SessionsInv, SessionsMatch
    <2>3. \A d \in Things : table'.sessions[d] = C!NoRow => \A x \in Names : table'.messages[<<d, x>>] = C!NoMessage
      BY <1>4 DEF SessionsInv, SessionsMatch
    <2> QED BY <2>1, <2>2, <2>3 DEF SessionsMatch, C!NoRow, C!NoMessage, C!Null, C!NoClaim
  <1> QED BY <1>3, <1>5 DEF SessionsInv

LEMMA CClaims ==
    ASSUME C!Sensible, SessionsInv, NEW identity \in C!Identities, NEW e \in People, NEW thread \in Names,
           C!ClaimSession(identity, e, thread)
    PROVE  SessionsInv'
  <1> DEFINE c == identity.chat
             row == C!New(identity.user, e, thread, TRUE)
  <1>1. C!TypeOK /\ clock' = clock /\ c \in Things /\ identity.user \in Names \cup {0}
    BY DEF SessionsInv, C!ClaimSession, C!Identities, C!Null
  <1>2. C!MemoryClaim(identity, e) = C!RowClaim(identity, e)
    BY CAnswers
  <1>3. CASE C!RowClaim(identity, e) # "claimed"
    <2>1. memory' = memory /\ table' = table
      BY <1>2, <1>3 DEF C!ClaimSession
    <2> QED BY <1>1, <2>1, CUnchanged DEF C!TypeOK
  <1>4. CASE C!RowClaim(identity, e) = "claimed"
    <2>1. table.sessions[c] = C!NoRow /\ \A d \in Things : table.sessions[d].employee # e
      BY <1>4 DEF C!RowClaim
    <2>2. row \in C!Row /\ row.employee = e
      BY <1>1, CNothing DEF C!New, C!Row, C!Null
    <2>3. memory[c].messages = C!Unclaimed
      <3>1. memory[c].messages \in [Names -> C!Message \cup {C!NoMessage}]
        BY <1>1 DEF C!TypeOK
      <3>2. \A id \in Names : memory[c].messages[id] = C!NoMessage
        BY <1>1, <2>1 DEF SessionsInv, SessionsMatch
      <3> QED BY <3>1, <3>2 DEF C!Unclaimed
    <2>4. /\ memory' = [memory EXCEPT ![c] = C!Entry(row, memory[c].messages)]
          /\ table' = [table EXCEPT !.sessions = [table.sessions EXCEPT ![c] = row]]
      BY <1>2, <1>4, <2>3 DEF C!ClaimSession, C!InTable
    <2>5. \A d \in Things \ {c} : table.sessions[d].employee # row.employee
      BY <2>1, <2>2
    <2> HIDE DEF row
    <2> QED BY <1>1, <2>2, <2>4, <2>5, CRowSet
  <1> QED BY <1>3, <1>4

LEMMA CStep == C!Sensible /\ SessionsInv /\ C!Next => SessionsInv'
  <1> SUFFICES ASSUME C!Sensible, SessionsInv, C!Next PROVE SessionsInv'
    OBVIOUS
  <1>1. C!TypeOK
    BY DEF SessionsInv
  <1>2. ASSUME NEW identity \in C!Identities, NEW e \in People,
               \/ \E thread \in Names : C!ClaimSession(identity, e, thread)
               \/ C!LinkDeliveryTarget(identity, e) \/ C!MarkConsentAccepted(identity, e)
               \/ \E draft \in Names, at \in 1 .. clock :
                     \/ C!ClaimOnboardingConfirmationDelivery(identity, e, draft, at)
                     \/ C!CompleteOnboardingConfirmationDelivery(identity, e, draft, at)
                     \/ C!ReleaseOnboardingConfirmationDelivery(identity, e, draft, at)
               \/ \E id \in Names, at \in 1 .. clock :
                     \/ C!ClaimActionMessage(identity, e, id, at)
                     \/ C!CompleteActionMessage(identity, e, id, at)
                     \/ C!ReleaseActionMessage(identity, e, id, at)
        PROVE  SessionsInv'
    <2> DEFINE c == identity.chat
               row == table.sessions[c]
    <2>1. c \in Things /\ C!MemoryRow(c) = row /\ row \in C!Row \cup {C!NoRow} /\ clock \in Nat \ {0}
      BY <1>1, CRows DEF C!Identities
    <2>2. C!RowIs(identity, e) => row # C!NoRow /\ row \in C!Row
      BY <2>1, CNothing DEF C!RowIs
    <2>3. \A at \in 1 .. clock : at \in Nat \ {0}
      BY <2>1
    <2>4. C!MemoryIs(identity, e) = C!RowIs(identity, e)
      BY CAnswers
    <2>5. ASSUME NEW thread \in Names, C!ClaimSession(identity, e, thread)
          PROVE  SessionsInv'
      BY <2>5, CClaims
    <2>6. CASE C!LinkDeliveryTarget(identity, e)
      <3> DEFINE found == C!RowIs(identity, e) /\ ~ row.linked
                 changed == [row EXCEPT !.linked = TRUE]
      <3>1. /\ clock' = clock
            /\ IF found THEN C!InMemory(c, changed) ELSE UNCHANGED memory
            /\ IF found THEN C!InTable(c, changed) ELSE UNCHANGED table
        BY <2>1, <2>4, <2>6 DEF C!LinkDeliveryTarget, C!Set
      <3>2. found => changed \in C!Row /\ changed.employee = row.employee
        BY <2>2 DEF C!Row
      <3>3. found \in BOOLEAN /\ (found => row # C!NoRow)
        BY <2>2
      <3> HIDE DEF found, changed
      <3> QED BY <2>1, <3>1, <3>2, <3>3, CChanged
    <2>7. CASE C!MarkConsentAccepted(identity, e)
      <3> DEFINE found == C!RowIs(identity, e)
                 changed == [row EXCEPT !.consent = TRUE]
      <3>1. /\ clock' = clock
            /\ IF found THEN C!InMemory(c, changed) ELSE UNCHANGED memory
            /\ IF found THEN C!InTable(c, changed) ELSE UNCHANGED table
        BY <2>1, <2>4, <2>7 DEF C!MarkConsentAccepted, C!Set
      <3>2. found => changed \in C!Row /\ changed.employee = row.employee
        BY <2>2 DEF C!Row
      <3>3. found \in BOOLEAN /\ (found => row # C!NoRow)
        BY <2>2 DEF C!RowIs
      <3> HIDE DEF found, changed
      <3> QED BY <2>1, <3>1, <3>2, <3>3, CChanged
    <2>8. ASSUME NEW draft \in Names, NEW at \in 1 .. clock,
                 C!ClaimOnboardingConfirmationDelivery(identity, e, draft, at)
          PROVE  SessionsInv'
      <3> DEFINE found == C!RowClaimDelivery(identity, e, draft, at) = "claimed"
                 changed == [row EXCEPT !.claim = [draft |-> draft, at |-> clock]]
      <3>1. C!MemoryClaimDelivery(identity, e, draft, at) = C!RowClaimDelivery(identity, e, draft, at)
        BY <2>3, CAnswers
      <3>2. /\ clock' = clock
            /\ IF found THEN C!InMemory(c, changed) ELSE UNCHANGED memory
            /\ IF found THEN C!InTable(c, changed) ELSE UNCHANGED table
        BY <2>1, <2>8, <3>1 DEF C!ClaimOnboardingConfirmationDelivery, C!Set
      <3>3. found => C!RowIs(identity, e)
        BY DEF C!RowClaimDelivery
      <3>4. [draft |-> draft, at |-> clock] \in C!Claim
        BY <2>1 DEF C!Claim
      <3>5. found => changed \in C!Row /\ changed.employee = row.employee
        BY <2>2, <3>3, <3>4 DEF C!Row
      <3>6. found \in BOOLEAN /\ (found => row # C!NoRow)
        BY <2>2, <3>3
      <3> HIDE DEF found, changed
      <3> QED BY <2>1, <3>2, <3>5, <3>6, CChanged
    <2>9. ASSUME NEW draft \in Names, NEW at \in 1 .. clock,
                 C!CompleteOnboardingConfirmationDelivery(identity, e, draft, at)
          PROVE  SessionsInv'
      <3> DEFINE found == C!RowHolds(identity, e, draft, at)
                 changed == [row EXCEPT !.delivered = draft, !.claim = C!NoClaim]
      <3>1. C!MemoryHolds(identity, e, draft, at) = found
        BY <2>3, CAnswers
      <3>2. /\ clock' = clock
            /\ IF found THEN C!InMemory(c, changed) ELSE UNCHANGED memory
            /\ IF found THEN C!InTable(c, changed) ELSE UNCHANGED table
        BY <2>1, <2>9, <3>1 DEF C!CompleteOnboardingConfirmationDelivery, C!Set
      <3>3. found => C!RowIs(identity, e)
        BY DEF C!RowHolds
      <3>5. found => changed \in C!Row /\ changed.employee = row.employee
        BY <2>2, <3>3 DEF C!Row
      <3>6. found \in BOOLEAN /\ (found => row # C!NoRow)
        BY <2>2, <3>3 DEF C!RowHolds
      <3> HIDE DEF found, changed
      <3> QED BY <2>1, <3>2, <3>5, <3>6, CChanged
    <2>10. ASSUME NEW draft \in Names, NEW at \in 1 .. clock,
                  C!ReleaseOnboardingConfirmationDelivery(identity, e, draft, at)
           PROVE  SessionsInv'
      <3> DEFINE found == C!RowHolds(identity, e, draft, at)
                 changed == [row EXCEPT !.claim = C!NoClaim]
      <3>1. C!MemoryHolds(identity, e, draft, at) = found
        BY <2>3, CAnswers
      <3>2. /\ clock' = clock
            /\ IF found THEN C!InMemory(c, changed) ELSE UNCHANGED memory
            /\ IF found THEN C!InTable(c, changed) ELSE UNCHANGED table
        BY <2>1, <2>10, <3>1 DEF C!ReleaseOnboardingConfirmationDelivery, C!Set
      <3>3. found => C!RowIs(identity, e)
        BY DEF C!RowHolds
      <3>5. found => changed \in C!Row /\ changed.employee = row.employee
        BY <2>2, <3>3 DEF C!Row
      <3>6. found \in BOOLEAN /\ (found => row # C!NoRow)
        BY <2>2, <3>3 DEF C!RowHolds
      <3> HIDE DEF found, changed
      <3> QED BY <2>1, <3>2, <3>5, <3>6, CChanged
    <2>11. ASSUME NEW id \in Names, NEW at \in 1 .. clock, C!ClaimActionMessage(identity, e, id, at)
           PROVE  SessionsInv'
      <3> DEFINE found == C!RowClaimMessage(identity, e, id, at) = "claimed"
                 message == [at |-> clock, completed |-> FALSE]
      <3>1. C!MemoryClaimMessage(identity, e, id, at) = C!RowClaimMessage(identity, e, id, at)
        BY <2>3, CAnswers
      <3>2. C!SetMessage(c, id, found, found, message)
        BY <2>11, <3>1 DEF C!ClaimActionMessage
      <3>3. found => row # C!NoRow
        BY <2>2 DEF C!RowClaimMessage
      <3>4. message \in C!Message
        BY <2>1 DEF C!Message
      <3>5. found \in BOOLEAN
        OBVIOUS
      <3> HIDE DEF found, message
      <3> QED BY <2>1, <3>2, <3>3, <3>4, <3>5, CMessage
    <2>12. ASSUME NEW id \in Names, NEW at \in 1 .. clock, NEW message \in C!Message \cup {C!NoMessage},
                  C!SetMessage(c, id, C!MemoryHoldsMessage(identity, e, id, at),
                               C!RowHoldsMessage(identity, e, id, at), message)
           PROVE  SessionsInv'
      <3> DEFINE found == C!RowHoldsMessage(identity, e, id, at)
      <3>1. C!MemoryHoldsMessage(identity, e, id, at) = found
        BY <2>3, CAnswers
      <3>2. C!SetMessage(c, id, found, found, message)
        BY <2>12, <3>1
      <3>3. found => row # C!NoRow
        BY <2>2 DEF C!RowHoldsMessage
      <3>4. found \in BOOLEAN
        BY DEF C!RowHoldsMessage
      <3> HIDE DEF found
      <3> QED BY <2>1, <3>2, <3>3, <3>4, CMessage
    <2>13. ASSUME NEW id \in Names, NEW at \in 1 .. clock, C!CompleteActionMessage(identity, e, id, at)
           PROVE  SessionsInv'
      <3>1. [at |-> at, completed |-> TRUE] \in C!Message \cup {C!NoMessage}
        BY <2>3 DEF C!Message
      <3> QED BY <2>12, <2>13, <3>1 DEF C!CompleteActionMessage
    <2>14. ASSUME NEW id \in Names, NEW at \in 1 .. clock, C!ReleaseActionMessage(identity, e, id, at)
           PROVE  SessionsInv'
      BY <2>12, <2>14 DEF C!ReleaseActionMessage
    <2> QED BY <1>2, <2>5, <2>6, <2>7, <2>8, <2>9, <2>10, <2>11, <2>13, <2>14
  <1>3. CASE C!Tick
    <2>1. memory' = memory /\ table' = table /\ clock' \in Nat \ {0}
      BY <1>1, <1>3 DEF C!Tick, C!TypeOK
    <2> QED BY <2>1, CUnchanged
  <1> QED BY <1>2, <1>3, CDeletes, CRotates, CPurges DEF C!Next

-----------------------------------------------------------------------------
(* Files                                                                   *)

FileKeys == People \X F!Ids

\* The references are the rows, each under its own id, which is a past one; a delivery is of one
\* reference; what the index has, the bucket has, and the maps have no more than that.
FilesMatch ==
    /\ \A k \in FileKeys : memory.references[k] # F!NoReference =>
          /\ memory.references[k].owner = k[1] /\ memory.references[k].id = k[2]
          /\ memory.references[k].id <= clock
          /\ memory.references[k] \in table.artifacts
    /\ \A r \in table.artifacts :
          /\ memory.references[<<r.owner, r.id>>] = r
          /\ memory.deliveries[<<r.owner, r.delivery>>] = r.id
          /\ <<r.owner, r.content>> \in table.contents
    /\ \A u \in People, d \in Things : memory.deliveries[<<u, d>>] # 0 =>
          /\ memory.references[<<u, memory.deliveries[<<u, d>>]>>] # F!NoReference
          /\ memory.references[<<u, memory.deliveries[<<u, d>>]>>].delivery = d
    /\ \A k \in People \X Sizes : memory.contents[k] <=> k \in table.contents
    /\ memory.objects = table.contents /\ table.objects = table.contents

FilesInv == F!TypeOK /\ FilesMatch

LEMMA FNothing ==
    ASSUME F!Sensible
    PROVE  /\ \A x \in People \cup Things : x # 0 /\ x \in Nat
           /\ F!NoReference.owner = 0 /\ F!NoReference.status = "absent"
           /\ \A r \in F!Reference :
                 /\ r # F!NoReference /\ r.owner \in People /\ r.id \in F!Ids /\ r.delivery \in Things
                 /\ r.content \in Sizes /\ r.status \in {"active", "deleted"}
           /\ \A x \in F!Ids : x \in Nat \ {0}
           /\ Writes \in Nat
  BY DEF F!Sensible, F!NoReference, F!Reference, F!Ids, F!Null

LEMMA FInit == F!Sensible /\ F!Init => FilesInv
  <1> SUFFICES ASSUME F!Sensible, F!Init PROVE FilesInv
    OBVIOUS
  <1>1. F!TypeOK
    BY FNothing DEF F!Init, F!TypeOK, F!Null
  <1>2. FilesMatch
    BY DEF F!Init, FilesMatch, F!Null, FileKeys
  <1> QED BY <1>1, <1>2 DEF FilesInv

LEMMA FRows ==
    ASSUME F!Sensible, FilesInv, NEW u \in People
    PROVE  /\ \A id \in F!Ids : F!RowGet(u, id) = memory.references[<<u, id>>]
           /\ \A d \in Things :
                 /\ memory.deliveries[<<u, d>>] = 0 <=> F!FindByDelivery(u, d) = F!NoReference
                 /\ memory.deliveries[<<u, d>>] = 0 <=> ~ \E r \in table.artifacts : r.owner = u /\ r.delivery = d
                 /\ memory.deliveries[<<u, d>>] # 0 =>
                       F!FindByDelivery(u, d) = memory.references[<<u, memory.deliveries[<<u, d>>]>>]
  <1>1. F!TypeOK /\ FilesMatch /\ table.artifacts \subseteq F!Reference
    BY DEF FilesInv, F!TypeOK
  <1>2. ASSUME NEW id \in F!Ids
        PROVE  F!RowGet(u, id) = memory.references[<<u, id>>]
    <2> DEFINE found == {r \in table.artifacts : r.owner = u /\ r.id = id /\ <<u, r.content>> \in table.contents}
               own == memory.references[<<u, id>>]
    <2>1. \A r \in found : r = own
      BY <1>1 DEF FilesMatch
    <2>2. own # F!NoReference => own \in found
      <3>1. <<u, id>> \in FileKeys
        BY DEF FileKeys
      <3>2. own # F!NoReference => own \in table.artifacts /\ own.owner = u /\ own.id = id
        BY <1>1, <3>1 DEF FilesMatch
      <3>3. \A r \in table.artifacts : <<r.owner, r.content>> \in table.contents
        BY <1>1 DEF FilesMatch
      <3> QED BY <3>2, <3>3
    <2>3. \A r \in found : r # F!NoReference
      BY <1>1, FNothing
    <2>4. F!RowGet(u, id) = IF found = {} THEN F!NoReference ELSE CHOOSE r \in found : TRUE
      BY DEF F!RowGet
    <2> HIDE DEF found, own
    <2>5. F!RowGet(u, id) = own
      BY <2>1, <2>2, <2>3, <2>4
    <2> QED BY <2>5 DEF own
  <1>3. ASSUME NEW d \in Things
        PROVE  /\ memory.deliveries[<<u, d>>] = 0 <=> F!FindByDelivery(u, d) = F!NoReference
               /\ memory.deliveries[<<u, d>>] = 0 <=> ~ \E r \in table.artifacts : r.owner = u /\ r.delivery = d
               /\ memory.deliveries[<<u, d>>] # 0 =>
                     F!FindByDelivery(u, d) = memory.references[<<u, memory.deliveries[<<u, d>>]>>]
    <2> DEFINE id == memory.deliveries[<<u, d>>]
               own == memory.references[<<u, id>>]
               any == {r \in table.artifacts : r.owner = u /\ r.delivery = d}
               found == {r \in table.artifacts : r.owner = u /\ r.delivery = d /\ <<u, r.content>> \in table.contents}
    <2>1. id \in F!Ids \cup {0}
      BY <1>1 DEF F!TypeOK, F!Null
    <2>2. any = found
      BY <1>1 DEF FilesMatch
    <2>3. \A r \in found : r = own /\ r.id = id /\ id # 0 /\ r # F!NoReference
      <3> SUFFICES ASSUME NEW r \in found PROVE r = own /\ r.id = id /\ id # 0 /\ r # F!NoReference
        OBVIOUS
      <3>1. r \in table.artifacts /\ r \in F!Reference /\ r.owner = u /\ r.delivery = d
        BY <1>1
      <3>2. memory.references[<<r.owner, r.id>>] = r /\ memory.deliveries[<<r.owner, r.delivery>>] = r.id
        BY <1>1, <3>1 DEF FilesMatch
      <3>3. r.id # 0 /\ r # F!NoReference
        BY <3>1, FNothing
      <3> QED BY <3>1, <3>2, <3>3
    <2>4. id # 0 => own \in found
      <3>1. id # 0 => own # F!NoReference /\ own.delivery = d
        BY <1>1 DEF FilesMatch
      <3>2. id # 0 => <<u, id>> \in FileKeys
        BY <2>1 DEF FileKeys
      <3>3. id # 0 => own \in table.artifacts /\ own.owner = u
        BY <1>1, <3>1, <3>2 DEF FilesMatch
      <3> QED BY <2>2, <3>1, <3>3
    <2>5. F!FindByDelivery(u, d) = IF found = {} THEN F!NoReference ELSE CHOOSE r \in found : TRUE
      BY DEF F!FindByDelivery
    <2>6. (\E r \in table.artifacts : r.owner = u /\ r.delivery = d) <=> found # {}
      BY <2>2
    <2> HIDE DEF found, own, id
    <2>7. /\ id = 0 <=> F!FindByDelivery(u, d) = F!NoReference
          /\ id = 0 <=> found = {}
          /\ id # 0 => F!FindByDelivery(u, d) = own
      BY <2>3, <2>4, <2>5
    <2> QED BY <2>6, <2>7 DEF own, id
  <1> QED BY <1>2, <1>3

LEMMA FUsage ==
    ASSUME F!Sensible, FilesInv, NEW u \in People
    PROVE  /\ F!MemoryUsage({u}) = F!Bytes({k \in table.contents : k[1] = u})
           /\ F!MemoryUsage(People) = F!Bytes(table.contents)
  <1>1. table.contents \subseteq People \X Sizes
    BY DEF FilesInv, F!TypeOK
  <1>2. \A k \in People \X Sizes : memory.contents[k] <=> k \in table.contents
    BY DEF FilesInv, FilesMatch
  <1>3. {k \in {u} \X Sizes : memory.contents[k]} = {k \in table.contents : k[1] = u}
    BY <1>1, <1>2
  <1>4. {k \in People \X Sizes : memory.contents[k]} = table.contents
    BY <1>1, <1>2
  <1> QED BY <1>3, <1>4 DEF F!MemoryUsage

LEMMA FCapacity ==
    ASSUME F!Sensible, FilesInv, NEW u \in People, NEW d \in Things
    PROVE  /\ \A size : F!CheckCapacity(u, d, size)
           /\ memory.deliveries[<<u, d>>] = 0 =>
                 \A size : F!CapacitySnapshot(u, d, size)
                              = F!Capacity(F!MemoryUsage({u}), F!MemoryUsage(People), size, FALSE)
  <1> DEFINE there == \E r \in table.artifacts : r.owner = u /\ r.delivery = d
  <1>1. (memory.deliveries[<<u, d>>] # 0) = there
    BY FRows
  <1>2. \A size : F!MemoryCheckCapacity(u, d, size)
                     = F!Capacity(F!MemoryUsage({u}), F!MemoryUsage(People), size, there)
    BY <1>1 DEF F!MemoryCheckCapacity, F!Null
  <1>3. \A size : F!CapacitySnapshot(u, d, size)
                     = F!Capacity(F!MemoryUsage({u}), F!MemoryUsage(People), size, there)
    BY FUsage DEF F!CapacitySnapshot
  <1>4. memory.deliveries[<<u, d>>] = 0 => there = FALSE
    BY <1>1
  <1> HIDE DEF there
  <1> QED BY <1>2, <1>3, <1>4 DEF F!CheckCapacity

LEMMA FSaved ==
    ASSUME F!Sensible, FilesInv, NEW u \in People, NEW d \in Things, NEW content \in Sizes, NEW sized
    PROVE  F!MemorySave(u, d, content, sized) = F!RowSave(u, d, content, sized)
  <1> DEFINE duplicate == memory.deliveries[<<u, d>>]
             Fits(size) == F!Capacity(F!MemoryUsage({u}), F!MemoryUsage(People), size, FALSE)
             existing == <<u, content>> \in table.contents
             capacity == Fits(IF existing THEN 0 ELSE content)
  <1>1. memory.objects = table.contents /\ table.objects = table.contents
    BY DEF FilesInv, FilesMatch
  <1>2. CASE duplicate # 0
    BY <1>2, FRows DEF F!MemorySave, F!RowSave, F!Null
  <1>3. CASE duplicate = 0
    <2>1. F!FindByDelivery(u, d) = F!NoReference
      BY <1>3, FRows
    <2>2. \A size : F!CapacitySnapshot(u, d, size) = Fits(size)
      BY <1>3, FCapacity
    <2>6. F!CapacitySnapshot(u, d, IF existing THEN 0 ELSE content) = capacity
      <3> DEFINE size == IF existing THEN 0 ELSE content
      <3> HIDE DEF Fits, size
      <3>1. F!CapacitySnapshot(u, d, size) = Fits(size)
        BY <2>2
      <3> QED BY <3>1 DEF size
    <2>7. (~ existing /\ ~ existing) = (~ existing)
      OBVIOUS
    <2> HIDE DEF Fits, capacity
    <2>3. F!PersistReference(u, d, content, existing)
             = IF capacity.outcome # "fits" THEN F!Saved(capacity.outcome, F!NoReference, FALSE, FALSE)
               ELSE F!Saved("created", F!New(u, d, content), ~ existing, capacity.warning)
      <3>1. F!PersistReference(u, d, content, existing)
               = IF F!CapacitySnapshot(u, d, IF existing THEN 0 ELSE content).outcome # "fits"
                 THEN F!Saved(F!CapacitySnapshot(u, d, IF existing THEN 0 ELSE content).outcome, F!NoReference, FALSE, FALSE)
                 ELSE F!Saved("created", F!New(u, d, content), ~ existing /\ ~ existing,
                              F!CapacitySnapshot(u, d, IF existing THEN 0 ELSE content).warning)
        BY Zenon DEF F!PersistReference
      <3> HIDE DEF existing
      <3> QED BY <2>6, <2>7, <3>1
    <2>4. F!RowSave(u, d, content, sized)
             = IF sized /\ Fits(content).outcome # "fits" /\ Fits(1).outcome # "fits"
               THEN F!Saved(Fits(1).outcome, F!NoReference, FALSE, FALSE)
               ELSE IF sized /\ Fits(content).outcome # "fits" /\ content = 0
               THEN F!Saved(Fits(content).outcome, F!NoReference, FALSE, FALSE)
               ELSE IF capacity.outcome # "fits" THEN F!Saved(capacity.outcome, F!NoReference, FALSE, FALSE)
               ELSE F!PersistReference(u, d, content, existing)
      <3> DEFINE Snapshot(size) == F!CapacitySnapshot(u, d, size)
                 there == <<u, content>> \in table.objects
      <3>1. F!RowSave(u, d, content, sized)
               = IF sized /\ Snapshot(content).outcome # "fits" /\ Snapshot(1).outcome # "fits"
                 THEN F!Saved(Snapshot(1).outcome, F!NoReference, FALSE, FALSE)
                 ELSE IF sized /\ Snapshot(content).outcome # "fits" /\ content = 0
                 THEN F!Saved(Snapshot(content).outcome, F!NoReference, FALSE, FALSE)
                 ELSE IF Snapshot(IF there THEN 0 ELSE content).outcome # "fits"
                 THEN F!Saved(Snapshot(IF there THEN 0 ELSE content).outcome, F!NoReference, FALSE, FALSE)
                 ELSE F!PersistReference(u, d, content, there)
        BY <2>1 DEF F!RowSave
      <3>2. there = existing
        BY <1>1
      <3>3. Snapshot(content) = Fits(content) /\ Snapshot(1) = Fits(1)
        BY <2>2
      <3> HIDE DEF there, existing
      <3>4. Snapshot(IF there THEN 0 ELSE content) = capacity
        BY <2>6, <3>2
      <3> HIDE DEF Snapshot
      <3> QED BY <3>1, <3>2, <3>3, <3>4
    <2>5. F!MemorySave(u, d, content, sized)
             = IF sized /\ Fits(content).outcome # "fits" /\ Fits(1).outcome # "fits"
               THEN F!Saved(Fits(1).outcome, F!NoReference, FALSE, FALSE)
               ELSE IF sized /\ Fits(content).outcome # "fits" /\ content = 0
               THEN F!Saved(Fits(content).outcome, F!NoReference, FALSE, FALSE)
               ELSE IF capacity.outcome # "fits" THEN F!Saved(capacity.outcome, F!NoReference, FALSE, FALSE)
               ELSE F!Saved("created", F!New(u, d, content), ~ existing, capacity.warning)
      BY <1>1, <1>3 DEF F!MemorySave, F!Null, Fits, capacity
    <2> HIDE DEF existing
    <2> QED BY ONLY <2>3, <2>4, <2>5
  <1> QED BY <1>2, <1>3

LEMMA FLists ==
    ASSUME F!Sensible, FilesInv, NEW u \in People, NEW status, NEW limit
    PROVE  F!MemoryList(u, status, limit) = F!RowList(u, status, limit)
  <1> DEFINE first == {r \in {memory.references[k] : k \in People \X F!Ids} : r.owner = u /\ r.status = status}
             second == {r \in table.artifacts : r.owner = u /\ r.status = status /\ <<u, r.content>> \in table.contents}
  <1>1. table.artifacts \subseteq F!Reference
    BY DEF FilesInv, F!TypeOK
  <1>2. ASSUME NEW r \in first
        PROVE  r \in second
    <2>1. PICK k \in FileKeys : r = memory.references[k]
      BY DEF FileKeys
    <2>2. r # F!NoReference
      BY FNothing
    <2> QED BY <2>1, <2>2 DEF FilesInv, FilesMatch
  <1>3. ASSUME NEW r \in second
        PROVE  r \in first
    <2>1. <<r.owner, r.id>> \in People \X F!Ids
      BY <1>1, FNothing
    <2>2. memory.references[<<r.owner, r.id>>] = r
      BY DEF FilesInv, FilesMatch
    <2> QED BY <2>1, <2>2
  <1>4. first = second
    BY <1>2, <1>3
  <1>5. F!MemoryList(u, status, limit)
           = {<<F!Cardinality({s \in first : s.id < r.id}), r>> :
                 r \in {s \in first : limit = 0 \/ F!Cardinality({x \in first : x.id < s.id}) < limit}}
    BY DEF F!MemoryList
  <1>6. F!RowList(u, status, limit)
           = {<<F!Cardinality({s \in second : s.id < r.id}), r>> :
                 r \in {s \in second : limit = 0 \/ F!Cardinality({x \in second : x.id < s.id}) < limit}}
    BY DEF F!RowList
  <1> HIDE DEF first, second
  <1> QED BY <1>4, <1>5, <1>6

LEMMA FAgree == F!Sensible /\ FilesInv => F!Agree
  <1> SUFFICES ASSUME F!Sensible, FilesInv, NEW u \in People
               PROVE  /\ \A delivery \in Things, content \in Sizes :
                            /\ F!CheckCapacity(u, delivery, content)
                            /\ \A sized \in BOOLEAN :
                                  F!MemorySave(u, delivery, content, sized) = F!RowSave(u, delivery, content, sized)
                      /\ \A id \in F!Ids : F!MemoryGet(u, id) = F!RowGet(u, id) /\ F!MemoryDelete(u, id) = F!RowDelete(u, id)
                      /\ \A status \in {"active", "deleted"}, limit \in Pages :
                            F!MemoryList(u, status, limit) = F!RowList(u, status, limit)
                      /\ \A content \in Sizes : F!MemoryStat(u, content) = F!BucketStat(u, content)
    BY DEF F!Agree
  <1>1. \A id \in F!Ids : F!MemoryGet(u, id) = F!RowGet(u, id)
    BY FRows DEF F!MemoryGet
  <1>2. \A id \in F!Ids : F!MemoryDelete(u, id) = F!RowDelete(u, id)
    <2> TAKE id \in F!Ids
    <2> DEFINE own == F!MemoryGet(u, id)
    <2>1. own \in F!Reference \cup {F!NoReference}
      BY DEF FilesInv, F!TypeOK, F!MemoryGet
    <2>2. own # F!NoReference => own.status \in {"active", "deleted"}
      BY <2>1, FNothing
    <2>3. F!RowGet(u, id) = own
      BY <1>1
    <2> HIDE DEF own
    <2>4. F!MemoryDelete(u, id) = IF own = F!NoReference THEN F!NoReference
                                  ELSE IF own.status = "active" THEN [own EXCEPT !.status = "deleted", !.deleted = clock]
                                  ELSE own
      BY DEF F!MemoryDelete, own
    <2>5. F!RowDelete(u, id) = IF own = F!NoReference \/ own.status = "deleted" THEN own
                               ELSE [own EXCEPT !.status = "deleted", !.deleted = clock]
      BY <2>3 DEF F!RowDelete
    <2> QED BY <2>2, <2>4, <2>5
  <1>3. \A content \in Sizes : F!MemoryStat(u, content) = F!BucketStat(u, content)
    BY DEF FilesInv, FilesMatch, F!MemoryStat, F!BucketStat
  <1> QED BY <1>1, <1>2, <1>3, FCapacity, FSaved, FLists

LEMMA FUnchanged ==
    ASSUME F!Sensible, FilesInv, memory' = memory, table' = table, clock' \in 0 .. Writes, clock <= clock'
    PROVE  FilesInv'
  <1>1. clock \in Nat /\ clock' \in Nat
    BY FNothing DEF FilesInv, F!TypeOK
  <1>2. \A k \in FileKeys : memory.references[k] # F!NoReference => memory.references[k].id \in Nat
    BY FNothing DEF FilesInv, F!TypeOK, FileKeys
  <1>3. F!TypeOK'
    BY DEF FilesInv, F!TypeOK
  <1>4. FilesMatch
    BY DEF FilesInv
  <1>5. \A k \in FileKeys : memory.references[k] # F!NoReference => memory.references[k].id <= clock'
    BY <1>1, <1>2, <1>4 DEF FilesMatch
  <1>6. FilesMatch'
    BY <1>4, <1>5 DEF FilesMatch, FileKeys, F!Ids, F!NoReference, F!Null
  <1> QED BY <1>3, <1>6 DEF FilesInv

LEMMA FCreates ==
    ASSUME F!Sensible, FilesInv, NEW u \in People, NEW d \in Things, NEW content \in Sizes,
           clock < Writes, clock' = clock + 1, memory.deliveries[<<u, d>>] = 0,
           memory' = [references |-> [memory.references EXCEPT ![<<u, clock + 1>>] = F!New(u, d, content)],
                      deliveries |-> [memory.deliveries EXCEPT ![<<u, d>>] = clock + 1],
                      contents |-> IF <<u, content>> \in memory.objects THEN memory.contents
                                   ELSE [memory.contents EXCEPT ![<<u, content>>] = TRUE],
                      objects |-> memory.objects \cup {<<u, content>>}],
           table' = [artifacts |-> table.artifacts \cup {F!New(u, d, content)},
                     contents |-> table.contents \cup {<<u, content>>},
                     objects |-> table.objects \cup {<<u, content>>}]
    PROVE  FilesInv'
  <1> DEFINE id == clock + 1
             new == F!New(u, d, content)
             key == <<u, content>>
  <1>1. F!TypeOK /\ FilesMatch
    BY DEF FilesInv
  <1>2. clock \in Nat /\ id \in F!Ids /\ id \in Nat \ {0} /\ id \in 0 .. Writes
    BY <1>1, FNothing DEF F!TypeOK, F!Ids
  <1>3. /\ new \in F!Reference /\ new # F!NoReference
        /\ new.owner = u /\ new.id = id /\ new.delivery = d /\ new.content = content
    <2>1. new \in F!Reference
      BY <1>2 DEF F!New, F!Reference
    <2> QED BY <2>1, FNothing DEF F!New
  <1>4. <<u, id>> \in People \X F!Ids /\ <<u, d>> \in People \X Things /\ key \in People \X Sizes
    BY <1>2
  <1>5. memory.references[<<u, id>>] = F!NoReference
    <2>1. <<u, id>> \in FileKeys
      BY <1>4 DEF FileKeys
    <2>2. memory.references[<<u, id>>] # F!NoReference =>
             memory.references[<<u, id>>].id <= clock /\ memory.references[<<u, id>>].id = id
      BY <1>1, <2>1 DEF FilesMatch
    <2>3. ~ (id <= clock)
      BY <1>2
    <2> QED BY <2>2, <2>3
  <1>6. /\ \A k \in People \X F!Ids : memory'.references[k] = IF k = <<u, id>> THEN new ELSE memory.references[k]
        /\ \A k \in People \X Things : memory'.deliveries[k] = IF k = <<u, d>> THEN id ELSE memory.deliveries[k]
        /\ \A k \in People \X Sizes : memory'.contents[k] = IF k = key THEN TRUE ELSE memory.contents[k]
        /\ memory'.objects = memory.objects \cup {key}
        /\ table'.artifacts = table.artifacts \cup {new}
        /\ table'.contents = table.contents \cup {key} /\ table'.objects = table.objects \cup {key}
    <2>1. \A k \in People \X Sizes : memory'.contents[k] = IF k = key THEN TRUE ELSE memory.contents[k]
      <3>1. key \in memory.objects => memory.contents[key] = TRUE
        BY <1>1, <1>4 DEF FilesMatch, F!TypeOK
      <3>2. memory'.contents = IF key \in memory.objects THEN memory.contents
                              ELSE [memory.contents EXCEPT ![key] = TRUE]
        OBVIOUS
      <3>3. memory.contents \in [People \X Sizes -> BOOLEAN]
        BY <1>1 DEF F!TypeOK
      <3> HIDE DEF key
      <3> QED BY ONLY <3>1, <3>2, <3>3
    <2> QED BY <1>1, <1>4, <2>1 DEF F!TypeOK
  <1>7. F!TypeOK'
    <2>1. memory'.references \in [People \X F!Ids -> F!Reference \cup {F!NoReference}]
      BY <1>1, <1>3 DEF F!TypeOK
    <2>2. memory'.deliveries \in [People \X Things -> F!Ids \cup {0}]
      BY <1>1, <1>2 DEF F!TypeOK, F!Null
    <2>3. memory'.contents \in [People \X Sizes -> BOOLEAN]
      BY <1>1 DEF F!TypeOK
    <2>4. memory'.objects \in SUBSET (People \X Sizes)
      BY <1>1, <1>4 DEF F!TypeOK
    <2>5. table' \in [artifacts : SUBSET F!Reference, contents : SUBSET (People \X Sizes),
                      objects : SUBSET (People \X Sizes)]
      BY <1>1, <1>3, <1>4 DEF F!TypeOK
    <2>6. memory' = [references |-> memory'.references, deliveries |-> memory'.deliveries,
                     contents |-> memory'.contents, objects |-> memory'.objects]
      OBVIOUS
    <2>7. memory' \in [references : [People \X F!Ids -> F!Reference \cup {F!NoReference}],
                       deliveries : [People \X Things -> F!Ids \cup {0}],
                       contents : [People \X Sizes -> BOOLEAN],
                       objects : SUBSET (People \X Sizes)]
      BY ONLY <2>1, <2>2, <2>3, <2>4, <2>6
    <2> QED BY <1>2, <2>5, <2>7 DEF F!TypeOK, F!Null, F!Reference, F!NoReference, F!Ids
  <1> HIDE DEF new, key, id
  <1>8. clock' = id
    BY DEF id
  <1>9. ASSUME NEW r \in table.artifacts
        PROVE  <<r.owner, r.id>> # <<u, id>> /\ <<r.owner, r.delivery>> # <<u, d>>
               /\ r \in F!Reference
    <2>1. r \in F!Reference /\ r # F!NoReference /\ r.id # 0 /\ r.owner \in People
      BY <1>1, FNothing DEF F!TypeOK
    <2>2. memory.references[<<r.owner, r.id>>] = r /\ memory.deliveries[<<r.owner, r.delivery>>] = r.id
      BY <1>1 DEF FilesMatch
    <2> QED BY <1>5, <2>1, <2>2
  <1>10. ASSUME NEW k \in People \X F!Ids, memory'.references[k] # F!NoReference
         PROVE  /\ memory'.references[k].owner = k[1] /\ memory'.references[k].id = k[2]
                /\ memory'.references[k].id <= clock'
                /\ memory'.references[k] \in table'.artifacts
    <2>1. CASE k = <<u, id>>
      BY <1>2, <1>3, <1>6, <1>8, <2>1
    <2>2. CASE k # <<u, id>>
      <3>1. k \in FileKeys /\ memory'.references[k] = memory.references[k]
        BY <1>6, <2>2 DEF FileKeys
      <3>2. /\ memory.references[k].owner = k[1] /\ memory.references[k].id = k[2]
            /\ memory.references[k].id <= clock
            /\ memory.references[k] \in table.artifacts
        BY <1>1, <1>10, <3>1 DEF FilesMatch
      <3>3. k[2] \in Nat
        BY FNothing
      <3>4. k[2] <= clock'
        BY <1>2, <1>8, <3>2, <3>3 DEF id
      <3> QED BY <1>6, <3>1, <3>2, <3>4
    <2> QED BY <2>1, <2>2
  <1>11. ASSUME NEW r \in table'.artifacts
         PROVE  /\ memory'.references[<<r.owner, r.id>>] = r
                /\ memory'.deliveries[<<r.owner, r.delivery>>] = r.id
                /\ <<r.owner, r.content>> \in table'.contents
    <2>1. CASE r = new
      BY <1>3, <1>4, <1>6, <2>1 DEF key
    <2>2. CASE r \in table.artifacts
      <3>1. r \in F!Reference /\ <<r.owner, r.id>> \in People \X F!Ids /\ <<r.owner, r.delivery>> \in People \X Things
        BY <1>9, <2>2, FNothing
      <3>2. /\ memory.references[<<r.owner, r.id>>] = r /\ memory.deliveries[<<r.owner, r.delivery>>] = r.id
            /\ <<r.owner, r.content>> \in table.contents
        BY <1>1, <2>2 DEF FilesMatch
      <3> QED BY <1>6, <1>9, <2>2, <3>1, <3>2
    <2> QED BY <1>6, <1>11, <2>1, <2>2
  <1>12. ASSUME NEW v \in People, NEW x \in Things, memory'.deliveries[<<v, x>>] # 0
         PROVE  /\ memory'.references[<<v, memory'.deliveries[<<v, x>>]>>] # F!NoReference
                /\ memory'.references[<<v, memory'.deliveries[<<v, x>>]>>].delivery = x
    <2>1. CASE <<v, x>> = <<u, d>>
      <3>1. memory'.deliveries[<<v, x>>] = id /\ v = u /\ x = d
        BY <1>6, <2>1
      <3>2. memory'.references[<<u, id>>] = new
        BY <1>4, <1>6
      <3> QED BY <1>3, <3>1, <3>2
    <2>2. CASE <<v, x>> # <<u, d>>
      <3> DEFINE was == memory.deliveries[<<v, x>>]
      <3>1. memory'.deliveries[<<v, x>>] = was /\ was # 0
        BY <1>6, <1>12, <2>2
      <3>2. /\ memory.references[<<v, was>>] # F!NoReference /\ memory.references[<<v, was>>].delivery = x
            /\ was \in F!Ids
        BY <1>1, <3>1 DEF FilesMatch, F!TypeOK, F!Null
      <3>3. <<v, was>> # <<u, id>> /\ <<v, was>> \in People \X F!Ids
        BY <1>5, <3>2
      <3> HIDE DEF was
      <3>4. memory'.references[<<v, was>>] = memory.references[<<v, was>>]
        BY <1>6, <3>3
      <3> QED BY <3>1, <3>2, <3>4 DEF was
    <2> QED BY <2>1, <2>2
  <1>13. \A k \in People \X Sizes : memory'.contents[k] <=> k \in table'.contents
    <2>1. \A k \in People \X Sizes : memory.contents[k] <=> k \in table.contents
      BY <1>1 DEF FilesMatch
    <2>2. memory.objects = table.contents
      BY <1>1 DEF FilesMatch
    <2> QED BY <1>6, <2>1, <2>2
  <1>14. memory'.objects = table'.contents /\ table'.objects = table'.contents
    BY <1>1, <1>6 DEF FilesMatch
  <1>15. FilesMatch'
    BY <1>10, <1>11, <1>12, <1>13, <1>14 DEF FilesMatch, FileKeys, F!Ids, F!NoReference, F!Null
  <1> QED BY <1>7, <1>15 DEF FilesInv

LEMMA FSaves ==
    ASSUME F!Sensible, FilesInv, NEW u \in People, NEW d \in Things, NEW content \in Sizes, NEW sized,
           F!Save(u, d, content, sized)
    PROVE  FilesInv'
  <1> DEFINE answer == F!RowSave(u, d, content, sized)
  <1>1. F!MemorySave(u, d, content, sized) = answer
    BY FSaved
  <1>2. clock < Writes /\ clock' = clock + 1 /\ clock \in 0 .. Writes /\ Writes \in Nat
    BY FNothing DEF F!Save, FilesInv, F!TypeOK
  <1>3. CASE answer.outcome # "created"
    <2>1. memory' = memory /\ table' = table
      BY <1>1, <1>3 DEF F!Save
    <2> QED BY <1>2, <2>1, FUnchanged
  <1>4. CASE answer.outcome = "created"
    <2>1. memory.deliveries[<<u, d>>] = 0
      <3>1. memory.deliveries[<<u, d>>] # 0 => F!MemorySave(u, d, content, sized).outcome = "duplicate"
        BY DEF F!MemorySave, F!Saved, F!Null
      <3> QED BY <1>1, <1>4, <3>1
    <2>2. /\ memory' = [references |-> [memory.references EXCEPT ![<<u, clock + 1>>] = F!New(u, d, content)],
                        deliveries |-> [memory.deliveries EXCEPT ![<<u, d>>] = clock + 1],
                        contents |-> IF <<u, content>> \in memory.objects THEN memory.contents
                                     ELSE [memory.contents EXCEPT ![<<u, content>>] = TRUE],
                        objects |-> memory.objects \cup {<<u, content>>}]
          /\ table' = [artifacts |-> table.artifacts \cup {F!New(u, d, content)},
                       contents |-> table.contents \cup {<<u, content>>},
                       objects |-> table.objects \cup {<<u, content>>}]
      BY <1>1, <1>4, Zenon DEF F!Save
    <2> QED BY <1>2, <2>1, <2>2, FCreates
  <1> QED BY <1>3, <1>4

LEMMA FDeletes ==
    ASSUME F!Sensible, FilesInv, NEW u \in People, NEW id \in F!Ids, F!Delete(u, id)
    PROVE  FilesInv'
  <1> DEFINE own == memory.references[<<u, id>>]
             gone == [own EXCEPT !.status = "deleted", !.deleted = clock]
  <1>1. F!TypeOK /\ FilesMatch /\ clock' = clock /\ clock \in 0 .. Writes /\ clock \in Nat
    BY FNothing DEF FilesInv, F!Delete, F!TypeOK
  <1>2. F!RowGet(u, id) = own /\ F!MemoryGet(u, id) = own
    BY FRows DEF F!MemoryGet
  <1>3. CASE own.status # "active"
    <2>1. memory' = memory /\ table' = table
      BY <1>2, <1>3 DEF F!Delete
    <2>2. clock <= clock
      BY <1>1
    <2> QED BY <1>1, <2>1, <2>2, FUnchanged
  <1>4. CASE own.status = "active"
    <2>1. <<u, id>> \in People \X F!Ids /\ <<u, id>> \in FileKeys
      BY DEF FileKeys
    <2>2. own # F!NoReference
      BY <1>4, FNothing
    <2>3. own \in F!Reference
      BY <1>1, <2>1, <2>2 DEF F!TypeOK
    <2>4. /\ own \in table.artifacts /\ own.owner = u /\ own.id = id /\ id <= clock
          /\ memory.deliveries[<<u, own.delivery>>] = id /\ <<u, own.content>> \in table.contents
      BY <1>1, <2>1, <2>2 DEF FilesMatch
    <2>5. /\ gone \in F!Reference /\ gone.owner = u /\ gone.id = id
          /\ gone.delivery = own.delivery /\ gone.content = own.content
      BY <1>1, <2>3, <2>4 DEF F!Reference
    <2>6. gone # F!NoReference
      BY <2>5, FNothing
    <2>7. F!MemoryDelete(u, id) = gone /\ F!RowDelete(u, id) = gone
      BY <1>2, <1>4, <2>2 DEF F!MemoryDelete, F!RowDelete
    <2>8. /\ memory' = [memory EXCEPT !.references = [memory.references EXCEPT ![<<u, id>>] = gone]]
          /\ table' = [table EXCEPT !.artifacts = (table.artifacts \ {own}) \cup {gone}]
      BY <1>2, <1>4, <2>7 DEF F!Delete
    <2> HIDE DEF own, gone
    <2>9. /\ \A k \in People \X F!Ids : memory'.references[k] = IF k = <<u, id>> THEN gone ELSE memory.references[k]
          /\ memory'.deliveries = memory.deliveries /\ memory'.contents = memory.contents
          /\ memory'.objects = memory.objects
          /\ table'.artifacts = (table.artifacts \ {own}) \cup {gone}
          /\ table'.contents = table.contents /\ table'.objects = table.objects
      BY <1>1, <2>8 DEF F!TypeOK
    <2>10. F!TypeOK'
      <3>1. [memory.references EXCEPT ![<<u, id>>] = gone] \in [People \X F!Ids -> F!Reference \cup {F!NoReference}]
        BY <1>1, <2>5 DEF F!TypeOK
      <3>2. (table.artifacts \ {own}) \cup {gone} \in SUBSET F!Reference
        BY <1>1, <2>5 DEF F!TypeOK
      <3> QED BY <1>1, <2>8, <3>1, <3>2 DEF F!TypeOK
    <2>11. ASSUME NEW r \in table.artifacts, r # own
           PROVE  r \in F!Reference /\ <<r.owner, r.id>> # <<u, id>>
      <3>1. memory.references[<<r.owner, r.id>>] = r /\ r \in F!Reference
        BY <1>1 DEF FilesMatch, F!TypeOK
      <3> QED BY <2>11, <3>1 DEF own
    <2>12. ASSUME NEW k \in People \X F!Ids, memory'.references[k] # F!NoReference
           PROVE  /\ memory'.references[k].owner = k[1] /\ memory'.references[k].id = k[2]
                  /\ memory'.references[k].id <= clock'
                  /\ memory'.references[k] \in table'.artifacts
      <3>1. CASE k = <<u, id>>
        BY <1>1, <2>4, <2>5, <2>9, <3>1
      <3>2. CASE k # <<u, id>>
        <4>1. k \in FileKeys /\ memory'.references[k] = memory.references[k]
          BY <2>9, <3>2 DEF FileKeys
        <4>2. /\ memory.references[k].owner = k[1] /\ memory.references[k].id = k[2]
              /\ memory.references[k].id <= clock
              /\ memory.references[k] \in table.artifacts
          BY <1>1, <2>12, <4>1 DEF FilesMatch
        <4>3. memory.references[k] # own
          BY <2>4, <3>2, <4>2
        <4> QED BY <1>1, <2>9, <4>1, <4>2, <4>3
      <3> QED BY <3>1, <3>2
    <2>13. ASSUME NEW r \in table'.artifacts
           PROVE  /\ memory'.references[<<r.owner, r.id>>] = r
                  /\ memory'.deliveries[<<r.owner, r.delivery>>] = r.id
                  /\ <<r.owner, r.content>> \in table'.contents
      <3>1. CASE r = gone
        BY <2>1, <2>4, <2>5, <2>9, <3>1
      <3>2. CASE r \in table.artifacts /\ r # own
        <4>1. <<r.owner, r.id>> \in People \X F!Ids
          BY <2>11, <3>2, FNothing
        <4>2. /\ memory.references[<<r.owner, r.id>>] = r /\ memory.deliveries[<<r.owner, r.delivery>>] = r.id
              /\ <<r.owner, r.content>> \in table.contents
          BY <1>1, <3>2 DEF FilesMatch
        <4> QED BY <2>9, <2>11, <3>2, <4>1, <4>2
      <3> QED BY <2>9, <2>13, <3>1, <3>2
    <2>14. ASSUME NEW v \in People, NEW x \in Things, memory'.deliveries[<<v, x>>] # 0
           PROVE  /\ memory'.references[<<v, memory'.deliveries[<<v, x>>]>>] # F!NoReference
                  /\ memory'.references[<<v, memory'.deliveries[<<v, x>>]>>].delivery = x
      <3> DEFINE was == memory.deliveries[<<v, x>>]
      <3>1. memory'.deliveries[<<v, x>>] = was /\ was # 0
        BY <2>9, <2>14
      <3>2. /\ memory.references[<<v, was>>] # F!NoReference /\ memory.references[<<v, was>>].delivery = x
            /\ was \in F!Ids
        BY <1>1, <3>1 DEF FilesMatch, F!TypeOK, F!Null
      <3>3. <<v, was>> \in People \X F!Ids
        BY <3>2
      <3> HIDE DEF was
      <3>4. memory'.references[<<v, was>>] = IF <<v, was>> = <<u, id>> THEN gone ELSE memory.references[<<v, was>>]
        BY <2>9, <3>3
      <3>5. <<v, was>> = <<u, id>> => own.delivery = x
        BY <3>2 DEF own
      <3>6. memory'.references[<<v, was>>] # F!NoReference /\ memory'.references[<<v, was>>].delivery = x
        BY <2>5, <2>6, <3>2, <3>4, <3>5
      <3> QED BY <3>1, <3>6
    <2>15. \A k \in People \X Sizes : memory'.contents[k] <=> k \in table'.contents
      BY <1>1, <2>9 DEF FilesMatch
    <2>16. memory'.objects = table'.contents /\ table'.objects = table'.contents
      BY <1>1, <2>9 DEF FilesMatch
    <2>17. FilesMatch'
      BY <2>12, <2>13, <2>14, <2>15, <2>16 DEF FilesMatch, FileKeys, F!Ids, F!NoReference, F!Null
    <2> QED BY <2>10, <2>17 DEF FilesInv
  <1> QED BY <1>3, <1>4

LEMMA FStep == F!Sensible /\ FilesInv /\ F!Next => FilesInv'
  BY FSaves, FDeletes DEF F!Next

-----------------------------------------------------------------------------
(* Usage                                                                   *)

\* The map holds the row of each user, request and source, and both know the same participants.
UsageMatch ==
    /\ memory.participants = table.participants
    /\ \A k \in U!Keys : memory.records[k] # U!NoRow =>
          /\ memory.records[k] \in table.usage
          /\ k = <<memory.records[k].user, memory.records[k].request, memory.records[k].source>>
    /\ \A r \in table.usage : memory.records[<<r.user, r.request, r.source>>] = r

UsageInv == U!TypeOK /\ UsageMatch

LEMMA UNothing ==
    ASSUME U!Sensible
    PROVE  /\ U!NoRow \notin U!Row
           /\ \A r \in U!Row : <<r.user, r.request, r.source>> \in U!Keys
  BY DEF U!Sensible, U!Row, U!NoRow, U!Null, U!Keys

LEMMA UInit == U!Sensible /\ U!Init => UsageInv
  <1> SUFFICES ASSUME U!Sensible, U!Init PROVE UsageInv
    OBVIOUS
  <1>1. U!TypeOK
    BY DEF U!Init, U!TypeOK, U!Sensible, U!Null, U!Months
  <1>2. UsageMatch
    BY DEF U!Init, UsageMatch
  <1> QED BY <1>1, <1>2 DEF UsageInv

\* What the map holds is what the rows are.
LEMMA URecords == U!Sensible /\ UsageInv => U!Records = table.usage /\ table.usage \subseteq U!Row
  <1> SUFFICES ASSUME U!Sensible, UsageInv PROVE U!Records = table.usage /\ table.usage \subseteq U!Row
    OBVIOUS
  <1>1. table.usage \subseteq U!Row
    BY DEF UsageInv, U!TypeOK
  <1>2. ASSUME NEW r \in U!Records PROVE r \in table.usage
    BY <1>2 DEF U!Records, UsageInv, UsageMatch
  <1>3. ASSUME NEW r \in table.usage PROVE r \in U!Records
    BY <1>1, <1>3, UNothing DEF U!Records, UsageInv, UsageMatch
  <1> QED BY <1>1, <1>2, <1>3

\* Adding up what the sources have is adding up everything.
LEMMA UAdds ==
    ASSUME NEW rows \in SUBSET U!Row
    PROVE  U!Aggregate(rows) = U!BySource(rows)
  <1> DEFINE Of(source) == {r \in rows : r.source = source}
             sources == {r.source : r \in rows}
             some == {source \in Things : Of(source) # {}}
             known == {source \in Things : source \in sources}
             totals == {U!Totals(Of(source)) : source \in sources}
  <1>1. \A r \in rows : r.source \in sources /\ r \in Of(r.source)
    OBVIOUS
  <1>2. some = known
    <2>1. ASSUME NEW s \in Things PROVE Of(s) # {} <=> s \in sources
      OBVIOUS
    <2> QED BY <2>1
  <1>3. U!Plus(totals) = U!Totals(rows)
    <2>1. \A t \in totals : \E s \in sources : t = U!Totals(Of(s))
      OBVIOUS
    <2>2. \A s \in sources : U!Totals(Of(s)) \in totals
      OBVIOUS
    <2>3. \A s : U!Totals(Of(s)) = [counted |-> Of(s), unknown |-> {r \in Of(s) : ~r.known},
                                    reported |-> {r \in Of(s) : r.known}]
      BY DEF U!Totals
    <2>4. \A s : Of(s) \subseteq rows
      OBVIOUS
    <2> HIDE DEF Of, totals, sources
    <2>5. \A t \in totals : /\ t.counted \subseteq rows
                            /\ t.unknown = {r \in t.counted : ~r.known}
                            /\ t.reported = {r \in t.counted : r.known}
      BY <2>1, <2>3, <2>4
    <2>6. \A r \in rows : \E t \in totals : r \in t.counted
      BY <1>1, <2>2, <2>3
    <2>7. UNION {t.counted : t \in totals} = rows
      BY <2>5, <2>6
    <2>8. UNION {t.unknown : t \in totals} = {r \in rows : ~r.known}
      BY <2>5, <2>6
    <2>9. UNION {t.reported : t \in totals} = {r \in rows : r.known}
      BY <2>5, <2>6
    <2> QED BY <2>7, <2>8, <2>9 DEF U!Plus, U!Totals
  <1>4. U!Aggregate(rows) = [totals |-> U!Totals(rows),
                             bySource |-> {<<p, U!Totals(Of(p[2]))>> : p \in U!Ordered(some)}]
    BY DEF U!Aggregate
  <1>5. U!BySource(rows) = [totals |-> U!Plus(totals),
                            bySource |-> {<<p, U!Totals(Of(p[2]))>> : p \in U!Ordered(known)}]
    BY DEF U!BySource
  <1> HIDE DEF Of, sources, some, known, totals
  <1> QED BY <1>2, <1>3, <1>4, <1>5

LEMMA UInserted ==
    ASSUME U!Sensible, UsageInv, NEW u \in People, NEW request \in Names, NEW source \in Things
    PROVE  U!MemoryInserts(u, request, source) <=> U!RowInserts(u, request, source)
  <1> DEFINE k == <<u, request, source>>
  <1>1. k \in U!Keys
    BY DEF U!Keys
  <1>2. ASSUME memory.records[k] # U!NoRow
        PROVE  \E r \in table.usage : r.request = request /\ r.user = u /\ r.source = source
    <2>1. /\ memory.records[k] \in table.usage
          /\ k = <<memory.records[k].user, memory.records[k].request, memory.records[k].source>>
      BY <1>1, <1>2 DEF UsageInv, UsageMatch
    <2> QED BY <2>1
  <1>3. ASSUME NEW r \in table.usage, r.request = request, r.user = u, r.source = source
        PROVE  memory.records[k] # U!NoRow
    <2>1. memory.records[k] = r
      BY <1>3 DEF UsageInv, UsageMatch
    <2> QED BY <1>3, <2>1, URecords, UNothing
  <1> QED BY <1>2, <1>3 DEF U!MemoryInserts, U!RowInserts

LEMMA UOrder == ASSUME NEW numbers, NEW p \in U!Ordered(numbers) PROVE p[2] \in numbers
  <1>1. PICK n \in numbers : p = <<U!Cardinality({m \in numbers : m < n}), n>>
    BY DEF U!Ordered
  <1> QED BY <1>1

LEMMA UGroups ==
    ASSUME U!Sensible, UsageInv, NEW group \in Things, NEW month \in U!Months, NEW limit \in Pages
    PROVE  U!MemoryGroupMonthly(group, month, limit) = U!RowGroupMonthly(group, month, limit)
  <1> DEFINE scoped == {u \in People : memory.participants[u] = group}
             rows == {r \in U!Records : r.user \in scoped /\ r.month = month}
             joined == {j \in table.usage \X People : /\ j[1].user = j[2] /\ j[1].month = month
                                                      /\ table.participants[j[2]] = group}
             MCost(u) == U!Cost({r \in rows : r.user = u})
             Cost(u) == U!Cost({r \in table.usage : r.user = u /\ r.month = month})
             mAbove == {u \in scoped : MCost(u) > limit}
             above == {u \in People : table.participants[u] = group /\ Cost(u) > limit}
  <1>1. U!Records = table.usage /\ table.usage \subseteq U!Row
    BY URecords
  <1>2. scoped = {u \in People : table.participants[u] = group}
    BY DEF UsageInv, UsageMatch
  <1>3. rows = {j[1] : j \in joined}
    <2>1. ASSUME NEW r \in rows PROVE <<r, r.user>> \in joined
      BY <1>1, <1>2, <2>1
    <2>2. ASSUME NEW j \in joined PROVE j[1] \in rows
      BY <1>1, <1>2, <2>2
    <2>3. \A r \in rows : <<r, r.user>>[1] = r
      OBVIOUS
    <2> HIDE DEF rows, joined
    <2> QED BY <2>1, <2>2, <2>3
  <1>4. \A u \in scoped : MCost(u) = Cost(u)
    <2>1. ASSUME NEW u \in scoped
          PROVE  {r \in rows : r.user = u} = {r \in table.usage : r.user = u /\ r.month = month}
      BY <1>1, <2>1
    <2> QED BY <2>1
  <1>5. mAbove = above
    <2> HIDE DEF MCost, Cost
    <2> QED BY <1>2, <1>4
  <1>6. {<<p, MCost(p[2])>> : p \in U!Ordered(mAbove)} = {<<p, Cost(p[2])>> : p \in U!Ordered(above)}
    <2>1. \A p \in U!Ordered(above) : p[2] \in scoped
      <3>1. above \subseteq scoped
        BY <1>2
      <3> HIDE DEF above, scoped
      <3> QED BY <3>1, UOrder
    <2> HIDE DEF mAbove, above, MCost, Cost, scoped
    <2> QED BY <1>4, <1>5, <2>1
  <1>7. U!Aggregate(rows) = U!BySource({j[1] : j \in joined})
    <2>1. rows \subseteq U!Row
      BY <1>1
    <2> HIDE DEF rows, joined
    <2> QED BY <1>3, <2>1, UAdds
  <1>8. U!MemoryGroupMonthly(group, month, limit) =
           [participants |-> U!Cardinality(scoped), usage |-> U!Aggregate(rows),
            aboveLimit |-> {<<p, MCost(p[2])>> : p \in U!Ordered(mAbove)}]
    BY DEF U!MemoryGroupMonthly
  <1>9. U!RowGroupMonthly(group, month, limit) =
           [participants |-> U!Cardinality({u \in People : table.participants[u] = group}),
            usage |-> U!BySource({j[1] : j \in joined}),
            aboveLimit |-> {<<p, Cost(p[2])>> : p \in U!Ordered(above)}]
    BY DEF U!RowGroupMonthly
  <1> HIDE DEF scoped, rows, joined, MCost, Cost, mAbove, above
  <1> QED BY <1>2, <1>6, <1>7, <1>8, <1>9

LEMMA UAgree == U!Sensible /\ UsageInv => U!Agree
  <1> SUFFICES ASSUME U!Sensible, UsageInv PROVE U!Agree
    OBVIOUS
  <1>1. ASSUME NEW u \in People, NEW month \in U!Months
        PROVE  U!MemoryMonthly(u, month) = U!RowMonthly(u, month)
    <2> DEFINE rows == {r \in table.usage : r.user = u /\ r.month = month}
    <2>1. rows \subseteq U!Row /\ {r \in U!Records : r.user = u /\ r.month = month} = rows
      BY URecords
    <2>2. U!MemoryMonthly(u, month) = U!Aggregate(rows) /\ U!RowMonthly(u, month) = U!BySource(rows)
      BY <2>1 DEF U!MemoryMonthly, U!RowMonthly
    <2> HIDE DEF rows
    <2> QED BY <2>1, <2>2, UAdds
  <1> QED BY <1>1, UInserted, UGroups DEF U!Agree

LEMMA UStep == U!Sensible /\ UsageInv /\ U!Next => UsageInv'
  <1> SUFFICES ASSUME U!Sensible, UsageInv, U!Next PROVE UsageInv'
    OBVIOUS
  <1> USE DEF UsageInv
  <1>1. ASSUME NEW u \in People, NEW group \in Things, U!Enrol(u, group) PROVE UsageInv'
    <2>1. /\ memory' = [memory EXCEPT !.participants[u] = group]
          /\ table' = [table EXCEPT !.participants[u] = group] /\ clock' = clock
      BY <1>1 DEF U!Enrol
    <2>2. memory'.records = memory.records /\ table'.usage = table.usage
          /\ memory'.participants = table'.participants
      BY <2>1 DEF U!TypeOK, UsageMatch
    <2>3. U!TypeOK'
      BY <2>1 DEF U!TypeOK
    <2> QED BY <2>2, <2>3 DEF UsageMatch
  <1>2. ASSUME NEW u \in People, NEW request \in Names, NEW source \in Things, NEW cost \in Names,
               NEW known \in BOOLEAN, U!Record(u, request, source, cost, known)
        PROVE  UsageInv'
    <2> DEFINE row == U!New(u, request, source, cost, known)
               k == <<u, request, source>>
    <2>1. row \in U!Row /\ row.user = u /\ row.request = request /\ row.source = source
      BY DEF U!New, U!Row, U!TypeOK
    <2>2. k \in U!Keys
      BY DEF U!Keys
    <2>3. CASE ~U!RowInserts(u, request, source)
      <3>1. UNCHANGED <<memory, table, clock>>
        BY <1>2, <2>3, UInserted DEF U!Record
      <3> QED BY <3>1 DEF U!TypeOK, UsageMatch
    <2>4. CASE U!RowInserts(u, request, source)
      <3>1. /\ memory' = [memory EXCEPT !.records[k] = row]
            /\ table' = [table EXCEPT !.usage = table.usage \cup {row}] /\ clock' = clock
            /\ memory.records[k] = U!NoRow
        BY <1>2, <2>4, UInserted DEF U!Record, U!MemoryInserts
      <3> HIDE DEF row
      <3>2. /\ memory'.records = [memory.records EXCEPT ![k] = row]
            /\ memory'.participants = memory.participants
            /\ table'.usage = table.usage \cup {row} /\ table'.participants = table.participants
        BY <3>1 DEF U!TypeOK
      <3>3. U!TypeOK'
        BY <2>1, <2>2, <3>1 DEF U!TypeOK
      <3>4. ASSUME NEW j \in U!Keys, memory'.records[j] # U!NoRow
            PROVE  /\ memory'.records[j] \in table'.usage
                   /\ j = <<memory'.records[j].user, memory'.records[j].request, memory'.records[j].source>>
        <4>1. CASE j = k
          BY <2>1, <2>2, <3>2, <4>1 DEF U!TypeOK
        <4>2. CASE j # k
          BY <2>2, <3>2, <3>4, <4>2 DEF U!TypeOK, UsageMatch
        <4> QED BY <4>1, <4>2
      <3>5. ASSUME NEW r \in table'.usage
            PROVE  memory'.records[<<r.user, r.request, r.source>>] = r
        <4>1. CASE r = row
          BY <2>1, <2>2, <3>2, <4>1 DEF U!TypeOK
        <4>2. CASE r \in table.usage
          <5>1. memory.records[<<r.user, r.request, r.source>>] = r /\ r # U!NoRow
                /\ <<r.user, r.request, r.source>> \in U!Keys
            BY <4>2, UNothing, URecords DEF UsageMatch
          <5> QED BY <3>1, <3>2, <5>1 DEF U!TypeOK
        <4> QED BY <3>2, <4>1, <4>2
      <3>6. memory'.participants = table'.participants
        BY <3>2 DEF UsageMatch
      <3>7. UsageMatch'
        BY <3>4, <3>5, <3>6 DEF UsageMatch, U!Keys, U!NoRow, U!Null
      <3> QED BY <3>3, <3>7
    <2> QED BY <2>3, <2>4
  <1>3. CASE U!Tick
    BY <1>3 DEF U!Tick, U!TypeOK, U!Months, UsageMatch, U!Sensible
  <1> QED BY <1>1, <1>2, <1>3 DEF U!Next

-----------------------------------------------------------------------------
(* Arrays and rows                                                         *)

\* Different elements of an array are as many as their places.
Part(a, I) == [i \in I |-> a[i]]

LEMMA SameNumber ==
    ASSUME NEW a, NEW I, IsFiniteSet(I), NEW R, Part(a, I) \in Bijection(I, R)
    PROVE  Cardinality(R) = Cardinality(I)
  <1>1. ExistsBijection(I, R)
    BY DEF ExistsBijection
  <1> QED BY <1>1, FS_Bijection

-----------------------------------------------------------------------------
(* Journals                                                                *)

\* An array holds the rows, in their order; of feedback there is one row of a target.
JournalsMatch ==
    /\ \A j \in J!Journals :
          /\ \A i \in DOMAIN memory[j] : memory[j][i] \in table[j]
          /\ \A e \in table[j] : \E i \in DOMAIN memory[j] : memory[j][i] = e
          /\ \A i, k \in DOMAIN memory[j] : i < k => J!Precedes(memory[j][i], memory[j][k])
          /\ \A e \in table[j] : e.created <= clock
    /\ \A e, f \in table["feedback"] :
          e.owner = f.owner /\ e.thread = f.thread /\ e.key = f.key => e = f

JournalsInv == J!TypeOK /\ JournalsMatch

LEMMA JCards == \A X : J!Cardinality(X) = Cardinality(X)
  BY DEF J!Cardinality, Cardinality

LEMMA JInit == J!Sensible /\ J!Init => JournalsInv
  <1> SUFFICES ASSUME J!Sensible, J!Init PROVE JournalsInv
    OBVIOUS
  <1>1. J!TypeOK
    BY DEF J!Init, J!TypeOK, J!Sensible, J!Instants
  <1>2. \A j \in J!Journals : memory[j] = <<>> /\ table[j] = {}
    BY DEF J!Init
  <1>3. table["feedback"] = {}
    BY <1>2 DEF J!Journals
  <1>4. JournalsMatch
    BY <1>2, <1>3 DEF JournalsMatch
  <1> QED BY <1>1, <1>4 DEF JournalsInv

LEMMA JOrder ==
    ASSUME J!Sensible, NEW e \in J!Entry, NEW f \in J!Entry, J!Precedes(e, f)
    PROVE  ~J!Precedes(f, e) /\ e # f
  BY DEF J!Precedes, J!Entry, J!Sensible, J!Instants

\* Places among what is chosen of an array, and among rows; slices of both.
ChosenAfter(chosen, i) == J!Cardinality({k \in chosen : k > i})
ChosenBefore(chosen, i) == J!Cardinality({k \in chosen : k < i})
RowsAfter(rows, e) == J!Cardinality({f \in rows : J!Precedes(e, f)})
RowsBefore(rows, e) == J!Cardinality({f \in rows : J!Precedes(f, e)})

LastChosen(a, chosen, limit) ==
    {<<ChosenAfter(chosen, i), a[i]>> :
        i \in {k \in chosen : limit = J!Null \/ ChosenAfter(chosen, k) < limit}}
FirstChosen(a, chosen, limit) ==
    {<<ChosenBefore(chosen, i), a[i]>> : i \in {k \in chosen : ChosenBefore(chosen, k) < limit}}
LastRows(rows, limit) ==
    {<<RowsAfter(rows, e), e>> : e \in {f \in rows : limit = J!Null \/ RowsAfter(rows, f) < limit}}
FirstRows(rows, limit) ==
    {<<RowsBefore(rows, e), e>> : e \in {f \in rows : RowsBefore(rows, f) < limit}}

\* What is chosen of an array in the order of the rows has the same places in both.
LEMMA JPlaces ==
    ASSUME J!Sensible, NEW a \in Seq(J!Entry), NEW chosen \in SUBSET DOMAIN a,
           \A i, k \in DOMAIN a : i < k => J!Precedes(a[i], a[k]),
           NEW rows, \A e : e \in rows <=> \E i \in chosen : e = a[i], NEW i \in chosen
    PROVE  /\ ChosenAfter(chosen, i) = RowsAfter(rows, a[i])
           /\ ChosenBefore(chosen, i) = RowsBefore(rows, a[i])
  <1> DEFINE after == {k \in chosen : k > i}
             before == {k \in chosen : k < i}
             rowsAfter == {f \in rows : J!Precedes(a[i], f)}
             rowsBefore == {f \in rows : J!Precedes(f, a[i])}
  <1>1. /\ DOMAIN a = 1 .. Len(a) /\ Len(a) \in Nat
        /\ \A k \in DOMAIN a : a[k] \in J!Entry
    BY LenProperties
  <1>2. \A k, m \in chosen : a[k] = a[m] => k = m
    BY <1>1, JOrder
  <1>3. \A k \in chosen : /\ k > i <=> J!Precedes(a[i], a[k])
                          /\ k < i <=> J!Precedes(a[k], a[i])
    <2> SUFFICES ASSUME NEW k \in chosen
                 PROVE  /\ k > i <=> J!Precedes(a[i], a[k])
                        /\ k < i <=> J!Precedes(a[k], a[i])
      OBVIOUS
    <2>1. k \in DOMAIN a /\ i \in DOMAIN a /\ k \in Nat /\ i \in Nat
      BY <1>1
    <2>2. CASE k > i
      <3>1. J!Precedes(a[i], a[k])
        BY <2>1, <2>2
      <3> QED BY <1>1, <2>1, <2>2, <3>1, JOrder
    <2>3. CASE k < i
      <3>1. J!Precedes(a[k], a[i])
        BY <2>1, <2>3
      <3> QED BY <1>1, <2>1, <2>3, <3>1, JOrder
    <2>4. CASE k = i
      BY <1>1, <2>1, <2>4, JOrder
    <2> QED BY <2>1, <2>2, <2>3, <2>4
  <1>4. \A f : f \in rowsAfter <=> \E k \in after : f = a[k]
    BY <1>3
  <1>5. \A f : f \in rowsBefore <=> \E k \in before : f = a[k]
    BY <1>3
  <1>6. /\ after \in SUBSET (1 .. Len(a)) /\ before \in SUBSET (1 .. Len(a))
        /\ \A k, m \in after : a[k] = a[m] => k = m
        /\ \A k, m \in before : a[k] = a[m] => k = m
    BY <1>1, <1>2
  <1> HIDE DEF after, before, rowsAfter, rowsBefore
  <1>7. Cardinality(rowsAfter) = Cardinality(after)
    <2>1. Part(a, after) \in Bijection(after, rowsAfter)
      BY <1>4, <1>6 DEF Part, Bijection, Injection, Surjection, IsInjective
    <2>2. IsFiniteSet(1 .. Len(a))
      BY <1>1, FS_Interval
    <2>3. IsFiniteSet(after)
      BY <1>6, <2>2, FS_Subset
    <2> QED BY <2>1, <2>3, SameNumber
  <1>8. Cardinality(rowsBefore) = Cardinality(before)
    <2>1. Part(a, before) \in Bijection(before, rowsBefore)
      BY <1>5, <1>6 DEF Part, Bijection, Injection, Surjection, IsInjective
    <2>2. IsFiniteSet(1 .. Len(a))
      BY <1>1, FS_Interval
    <2>3. IsFiniteSet(before)
      BY <1>6, <2>2, FS_Subset
    <2> QED BY <2>1, <2>3, SameNumber
  <1>9. /\ ChosenAfter(chosen, i) = Cardinality(after)
        /\ ChosenBefore(chosen, i) = Cardinality(before)
        /\ RowsAfter(rows, a[i]) = Cardinality(rowsAfter)
        /\ RowsBefore(rows, a[i]) = Cardinality(rowsBefore)
    BY JCards DEF ChosenAfter, ChosenBefore, RowsAfter, RowsBefore, after, before, rowsAfter, rowsBefore
  <1> QED BY <1>7, <1>8, <1>9

\* So a slice of the array is what a limit leaves of the rows.
LEMMA JSlices ==
    ASSUME J!Sensible, NEW a \in Seq(J!Entry), NEW chosen \in SUBSET DOMAIN a, NEW limit,
           \A i, k \in DOMAIN a : i < k => J!Precedes(a[i], a[k]),
           NEW rows, \A e : e \in rows <=> \E i \in chosen : e = a[i]
    PROVE  /\ LastChosen(a, chosen, limit) = LastRows(rows, limit)
           /\ FirstChosen(a, chosen, limit) = FirstRows(rows, limit)
  <1>1. ASSUME NEW i \in chosen
        PROVE  /\ ChosenAfter(chosen, i) = RowsAfter(rows, a[i])
               /\ ChosenBefore(chosen, i) = RowsBefore(rows, a[i])
    BY JPlaces
  <1>2. LastChosen(a, chosen, limit) = LastRows(rows, limit)
    BY <1>1 DEF LastChosen, LastRows
  <1>3. FirstChosen(a, chosen, limit) = FirstRows(rows, limit)
    BY <1>1 DEF FirstChosen, FirstRows
  <1> QED BY <1>2, <1>3

LEMMA JAgree == J!Sensible /\ JournalsInv => J!Agree
  <1> SUFFICES ASSUME J!Sensible, JournalsInv PROVE J!Agree
    OBVIOUS
  <1> USE DEF JournalsInv
  <1>1. ASSUME NEW j \in J!Journals
        PROVE  /\ memory[j] \in Seq(J!Entry)
               /\ \A i, k \in DOMAIN memory[j] : i < k => J!Precedes(memory[j][i], memory[j][k])
    BY DEF J!TypeOK, JournalsMatch
  <1>2. ASSUME NEW j \in J!Journals, NEW filter \in J!Filters, NEW limit \in Words \cup {J!Null}
        PROVE  J!MemoryLatest(j, filter, limit) = J!RowLatest(j, filter, limit)
    <2> DEFINE chosen == J!Chosen(j, filter)
               rows == {e \in table[j] : J!Matches(e, filter)}
    <2>1. (\A e : e \in rows <=> \E i \in chosen : e = memory[j][i]) /\ chosen \in SUBSET DOMAIN memory[j]
      BY DEF JournalsMatch, J!Chosen
    <2>2. J!MemoryLatest(j, filter, limit) = LastChosen(memory[j], chosen, limit)
      BY DEF J!MemoryLatest, LastChosen, ChosenAfter
    <2>3. J!RowLatest(j, filter, limit) = LastRows(rows, limit)
      BY DEF J!RowLatest, LastRows, RowsAfter
    <2> HIDE DEF chosen, rows
    <2>5. LastChosen(memory[j], chosen, limit) = LastRows(rows, limit)
      BY <1>1, <2>1, JSlices
    <2> QED BY <2>2, <2>3, <2>5
  <1>3. ASSUME NEW kind \in Words, NEW limit \in Words
        PROVE  J!MemoryFirst(kind, limit) = J!RowFirst(kind, limit)
    <2> DEFINE chosen == {i \in DOMAIN memory["events"] : memory["events"][i].kind = kind}
               rows == {e \in table["events"] : e.kind = kind}
    <2>0. "events" \in J!Journals
      BY DEF J!Journals
    <2>1. PICK a, c, r : a = memory["events"] /\ c = chosen /\ r = rows
      OBVIOUS
    <2>2. (\A e : e \in r <=> \E i \in c : e = a[i]) /\ c \in SUBSET DOMAIN a
      BY <2>0, <2>1 DEF JournalsMatch
    <2>3. J!MemoryFirst(kind, limit) = FirstChosen(a, c, limit)
      BY <2>1 DEF J!MemoryFirst, FirstChosen, ChosenBefore
    <2>4. J!RowFirst(kind, limit) = FirstRows(r, limit)
      BY <2>1 DEF J!RowFirst, FirstRows, RowsBefore
    <2>5. a \in Seq(J!Entry) /\ \A i, k \in DOMAIN a : i < k => J!Precedes(a[i], a[k])
      BY <1>1, <2>0, <2>1
    <2>6. FirstChosen(a, c, limit) = FirstRows(r, limit)
      BY <2>2, <2>5, JSlices
    <2> QED BY <2>3, <2>4, <2>6
  <1>4. ASSUME NEW u \in Names, NEW thread \in Names, NEW target \in Names
        PROVE  J!MemoryFeedback(u, thread, target) = J!RowFeedback(u, thread, target)
    <2>1. "feedback" \in J!Journals
      BY DEF J!Journals
    <2> QED BY <2>1 DEF JournalsMatch, J!MemoryFeedback, J!RowFeedback, J!FindIndex
  <1> QED BY <1>2, <1>3, <1>4 DEF J!Agree

\* What is written is the last of the array, and the latest row.
LEMMA JAppends ==
    ASSUME J!Sensible, JournalsInv, NEW j \in J!Journals, NEW e \in J!Entry, e.created = clock,
           J!Fresh(e.id), memory' = [memory EXCEPT ![j] = Append(memory[j], e)],
           table' = [table EXCEPT ![j] = table[j] \cup {e}], clock' = clock,
           j = "feedback" => \A f \in table["feedback"] :
              ~ (e.owner = f.owner /\ e.thread = f.thread /\ e.key = f.key)
    PROVE  JournalsInv'
  <1> DEFINE a == memory[j]
             b == Append(a, e)
  <1>1. /\ a \in Seq(J!Entry) /\ DOMAIN a = 1 .. Len(a) /\ Len(a) \in Nat
    BY LenProperties DEF JournalsInv, J!TypeOK
  <1>2. /\ b \in Seq(J!Entry) /\ DOMAIN b = 1 .. (Len(a) + 1)
        /\ \A i \in 1 .. Len(a) : b[i] = a[i]
    BY <1>1, AppendProperties, LenProperties
  <1>3. b[Len(a) + 1] = e
    BY <1>1, AppendProperties
  <1>4. /\ memory'[j] = b /\ table'[j] = table[j] \cup {e}
        /\ \A h \in J!Journals : h # j => memory'[h] = memory[h] /\ table'[h] = table[h]
    BY DEF JournalsInv, J!TypeOK
  <1> HIDE DEF b
  <1>5. J!TypeOK'
    BY <1>2, <1>4 DEF JournalsInv, J!TypeOK
  <1>6. /\ \A i \in DOMAIN b : b[i] \in table'[j]
        /\ \A f \in table'[j] : \E i \in DOMAIN b : b[i] = f
        /\ \A f \in table'[j] : f.created <= clock'
    <2>1. ASSUME NEW i \in DOMAIN b PROVE b[i] \in table'[j]
      <3>1. i \in DOMAIN a \/ i = Len(a) + 1
        BY <1>1, <1>2
      <3> QED BY <1>1, <1>2, <1>3, <1>4, <3>1 DEF JournalsInv, JournalsMatch
    <2>2. ASSUME NEW f \in table'[j] PROVE \E i \in DOMAIN b : b[i] = f
      <3>1. CASE f = e
        <4>1. Len(a) + 1 \in DOMAIN b
          BY <1>1, <1>2
        <4> QED BY <1>3, <3>1, <4>1
      <3>2. CASE f \in table[j]
        <4>1. PICK i \in DOMAIN a : a[i] = f
          BY <3>2 DEF JournalsInv, JournalsMatch
        <4>2. i \in DOMAIN b /\ b[i] = f
          BY <1>1, <1>2, <4>1
        <4> QED BY <4>2
      <3> QED BY <1>4, <3>1, <3>2
    <2>3. \A f \in table'[j] : f.created <= clock'
      <3>1. clock \in Nat
        BY DEF JournalsInv, J!TypeOK, J!Instants, J!Sensible
      <3> QED BY <1>4, <3>1 DEF JournalsInv, JournalsMatch
    <2> QED BY <2>1, <2>2, <2>3
  <1>7. ASSUME NEW i \in DOMAIN b, NEW k \in DOMAIN b, i < k PROVE J!Precedes(b[i], b[k])
    <2>1. i \in DOMAIN a
      BY <1>1, <1>2, <1>7
    <2>2. CASE k \in DOMAIN a
      BY <1>1, <1>2, <1>7, <2>1, <2>2 DEF JournalsInv, JournalsMatch
    <2>3. CASE k = Len(a) + 1
      <3>1. /\ b[i] = a[i] /\ a[i] \in table[j] /\ a[i].created <= clock /\ b[k] = e
            /\ a[i] \in J!Entry
        BY <1>1, <1>2, <1>3, <2>1, <2>3 DEF JournalsInv, JournalsMatch, J!TypeOK
      <3>2. a[i].created = clock => a[i].id < e.id
        BY <3>1 DEF J!Fresh
      <3>3. a[i].created \in Nat /\ clock \in Nat
        BY <3>1 DEF J!Entry, J!Instants, JournalsInv, J!TypeOK, J!Sensible
      <3> QED BY <3>1, <3>2, <3>3 DEF J!Precedes
    <2> QED BY <1>1, <1>2, <2>2, <2>3
  <1>8. \A f, g \in table'["feedback"] :
           f.owner = g.owner /\ f.thread = g.thread /\ f.key = g.key => f = g
    <2>1. "feedback" \in J!Journals
      BY DEF J!Journals
    <2>2. CASE j = "feedback"
      BY <1>4, <2>2 DEF JournalsInv, JournalsMatch
    <2>3. CASE j # "feedback"
      BY <1>4, <2>1, <2>3 DEF JournalsInv, JournalsMatch
    <2> QED BY <2>2, <2>3
  <1>9. JournalsMatch'
    <2>1. ASSUME NEW h \in J!Journals
          PROVE  /\ \A i \in DOMAIN memory'[h] : memory'[h][i] \in table'[h]
                 /\ \A f \in table'[h] : \E i \in DOMAIN memory'[h] : memory'[h][i] = f
                 /\ \A i, k \in DOMAIN memory'[h] : i < k => J!Precedes(memory'[h][i], memory'[h][k])
                 /\ \A f \in table'[h] : f.created <= clock'
      <3>1. CASE h = j
        <4> memory'[h] = b /\ table'[h] = table'[j]
          BY <1>4, <3>1
        <4> QED BY <1>6, <1>7
      <3>2. CASE h # j
        BY <1>4, <3>2 DEF JournalsInv, JournalsMatch
      <3> QED BY <3>1, <3>2
    <2> QED BY <1>8, <2>1 DEF JournalsMatch, J!Precedes, J!Journals
  <1> QED BY <1>5, <1>9 DEF JournalsInv

LEMMA JUnchanged ==
    ASSUME JournalsInv, UNCHANGED <<memory, table>>, clock' \in J!Instants, clock' >= clock, J!Sensible
    PROVE  JournalsInv'
  <1>1. J!TypeOK'
    BY DEF JournalsInv, J!TypeOK
  <1>2. \A j \in J!Journals : \A e \in table[j] : e.created <= clock'
    <2>1. \A j \in J!Journals : \A e \in table[j] : e.created \in Nat /\ clock \in Nat /\ clock' \in Nat
      BY DEF JournalsInv, J!TypeOK, J!Entry, J!Instants, J!Sensible
    <2> QED BY <2>1 DEF JournalsInv, JournalsMatch
  <1>3. JournalsMatch'
    BY <1>2 DEF JournalsInv, JournalsMatch
  <1> QED BY <1>1, <1>3 DEF JournalsInv

\* Feedback again on the same message: the element keeps its place, and the row its order.
LEMMA JRates ==
    ASSUME J!Sensible, JournalsInv, NEW id \in Entries, NEW target \in Names, NEW u \in Names,
           NEW thread \in Names, NEW rating \in Words, J!SaveFeedback(id, target, u, thread, rating),
           J!FindIndex(u, thread, target) # {}
    PROVE  JournalsInv'
  <1> DEFINE a == memory["feedback"]
             found == J!FindIndex(u, thread, target)
             Rated(e) == [e EXCEPT !.kind = rating, !.updated = clock]
             conflict == J!RowFeedback(u, thread, target)
             b == [i \in DOMAIN a |-> IF i \in found THEN Rated(a[i]) ELSE a[i]]
  <1>0. "feedback" \in J!Journals
    BY DEF J!Journals
  <1>1. /\ a \in Seq(J!Entry) /\ DOMAIN a = 1 .. Len(a) /\ Len(a) \in Nat
        /\ \A i \in DOMAIN a : a[i] \in J!Entry /\ a[i] \in table["feedback"]
        /\ table["feedback"] \subseteq J!Entry
    BY <1>0, LenProperties DEF JournalsInv, J!TypeOK, JournalsMatch
  <1>2. /\ \A i \in DOMAIN a : i \in found <=> a[i] \in conflict
        /\ conflict \subseteq table["feedback"]
    BY <1>1 DEF J!FindIndex, J!RowFeedback
  <1>3. conflict # {}
    BY <1>2 DEF J!FindIndex
  <1>4. clock \in J!Instants
    BY DEF JournalsInv, J!TypeOK
  <1>5. \A e \in J!Entry : /\ Rated(e) \in J!Entry /\ Rated(e).created = e.created /\ Rated(e).id = e.id
                           /\ Rated(e).owner = e.owner /\ Rated(e).thread = e.thread /\ Rated(e).key = e.key
    BY <1>4 DEF J!Entry
  <1>6. /\ memory' = [memory EXCEPT !["feedback"] = b] /\ clock' = clock
        /\ table' = [table EXCEPT !["feedback"] =
                        (table["feedback"] \ conflict) \cup {Rated(e) : e \in conflict}]
    BY <1>3 DEF J!SaveFeedback, J!MemorySavedFeedback, J!RowSavedFeedback
  <1>7. /\ memory'["feedback"] = b
        /\ table'["feedback"] = (table["feedback"] \ conflict) \cup {Rated(e) : e \in conflict}
        /\ \A h \in J!Journals : h # "feedback" => memory'[h] = memory[h] /\ table'[h] = table[h]
    BY <1>0, <1>6 DEF JournalsInv, J!TypeOK
  <1> HIDE DEF Rated, found, conflict
  <1>8. /\ b \in Seq(J!Entry) /\ DOMAIN b = DOMAIN a
        /\ \A i \in DOMAIN a : b[i] = IF i \in found THEN Rated(a[i]) ELSE a[i]
    <2>1. \A i \in 1 .. Len(a) : (IF i \in found THEN Rated(a[i]) ELSE a[i]) \in J!Entry
      BY <1>1, <1>5
    <2> QED BY <1>1, <2>1, SeqDef
  <1> HIDE DEF b
  <1>9. \A i \in DOMAIN a : b[i].created = a[i].created /\ b[i].id = a[i].id
    BY <1>1, <1>5, <1>8
  <1>10. J!TypeOK'
    <2>1. table'["feedback"] \subseteq J!Entry
      BY <1>1, <1>2, <1>5, <1>7
    <2> QED BY <1>4, <1>6, <1>7, <1>8, <2>1 DEF JournalsInv, J!TypeOK
  <1>11. /\ \A i \in DOMAIN b : b[i] \in table'["feedback"]
         /\ \A e \in table'["feedback"] : \E i \in DOMAIN b : b[i] = e
    <2>1. ASSUME NEW i \in DOMAIN b PROVE b[i] \in table'["feedback"]
      BY <1>1, <1>2, <1>7, <1>8
    <2>2. ASSUME NEW e \in table["feedback"] \ conflict PROVE \E i \in DOMAIN b : b[i] = e
      <3>1. PICK i \in DOMAIN a : a[i] = e
        BY <1>0 DEF JournalsInv, JournalsMatch
      <3> QED BY <1>2, <1>8, <3>1
    <2>3. ASSUME NEW e \in conflict PROVE \E i \in DOMAIN b : b[i] = Rated(e)
      <3>1. PICK i \in DOMAIN a : a[i] = e
        BY <1>0, <1>2 DEF JournalsInv, JournalsMatch
      <3> QED BY <1>2, <1>8, <3>1
    <2> QED BY <1>7, <2>1, <2>2, <2>3
  <1>12. \A i, k \in DOMAIN b : i < k => J!Precedes(b[i], b[k])
    BY <1>0, <1>8, <1>9 DEF JournalsInv, JournalsMatch, J!Precedes
  <1>13. \A e \in table'["feedback"] : e.created <= clock'
    <2>1. \A e \in table["feedback"] : e.created <= clock
      BY <1>0 DEF JournalsInv, JournalsMatch
    <2> QED BY <1>1, <1>2, <1>5, <1>6, <1>7, <2>1
  <1>14. ASSUME NEW e \in table'["feedback"], NEW f \in table'["feedback"],
                e.owner = f.owner /\ e.thread = f.thread /\ e.key = f.key
         PROVE  e = f
    <2>1. \A g \in table'["feedback"] : \E h \in table["feedback"] :
             /\ h.owner = g.owner /\ h.thread = g.thread /\ h.key = g.key
             /\ g = IF h \in conflict THEN Rated(h) ELSE h
      BY <1>1, <1>2, <1>5, <1>7
    <2>2. PICK g \in table["feedback"] :
             /\ g.owner = e.owner /\ g.thread = e.thread /\ g.key = e.key
             /\ e = IF g \in conflict THEN Rated(g) ELSE g
      BY <2>1
    <2>3. PICK h \in table["feedback"] :
             /\ h.owner = f.owner /\ h.thread = f.thread /\ h.key = f.key
             /\ f = IF h \in conflict THEN Rated(h) ELSE h
      BY <2>1
    <2>4. g = h
      BY <1>14, <2>2, <2>3 DEF JournalsInv, JournalsMatch
    <2> QED BY <2>2, <2>3, <2>4
  <1>15. JournalsMatch'
    <2>1. ASSUME NEW h \in J!Journals
          PROVE  /\ \A i \in DOMAIN memory'[h] : memory'[h][i] \in table'[h]
                 /\ \A f \in table'[h] : \E i \in DOMAIN memory'[h] : memory'[h][i] = f
                 /\ \A i, k \in DOMAIN memory'[h] : i < k => J!Precedes(memory'[h][i], memory'[h][k])
                 /\ \A f \in table'[h] : f.created <= clock'
      <3>1. CASE h = "feedback"
        BY <1>7, <1>11, <1>12, <1>13, <3>1
      <3>2. CASE h # "feedback"
        BY <1>6, <1>7, <3>2 DEF JournalsInv, JournalsMatch
      <3> QED BY <3>1, <3>2
    <2> QED BY <1>14, <2>1 DEF JournalsMatch, J!Precedes, J!Journals
  <1> QED BY <1>10, <1>15 DEF JournalsInv

LEMMA JStep == J!Sensible /\ JournalsInv /\ J!Next => JournalsInv'
  <1> SUFFICES ASSUME J!Sensible, JournalsInv, J!Next PROVE JournalsInv'
    OBVIOUS
  <1>0. clock \in J!Instants /\ clock \in Nat
    BY DEF JournalsInv, J!TypeOK, J!Instants, J!Sensible
  <1>1. ASSUME NEW id \in Entries, NEW key \in Names, NEW kind \in Words, NEW u \in Names \cup {J!Null},
               NEW thread \in Names \cup {J!Null}
        PROVE  /\ J!New(id, key, u, thread, kind) \in J!Entry
               /\ J!New(id, key, u, thread, kind).created = clock
               /\ J!New(id, key, u, thread, kind).id = id
    BY <1>0 DEF J!New, J!Entry
  <1>2. ASSUME NEW id \in Entries, NEW key \in Names, NEW kind \in Words, NEW u \in Names \cup {J!Null},
               NEW thread \in Names \cup {J!Null}, J!AppendEvent(id, key, u, thread, kind)
        PROVE  JournalsInv'
    <2> DEFINE e == J!New(id, key, u, thread, kind)
    <2>1. e \in J!Entry /\ e.created = clock /\ e.id = id
      BY <1>1
    <2>2. /\ J!Fresh(id) /\ memory' = [memory EXCEPT !["events"] = Append(memory["events"], e)]
          /\ table' = [table EXCEPT !["events"] = table["events"] \cup {e}] /\ clock' = clock
      BY <1>2 DEF J!AppendEvent
    <2>3. "events" \in J!Journals
      BY DEF J!Journals
    <2> HIDE DEF e
    <2> QED BY <2>1, <2>2, <2>3, JAppends
  <1>3. ASSUME NEW id \in Entries, NEW key \in Names, NEW kind \in Words, NEW u \in Names,
               NEW thread \in Names, J!SaveFeedback(id, key, u, thread, kind)
        PROVE  JournalsInv'
    <2> DEFINE e == J!New(id, key, u, thread, kind)
    <2>1. e \in J!Entry /\ e.created = clock /\ e.id = id
      BY <1>1
    <2>2. "feedback" \in J!Journals
      BY DEF J!Journals
    <2>3. CASE J!FindIndex(u, thread, key) = {}
      <3>1. J!RowFeedback(u, thread, key) = {}
        BY <2>2, <2>3 DEF JournalsInv, JournalsMatch, J!FindIndex, J!RowFeedback
      <3>2. /\ J!Fresh(id) /\ memory' = [memory EXCEPT !["feedback"] = Append(memory["feedback"], e)]
            /\ table' = [table EXCEPT !["feedback"] = table["feedback"] \cup {e}] /\ clock' = clock
        BY <1>3, <2>3, <3>1 DEF J!SaveFeedback, J!MemorySavedFeedback, J!RowSavedFeedback
      <3>3. e.owner = u /\ e.thread = thread /\ e.key = key
        BY DEF J!New
      <3> HIDE DEF e
      <3>4. \A f \in table["feedback"] : ~ (e.owner = f.owner /\ e.thread = f.thread /\ e.key = f.key)
        BY <3>1, <3>3 DEF J!RowFeedback
      <3> QED BY <2>1, <2>2, <3>2, <3>4, JAppends
    <2>4. CASE J!FindIndex(u, thread, key) # {}
      BY <1>3, <2>4, JRates
    <2> QED BY <2>3, <2>4
  <1>4. ASSUME NEW id \in Entries, NEW key \in Names, NEW kind \in Words, NEW u \in Names,
               NEW thread \in Names, J!SaveInsight(id, key, u, thread, kind)
        PROVE  JournalsInv'
    <2> DEFINE e == J!New(id, key, u, thread, kind)
    <2>1. e \in J!Entry /\ e.created = clock /\ e.id = id
      BY <1>1
    <2>2. "insights" \in J!Journals
      BY DEF J!Journals
    <2>3. /\ J!Fresh(id) \/ \E f \in table["insights"] : f.id = id
          /\ memory' = [memory EXCEPT !["insights"] = J!MemorySavedInsight(e)]
          /\ table' = [table EXCEPT !["insights"] = J!RowSavedInsight(e)] /\ clock' = clock
      BY <1>4 DEF J!SaveInsight
    <2> HIDE DEF e
    <2>4. (\E i \in DOMAIN memory["insights"] : memory["insights"][i].id = e.id)
             <=> \E f \in table["insights"] : f.id = e.id
      BY <2>2 DEF JournalsInv, JournalsMatch
    <2>5. CASE \E f \in table["insights"] : f.id = e.id
      <3>1. memory' = memory /\ table' = table
        BY <2>2, <2>3, <2>4, <2>5 DEF J!MemorySavedInsight, J!RowSavedInsight, JournalsInv, J!TypeOK
      <3> QED BY <1>0, <2>3, <3>1, JUnchanged
    <2>6. CASE ~ \E f \in table["insights"] : f.id = e.id
      <3>1. /\ J!Fresh(e.id) /\ memory' = [memory EXCEPT !["insights"] = Append(memory["insights"], e)]
            /\ table' = [table EXCEPT !["insights"] = table["insights"] \cup {e}]
        BY <2>1, <2>3, <2>4, <2>6 DEF J!MemorySavedInsight, J!RowSavedInsight
      <3> QED BY <2>1, <2>2, <2>3, <3>1, JAppends
    <2> QED BY <2>5, <2>6
  <1>5. CASE J!Tick
    <2>1. UNCHANGED <<memory, table>> /\ clock' = clock + 1 /\ clock < Moments
      BY <1>5 DEF J!Tick
    <2>2. clock' \in J!Instants /\ clock' >= clock
      BY <1>0, <2>1 DEF J!Instants, J!Sensible
    <2> QED BY <2>1, <2>2, JUnchanged
  <1> QED BY <1>2, <1>3, <1>4, <1>5 DEF J!Next

-----------------------------------------------------------------------------
(* Conversations                                                           *)

\* The array holds the rows; of a thread its order is theirs.
TurnsMatch ==
    /\ \A i \in M!Messages : M!Message(i) \in table.messages
    /\ \A t \in table.messages : \E i \in M!Messages : M!Message(i) = t
    /\ \A s, t \in table.messages : s.id = t.id => s = t
    /\ \A i, k \in M!Messages :
          i < k /\ M!Message(i).owner = M!Message(k).owner /\ M!Message(i).thread = M!Message(k).thread
             => M!Precedes(M!Message(i), M!Message(k))

\* Of an owner and a thread there is one summary.
SummariesMatch ==
    /\ \A s \in table.summaries : memory.summaries[<<s.owner, s.thread>>] = s
    /\ \A u \in Names, thread \in Words :
          LET s == memory.summaries[<<u, thread>>]
          IN  s # M!NoSummary => s \in table.summaries /\ s.owner = u /\ s.thread = thread

ConversationsInv == M!TypeOK /\ TurnsMatch /\ SummariesMatch

LEMMA MCards == \A X : M!Cardinality(X) = Cardinality(X)
  BY DEF M!Cardinality, Cardinality

LEMMA MInit == M!Sensible /\ M!Init => ConversationsInv
  <1> SUFFICES ASSUME M!Sensible, M!Init PROVE ConversationsInv
    OBVIOUS
  <1>1. /\ memory.messages = <<>> /\ table.messages = {} /\ table.summaries = {}
        /\ \A u \in Names, thread \in Words : memory.summaries[<<u, thread>>] = M!NoSummary
    BY DEF M!Init
  <1>2. M!TypeOK
    BY DEF M!Init, M!TypeOK, M!Sensible, M!Instants
  <1>3. TurnsMatch
    BY <1>1 DEF TurnsMatch, M!Messages
  <1>4. SummariesMatch
    BY <1>1 DEF SummariesMatch
  <1> QED BY <1>2, <1>3, <1>4 DEF ConversationsInv

LEMMA MOrder ==
    ASSUME M!Sensible, NEW s \in M!Turn, NEW t \in M!Turn, M!Precedes(s, t)
    PROVE  ~M!Precedes(t, s) /\ s # t
  BY DEF M!Precedes, M!Turn, M!Sensible, M!Instants

\* Places among what is chosen of an array, and among rows; slices of both.
TurnsAfter(chosen, i) == M!Cardinality({k \in chosen : k > i})
TurnsBefore(chosen, i) == M!Cardinality({k \in chosen : k < i})
TurnRowsAfter(rows, t) == M!Cardinality({s \in rows : M!Precedes(t, s)})
TurnRowsBefore(rows, t) == M!Cardinality({s \in rows : M!Precedes(s, t)})

LastTurns(a, chosen, limit) ==
    {<<TurnsAfter(chosen, i), a[i]>> : i \in {k \in chosen : TurnsAfter(chosen, k) < limit}}
FirstTurns(a, chosen, limit) ==
    {<<TurnsBefore(chosen, i), a[i]>> : i \in {k \in chosen : TurnsBefore(chosen, k) < limit}}
LastTurnRows(rows, limit) ==
    {<<TurnRowsAfter(rows, t), t>> : t \in {s \in rows : TurnRowsAfter(rows, s) < limit}}
FirstTurnRows(rows, limit) ==
    {<<TurnRowsBefore(rows, t), t>> : t \in {s \in rows : TurnRowsBefore(rows, s) < limit}}

\* What is chosen of the array and in the order of the rows.
InOrder(a, chosen, rows) ==
    /\ a \in Seq(M!Turn) /\ chosen \in SUBSET DOMAIN a
    /\ \A i, k \in chosen : i < k => M!Precedes(a[i], a[k])
    /\ \A t : t \in rows <=> \E i \in chosen : t = a[i]

LEMMA MSameOrder ==
    ASSUME M!Sensible, NEW a, NEW chosen, NEW rows, InOrder(a, chosen, rows),
           NEW i \in chosen, NEW k \in chosen
    PROVE  /\ k > i <=> M!Precedes(a[i], a[k])
           /\ k < i <=> M!Precedes(a[k], a[i])
           /\ a[i] = a[k] => i = k
           /\ i \in Nat /\ k \in Nat
  <1>1. /\ a[i] \in M!Turn /\ a[k] \in M!Turn /\ i \in Nat /\ k \in Nat
    <2>1. a \in Seq(M!Turn) /\ i \in DOMAIN a /\ k \in DOMAIN a
      BY DEF InOrder
    <2> QED BY <2>1, LenProperties
  <1>2. /\ i < k => M!Precedes(a[i], a[k])
        /\ k < i => M!Precedes(a[k], a[i])
    BY DEF InOrder
  <1>3. i < k \/ k < i \/ i = k
    BY <1>1
  <1>4. CASE i < k
    BY <1>1, <1>2, <1>4, MOrder
  <1>5. CASE k < i
    BY <1>1, <1>2, <1>5, MOrder
  <1>6. CASE i = k
    BY <1>1, <1>6, MOrder
  <1> QED BY <1>3, <1>4, <1>5, <1>6

\* It has the same places in both.
LEMMA MPlaces ==
    ASSUME M!Sensible, NEW a, NEW chosen, NEW rows, InOrder(a, chosen, rows), NEW i \in chosen
    PROVE  /\ TurnsAfter(chosen, i) = TurnRowsAfter(rows, a[i]) /\ TurnsAfter(chosen, i) \in Nat
           /\ TurnsBefore(chosen, i) = TurnRowsBefore(rows, a[i])
  <1> DEFINE after == {k \in chosen : k > i}
             before == {k \in chosen : k < i}
             rowsAfter == {t \in rows : M!Precedes(a[i], t)}
             rowsBefore == {t \in rows : M!Precedes(t, a[i])}
  <1>1. \A k \in chosen : /\ k > i <=> M!Precedes(a[i], a[k])
                          /\ k < i <=> M!Precedes(a[k], a[i])
    BY MSameOrder
  <1>2. \A k, m \in chosen : a[k] = a[m] => k = m
    BY MSameOrder
  <1>3. \A t : t \in rowsAfter <=> \E k \in after : t = a[k]
    BY <1>1 DEF InOrder
  <1>4. \A t : t \in rowsBefore <=> \E k \in before : t = a[k]
    BY <1>1 DEF InOrder
  <1>5. after \in SUBSET chosen /\ before \in SUBSET chosen
    OBVIOUS
  <1>6. IsFiniteSet(chosen)
    <2>1. DOMAIN a = 1 .. Len(a) /\ Len(a) \in Nat
      BY LenProperties DEF InOrder
    <2>2. IsFiniteSet(1 .. Len(a))
      BY <2>1, FS_Interval
    <2>3. chosen \in SUBSET (1 .. Len(a))
      BY <2>1 DEF InOrder
    <2> QED BY <2>2, <2>3, FS_Subset
  <1> HIDE DEF after, before, rowsAfter, rowsBefore
  <1>7. IsFiniteSet(after) /\ IsFiniteSet(before)
    BY <1>5, <1>6, FS_Subset
  <1>8. Cardinality(rowsAfter) = Cardinality(after)
    <2>1. Part(a, after) \in Bijection(after, rowsAfter)
      BY <1>2, <1>3, <1>5 DEF Part, Bijection, Injection, Surjection, IsInjective
    <2> QED BY <1>7, <2>1, SameNumber
  <1>9. Cardinality(rowsBefore) = Cardinality(before)
    <2>1. Part(a, before) \in Bijection(before, rowsBefore)
      BY <1>2, <1>4, <1>5 DEF Part, Bijection, Injection, Surjection, IsInjective
    <2> QED BY <1>7, <2>1, SameNumber
  <1>10. /\ TurnsAfter(chosen, i) = Cardinality(after)
         /\ TurnsBefore(chosen, i) = Cardinality(before)
         /\ TurnRowsAfter(rows, a[i]) = Cardinality(rowsAfter)
         /\ TurnRowsBefore(rows, a[i]) = Cardinality(rowsBefore)
    BY MCards DEF TurnsAfter, TurnsBefore, TurnRowsAfter, TurnRowsBefore, after, before, rowsAfter, rowsBefore
  <1>11. Cardinality(after) \in Nat
    BY <1>7, FS_CardinalityType
  <1> QED BY <1>8, <1>9, <1>10, <1>11

LEMMA MSlices ==
    ASSUME M!Sensible, NEW a, NEW chosen, NEW rows, InOrder(a, chosen, rows), NEW limit
    PROVE  /\ LastTurns(a, chosen, limit) = LastTurnRows(rows, limit)
           /\ FirstTurns(a, chosen, limit) = FirstTurnRows(rows, limit)
  <1>1. ASSUME NEW i \in chosen
        PROVE  /\ TurnsAfter(chosen, i) = TurnRowsAfter(rows, a[i])
               /\ TurnsBefore(chosen, i) = TurnRowsBefore(rows, a[i])
    BY MPlaces
  <1>2. \A t : t \in rows <=> \E i \in chosen : t = a[i]
    BY DEF InOrder
  <1>3. LastTurns(a, chosen, limit) = LastTurnRows(rows, limit)
    BY <1>1, <1>2 DEF LastTurns, LastTurnRows
  <1>4. FirstTurns(a, chosen, limit) = FirstTurnRows(rows, limit)
    BY <1>1, <1>2 DEF FirstTurns, FirstTurnRows
  <1> QED BY <1>3, <1>4

\* The turns of a thread, and of them those before the window and after the watermark.
LEMMA MTurns ==
    ASSUME M!Sensible, ConversationsInv, NEW u \in Names, NEW thread \in Words
    PROVE  InOrder(memory.messages, M!MemoryTurns(u, thread), M!RowTurns(u, thread))
  BY DEF ConversationsInv, M!TypeOK, TurnsMatch, InOrder, M!MemoryTurns, M!RowTurns, M!Messages, M!Message

RestTurns(a, turns, recent, watermark) ==
    LET outside == {i \in turns : TurnsAfter(turns, i) >= recent}
        found == {i \in outside : a[i].id = watermark}
    IN  {i \in outside : \A w \in found : i > w}

RestRows(rows, recent, watermark) ==
    LET found == {t \in rows : t.id = watermark}
    IN  {t \in rows : TurnRowsAfter(rows, t) + 1 > recent /\ \A w \in found : M!Precedes(w, t)}

LEMMA MRest ==
    ASSUME M!Sensible, NEW a, NEW turns, NEW rows, InOrder(a, turns, rows),
           NEW recent \in Nat, NEW watermark,
           \A t \in rows : t.id = watermark => TurnRowsAfter(rows, t) >= recent
    PROVE  InOrder(a, RestTurns(a, turns, recent, watermark), RestRows(rows, recent, watermark))
  <1> DEFINE rest == RestTurns(a, turns, recent, watermark)
             restRows == RestRows(rows, recent, watermark)
             Later(i) == \A w \in turns : a[w].id = watermark => i > w
             LaterRow(t) == \A w \in rows : w.id = watermark => M!Precedes(w, t)
  <1>1. \A i \in turns : /\ a[i] \in rows /\ TurnsAfter(turns, i) \in Nat
                         /\ TurnsAfter(turns, i) = TurnRowsAfter(rows, a[i])
    BY MPlaces DEF InOrder
  <1>2. \A t \in rows : \E i \in turns : t = a[i]
    BY DEF InOrder
  <1>3. \A i \in turns : a[i].id = watermark => TurnsAfter(turns, i) >= recent
    BY <1>1
  <1>4. rest = {i \in turns : TurnsAfter(turns, i) >= recent /\ Later(i)}
    BY <1>3 DEF RestTurns
  <1>5. restRows = {t \in rows : TurnRowsAfter(rows, t) + 1 > recent /\ LaterRow(t)}
    BY DEF RestRows
  <1>6. \A i, w \in turns : i > w <=> M!Precedes(a[w], a[i])
    BY MSameOrder
  <1>7. \A i \in turns : Later(i) <=> LaterRow(a[i])
    BY <1>1, <1>2, <1>6
  <1> HIDE DEF rest, restRows, Later, LaterRow
  <1>8. \A i \in turns : i \in rest <=> a[i] \in restRows
    BY <1>1, <1>4, <1>5, <1>7
  <1>9. rest \subseteq turns /\ restRows \subseteq rows
    BY <1>4, <1>5
  <1>10. \A t : t \in restRows <=> \E i \in rest : t = a[i]
    BY <1>2, <1>8, <1>9
  <1>11. InOrder(a, rest, restRows)
    BY <1>9, <1>10 DEF InOrder
  <1> QED BY <1>11 DEF rest, restRows

LEMMA MAppendAlike ==
    ASSUME M!Sensible, ConversationsInv, NEW turn \in M!Turn
    PROVE  /\ M!MemoryAppend(turn) = M!RowAppend(turn)
           /\ M!RowAppend(turn) = "appended" => \A t \in table.messages : t.id # turn.id
  <1> DEFINE places == {i \in M!Messages : M!Message(i).id = turn.id}
             existing == {t \in table.messages : t.id = turn.id}
  <1>1. /\ \A i \in places : M!Message(i) \in existing
        /\ \A t \in existing : \E i \in places : M!Message(i) = t
        /\ \A s, t \in existing : s = t
    BY DEF ConversationsInv, TurnsMatch
  <1>2. places = {} <=> existing = {}
    BY <1>1
  <1>3. places # {} => ((\A i \in places : M!Message(i) = turn) <=> turn \in existing)
    BY <1>1
  <1> HIDE DEF places, existing
  <1>4. M!MemoryAppend(turn) =
           IF places = {} THEN "appended"
           ELSE IF \A i \in places : M!Message(i) = turn THEN "unchanged" ELSE "conflict"
    BY DEF M!MemoryAppend, places
  <1>5. M!RowAppend(turn) =
           IF existing = {} THEN "appended" ELSE IF turn \in existing THEN "unchanged" ELSE "conflict"
    BY DEF M!RowAppend, existing
  <1>6. M!RowAppend(turn) = "appended" => existing = {}
    BY <1>5
  <1> QED BY <1>2, <1>3, <1>4, <1>5, <1>6 DEF existing

LEMMA MSummaries ==
    ASSUME M!Sensible, ConversationsInv, NEW u \in Names, NEW thread \in Words
    PROVE  M!MemorySummary(u, thread) = M!RowSummary(u, thread)
  <1> DEFINE found == {s \in table.summaries : s.owner = u /\ s.thread = thread}
             s0 == memory.summaries[<<u, thread>>]
  <1>1. \A s \in found : s = s0
    BY DEF ConversationsInv, SummariesMatch
  <1>2. s0 # M!NoSummary => s0 \in found
    BY DEF ConversationsInv, SummariesMatch
  <1> HIDE DEF found
  <1>3. M!RowSummary(u, thread) = IF found = {} THEN M!NoSummary ELSE CHOOSE s \in found : TRUE
    BY DEF M!RowSummary, found
  <1>4. M!MemorySummary(u, thread) = s0
    BY DEF M!MemorySummary
  <1> QED BY <1>1, <1>2, <1>3, <1>4

LEMMA MSavesAlike ==
    ASSUME M!Sensible, ConversationsInv, NEW summary \in M!Summary, NEW expected,
           M!Expectable(summary.owner, summary.thread, expected)
    PROVE  M!MemorySaves(summary, expected) <=> M!RowSaves(summary, expected)
  <1>1. summary.owner \in Names /\ summary.thread \in Words
    BY DEF M!Summary
  <1>2. M!MemorySummary(summary.owner, summary.thread) = M!RowSummary(summary.owner, summary.thread)
    BY <1>1, MSummaries
  <1> QED BY <1>2 DEF M!MemorySaves, M!RowSaves, M!Expectable

LEMMA MAgree == M!Sensible /\ ConversationsInv => M!Agree
  <1> SUFFICES ASSUME M!Sensible, ConversationsInv PROVE M!Agree
    OBVIOUS
  <1>1. ASSUME NEW u \in Names, NEW subject \in Names
        PROVE  M!MemoryThreads(u, subject) = M!RowThreads(u, subject)
    BY DEF ConversationsInv, TurnsMatch, M!MemoryThreads, M!RowThreads
  <1>2. ASSUME NEW u \in Names, NEW thread \in Words, NEW id \in Entries
        PROVE  M!MemoryTurn(u, thread, id) = M!RowTurn(u, thread, id)
    BY DEF ConversationsInv, TurnsMatch, M!MemoryTurn, M!RowTurn, M!MemoryTurns, M!RowTurns
  <1>3. ASSUME NEW u \in Names, NEW thread \in Words, NEW limit \in Words
        PROVE  M!MemoryRecent(u, thread, limit) = M!RowRecent(u, thread, limit)
    <2>1. PICK a, c, r : /\ a = memory.messages /\ c = M!MemoryTurns(u, thread)
                         /\ r = M!RowTurns(u, thread)
      OBVIOUS
    <2>2. InOrder(a, c, r)
      BY <2>1, MTurns
    <2>3. M!MemoryRecent(u, thread, limit) = LastTurns(a, c, limit)
      BY <2>1 DEF M!MemoryRecent, LastTurns, TurnsAfter, M!Message
    <2>4. M!RowRecent(u, thread, limit) = LastTurnRows(r, limit)
      BY <2>1 DEF M!RowRecent, LastTurnRows, TurnRowsAfter
    <2>5. LastTurns(a, c, limit) = LastTurnRows(r, limit)
      BY <2>2, MSlices
    <2> QED BY <2>3, <2>4, <2>5
  <1>4. ASSUME NEW u \in Names, NEW thread \in Words, NEW limit \in Words, NEW recent \in Pages,
               NEW watermark \in Entries \cup {M!Null}, M!Outside(u, thread, recent, watermark)
        PROVE  M!MemoryBeforeRecent(u, thread, recent, limit, watermark)
                  = M!RowBeforeRecent(u, thread, recent, limit, watermark)
    <2>1. PICK a, c, r : /\ a = memory.messages /\ c = M!MemoryTurns(u, thread)
                         /\ r = M!RowTurns(u, thread)
      OBVIOUS
    <2>2. InOrder(a, c, r)
      BY <2>1, MTurns
    <2>3. recent \in Nat
      BY DEF M!Sensible
    <2>4. \A t \in r : t.id = watermark => TurnRowsAfter(r, t) >= recent
      BY <1>4, <2>1 DEF M!Outside, TurnRowsAfter
    <2>5. PICK rest, restRows : /\ rest = RestTurns(a, c, recent, watermark)
                                /\ restRows = RestRows(r, recent, watermark)
      OBVIOUS
    <2>6. InOrder(a, rest, restRows)
      BY <2>2, <2>3, <2>4, <2>5, MRest
    <2>7. M!MemoryBeforeRecent(u, thread, recent, limit, watermark) = FirstTurns(a, rest, limit)
      BY <2>1, <2>5 DEF M!MemoryBeforeRecent, RestTurns, FirstTurns, TurnsAfter, TurnsBefore, M!Message
    <2>8. M!RowBeforeRecent(u, thread, recent, limit, watermark) = FirstTurnRows(restRows, limit)
      BY <2>1, <2>5 DEF M!RowBeforeRecent, RestRows, FirstTurnRows, TurnRowsAfter, TurnRowsBefore
    <2>9. FirstTurns(a, rest, limit) = FirstTurnRows(restRows, limit)
      BY <2>6, MSlices
    <2> QED BY <2>7, <2>8, <2>9
  <1>5. ASSUME NEW u \in Names, NEW thread \in Words
        PROVE  M!MemorySummary(u, thread) = M!RowSummary(u, thread)
    BY MSummaries
  <1>6. \A turn \in M!Turn : M!MemoryAppend(turn) = M!RowAppend(turn)
    BY MAppendAlike
  <1>7. \A summary \in M!Summary, expected \in Entries \cup {M!Null} :
           M!Expectable(summary.owner, summary.thread, expected) =>
              (M!MemorySaves(summary, expected) <=> M!RowSaves(summary, expected))
    BY MSavesAlike
  <1> QED BY <1>1, <1>2, <1>3, <1>4, <1>5, <1>6, <1>7 DEF M!Agree

LEMMA MAppends ==
    ASSUME M!Sensible, ConversationsInv, NEW turn \in M!Turn, M!AppendTurn(turn)
    PROVE  ConversationsInv'
  <1>1. M!MemoryAppend(turn) = M!RowAppend(turn)
    BY MAppendAlike
  <1>2. CASE M!RowAppend(turn) # "appended"
    <2>1. UNCHANGED <<memory, table, clock>>
      BY <1>1, <1>2 DEF M!AppendTurn
    <2> QED BY <2>1 DEF ConversationsInv, TurnsMatch, SummariesMatch, M!TypeOK, M!Messages, M!Message
  <1>3. CASE M!RowAppend(turn) = "appended"
    <2> DEFINE a == memory.messages
               b == Append(a, turn)
    <2>1. /\ memory' = [memory EXCEPT !.messages = b] /\ clock' = clock
          /\ table' = [table EXCEPT !.messages = table.messages \cup {turn}]
          /\ \A t \in M!RowTurns(turn.owner, turn.thread) : M!Precedes(t, turn)
          /\ \A t \in table.messages : t.id # turn.id
      BY <1>1, <1>3, MAppendAlike DEF M!AppendTurn
    <2>2. /\ a \in Seq(M!Turn) /\ DOMAIN a = 1 .. Len(a) /\ Len(a) \in Nat
          /\ \A i \in DOMAIN a : a[i] \in table.messages
          /\ table.messages \subseteq M!Turn
      BY LenProperties DEF ConversationsInv, M!TypeOK, TurnsMatch, M!Messages, M!Message
    <2>3. /\ b \in Seq(M!Turn) /\ DOMAIN b = 1 .. (Len(a) + 1)
          /\ \A i \in 1 .. Len(a) : b[i] = a[i]
      BY <2>2, AppendProperties, LenProperties
    <2>4. b[Len(a) + 1] = turn
      BY <2>2, AppendProperties
    <2> HIDE DEF b
    <2>5. /\ memory'.messages = b /\ memory'.summaries = memory.summaries
          /\ table'.messages = table.messages \cup {turn} /\ table'.summaries = table.summaries
      BY <2>1 DEF ConversationsInv, M!TypeOK
    <2>6. M!TypeOK'
      BY <2>1, <2>2, <2>3 DEF ConversationsInv, M!TypeOK
    <2>7. \A i \in DOMAIN b : i \in DOMAIN a \/ i = Len(a) + 1
      BY <2>2, <2>3
    <2>8. \A i \in DOMAIN b : b[i] \in table'.messages
      BY <2>2, <2>3, <2>4, <2>5, <2>7
    <2>9. ASSUME NEW t \in table'.messages PROVE \E i \in DOMAIN b : b[i] = t
      <3>1. CASE t = turn
        <4>1. Len(a) + 1 \in DOMAIN b
          BY <2>2, <2>3
        <4> QED BY <2>4, <3>1, <4>1
      <3>2. CASE t \in table.messages
        <4>1. PICK i \in DOMAIN a : a[i] = t
          BY <3>2 DEF ConversationsInv, TurnsMatch, M!Messages, M!Message
        <4>2. i \in DOMAIN b /\ b[i] = t
          BY <2>2, <2>3, <4>1
        <4> QED BY <4>2
      <3> QED BY <2>5, <3>1, <3>2
    <2>10. \A s, t \in table'.messages : s.id = t.id => s = t
      BY <2>1, <2>5 DEF ConversationsInv, TurnsMatch
    <2>11. ASSUME NEW i \in DOMAIN b, NEW k \in DOMAIN b, i < k, b[i].owner = b[k].owner,
                  b[i].thread = b[k].thread
           PROVE  M!Precedes(b[i], b[k])
      <3>1. i \in DOMAIN a /\ b[i] = a[i] /\ a[i] \in table.messages
        BY <2>2, <2>3, <2>11
      <3>2. CASE k \in DOMAIN a
        <4>1. b[k] = a[k]
          BY <2>2, <2>3, <3>2
        <4> QED BY <2>11, <3>1, <3>2, <4>1 DEF ConversationsInv, TurnsMatch, M!Messages, M!Message
      <3>3. CASE k = Len(a) + 1
        BY <2>1, <2>4, <2>11, <3>1, <3>3 DEF M!RowTurns
      <3> QED BY <2>7, <3>2, <3>3
    <2>12. TurnsMatch'
      BY <2>5, <2>8, <2>9, <2>10, <2>11 DEF TurnsMatch, M!Messages, M!Message, M!Precedes
    <2>13. SummariesMatch'
      BY <2>5 DEF ConversationsInv, SummariesMatch, M!NoSummary
    <2> QED BY <2>6, <2>12, <2>13 DEF ConversationsInv
  <1> QED BY <1>2, <1>3

LEMMA MSaves ==
    ASSUME M!Sensible, ConversationsInv, NEW summary \in M!Summary, NEW expected,
           M!SaveSummary(summary, expected)
    PROVE  ConversationsInv'
  <1> DEFINE key == <<summary.owner, summary.thread>>
             row == M!RowSummary(summary.owner, summary.thread)
  <1>0. summary.owner \in Names /\ summary.thread \in Words /\ key \in Names \X Words
    BY DEF M!Summary
  <1>1. M!MemorySaves(summary, expected) <=> M!RowSaves(summary, expected)
    BY MSavesAlike DEF M!SaveSummary
  <1>2. CASE ~M!RowSaves(summary, expected)
    <2>1. UNCHANGED <<memory, table, clock>>
      BY <1>1, <1>2 DEF M!SaveSummary
    <2> QED BY <2>1 DEF ConversationsInv, TurnsMatch, SummariesMatch, M!TypeOK, M!Messages, M!Message
  <1>3. CASE M!RowSaves(summary, expected)
    <2>1. /\ memory' = [memory EXCEPT !.summaries = [memory.summaries EXCEPT ![key] = summary]]
          /\ table' = [table EXCEPT !.summaries = (table.summaries \ {row}) \cup {summary}]
          /\ clock' = clock
      BY <1>1, <1>3 DEF M!SaveSummary
    <2>2. /\ memory'.messages = memory.messages /\ table'.messages = table.messages
          /\ memory'.summaries = [memory.summaries EXCEPT ![key] = summary]
          /\ table'.summaries = (table.summaries \ {row}) \cup {summary}
      BY <2>1 DEF ConversationsInv, M!TypeOK
    <2>3. /\ memory'.summaries[key] = summary
          /\ \A k \in Names \X Words : k # key => memory'.summaries[k] = memory.summaries[k]
      BY <1>0, <2>2 DEF ConversationsInv, M!TypeOK
    <2>4. row = memory.summaries[key]
      BY <1>0, MSummaries DEF M!MemorySummary
    <2>5. M!TypeOK'
      BY <1>0, <2>1 DEF ConversationsInv, M!TypeOK
    <2>6. TurnsMatch'
      BY <2>2 DEF ConversationsInv, TurnsMatch, M!Messages, M!Message, M!Precedes
    <2>7. ASSUME NEW s \in table'.summaries PROVE memory'.summaries[<<s.owner, s.thread>>] = s
      <3>1. CASE s = summary
        BY <2>3, <3>1
      <3>2. CASE s # summary
        <4>1. s \in table.summaries /\ s # row
          BY <2>2, <3>2
        <4>2. memory.summaries[<<s.owner, s.thread>>] = s
          BY <4>1 DEF ConversationsInv, SummariesMatch
        <4>3. <<s.owner, s.thread>> # key
          BY <2>4, <4>1, <4>2
        <4>4. <<s.owner, s.thread>> \in Names \X Words
          BY <4>1 DEF ConversationsInv, M!TypeOK, M!Summary
        <4> QED BY <2>3, <4>2, <4>3, <4>4
      <3> QED BY <3>1, <3>2
    <2>8. ASSUME NEW u \in Names, NEW thread \in Words, memory'.summaries[<<u, thread>>] # M!NoSummary
          PROVE  LET s == memory'.summaries[<<u, thread>>]
                 IN  s \in table'.summaries /\ s.owner = u /\ s.thread = thread
      <3>1. CASE <<u, thread>> = key
        BY <2>2, <2>3, <3>1
      <3>2. CASE <<u, thread>> # key
        <4>1. memory'.summaries[<<u, thread>>] = memory.summaries[<<u, thread>>]
          BY <2>3, <3>2
        <4> DEFINE s == memory.summaries[<<u, thread>>]
        <4>2. s # M!NoSummary /\ s \in table.summaries /\ s.owner = u /\ s.thread = thread
          BY <2>8, <4>1 DEF ConversationsInv, SummariesMatch
        <4>3. s # row
          <5>1. row # M!NoSummary => row.owner = summary.owner /\ row.thread = summary.thread
            BY <1>0, <2>4 DEF ConversationsInv, SummariesMatch
          <5> QED BY <3>2, <4>2, <5>1
        <4> QED BY <2>2, <4>1, <4>2, <4>3
      <3> QED BY <3>1, <3>2
    <2>9. SummariesMatch'
      BY <2>7, <2>8 DEF SummariesMatch, M!NoSummary
    <2> QED BY <2>5, <2>6, <2>9 DEF ConversationsInv
  <1> QED BY <1>2, <1>3

LEMMA MStep == M!Sensible /\ ConversationsInv /\ M!Next => ConversationsInv'
  <1> SUFFICES ASSUME M!Sensible, ConversationsInv, M!Next PROVE ConversationsInv'
    OBVIOUS
  <1>1. ASSUME NEW turn \in M!Turn, M!AppendTurn(turn) PROVE ConversationsInv'
    BY <1>1, MAppends
  <1>2. ASSUME NEW summary \in M!Summary, NEW expected \in Entries \cup {M!Null},
               M!SaveSummary(summary, expected)
        PROVE  ConversationsInv'
    BY <1>2, MSaves
  <1>3. CASE M!Tick
    <2>1. UNCHANGED <<memory, table>> /\ clock' = clock + 1 /\ clock < Moments /\ clock \in M!Instants
      BY <1>3 DEF M!Tick, ConversationsInv, M!TypeOK
    <2>2. clock' \in M!Instants
      BY <2>1 DEF M!Instants, M!Sensible
    <2> QED BY <2>1, <2>2 DEF ConversationsInv, TurnsMatch, SummariesMatch, M!TypeOK, M!Messages, M!Message
  <1> QED BY <1>1, <1>2, <1>3 DEF M!Next

-----------------------------------------------------------------------------
(* All of them                                                             *)

StoresInv ==
    /\ store = "tasks" => TasksInv
    /\ store = "schedules" => SchedulesInv
    /\ store = "activities" => ActivitiesInv
    /\ store = "profiles" => ProfilesInv
    /\ store = "documents" => DocumentsInv
    /\ store = "sessions" => SessionsInv
    /\ store = "files" => FilesInv
    /\ store = "usage" => UsageInv
    /\ store = "journals" => JournalsInv
    /\ store = "conversations" => ConversationsInv

LEMMA StoresStart == StoresInit => StoresInv
  BY StoresAssumption, TInit, SInit, AInit, PInit, DInit, CInit, FInit, UInit, JInit, MInit
     DEF StoresInit, StoresInv

LEMMA StoresStep == StoresInv /\ [StoresNext]_storeVars => StoresInv'
  <1> SUFFICES ASSUME StoresInv, [StoresNext]_storeVars PROVE StoresInv'
    OBVIOUS
  <1>1. CASE StoresNext
    <2>1. store' = store
      BY <1>1 DEF StoresNext
    <2> QED BY <1>1, <2>1, StoresAssumption, TStep, SStep, AStep, PStep, DStep, CStep, FStep,
              UStep, JStep, MStep
            DEF StoresNext, StoresInv
  <1>2. CASE UNCHANGED storeVars
    <2>1. UNCHANGED <<memory, table, clock>> /\ store' = store
      BY <1>2 DEF storeVars
    <2>2. TasksInv => TasksInv'
      BY <2>1 DEF TasksInv, TasksMatch, T!TypeOK
    <2>3. SchedulesInv => SchedulesInv'
      BY <2>1 DEF SchedulesInv, SchedulesMatch, S!TypeOK
    <2>4. ActivitiesInv => ActivitiesInv'
      BY <2>1 DEF ActivitiesInv, ActivitiesMatch, A!TypeOK
    <2>5. ProfilesInv => ProfilesInv'
      BY <2>1 DEF ProfilesInv, ProfilesMatch, P!TypeOK
    <2>6. DocumentsInv => DocumentsInv'
      BY <2>1 DEF DocumentsInv, DocumentsMatch, D!TypeOK, StatOf
    <2>7. SessionsInv => SessionsInv'
      BY <2>1 DEF SessionsInv, SessionsMatch, C!TypeOK
    <2>8. FilesInv => FilesInv'
      BY <2>1 DEF FilesInv, FilesMatch, F!TypeOK
    <2>9. UsageInv => UsageInv'
      BY <2>1 DEF UsageInv, UsageMatch, U!TypeOK
    <2>10. JournalsInv => JournalsInv'
      BY <2>1 DEF JournalsInv, JournalsMatch, J!TypeOK
    <2>11. ConversationsInv => ConversationsInv'
      BY <2>1 DEF ConversationsInv, TurnsMatch, SummariesMatch, M!TypeOK, M!Messages, M!Message
    <2> QED BY <2>1, <2>2, <2>3, <2>4, <2>5, <2>6, <2>7, <2>8, <2>9, <2>10, <2>11 DEF StoresInv
  <1> QED BY <1>1, <1>2

\* What the executable specs observe of a store in memory is what the tables or the bucket would
\* have answered, after any calls that went to both.
THEOREM StoresAnswerAlike == StoresSpec => []StoresAgree
  <1>1. StoresInv => StoresAgree
    BY StoresAssumption, TAgree, SAgree, AAgree, PAgree, DAgree, CAgree, FAgree, UAgree, JAgree, MAgree
    DEF StoresInv, StoresAgree
  <1> QED BY <1>1, StoresStart, StoresStep, PTL DEF StoresSpec

=============================================================================
