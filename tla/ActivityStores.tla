---------------------------- MODULE ActivityStores ----------------------------
(***************************************************************************)
(* The two stores of activities: the array in memory, whose elements carry *)
(* their revisions, and the tables activities and activity_revisions.      *)
(* Every call goes to both, one call after the other; what concurrent      *)
(* transactions do is the subject of Activities.  Category stands for the  *)
(* facets a correction sets or keeps, label for those it can clear too.    *)
(***************************************************************************)
EXTENDS Integers, FiniteSets, Sequences

CONSTANTS
    Owners, ActivityIds, Categories, Labels,    \* numbers, none of them 0
    Limits,                                     \* limits of a list
    Window,                                     \* how long an activity can be corrected
    MaxRevision, MaxClock                       \* bounds

VARIABLES
    memory,     \* [activities, revisions] by id
    table,      \* [activities, revisions] by primary key, of revisions the id and the number
    clock

activityVars == <<memory, table, clock>>

Null == 0
Kept == -1

Sensible ==
    /\ Owners \cup ActivityIds \cup Categories \cup Labels \subseteq Nat \ {0}
    /\ Limits \subseteq Nat \ {0}
    /\ Window \in Nat /\ MaxRevision \in Nat \ {0} /\ MaxClock \in Nat

Numbers == 1 .. MaxRevision

\* The messages of a turn are those of its owner: <<owner, clock>>.
Messages == Owners \X (0 .. MaxClock)
NoMessage == <<Null, 0>>

Activity == [id : ActivityIds, owner : Owners, category : Categories \cup {Null},
             label : Labels \cup {Null}, recorded : Nat, revision : Numbers,
             status : {"active", "superseded"}, by : ActivityIds \cup {Null},
             last : Messages \cup {NoMessage}, updated : Nat]
NoActivity == [id |-> Null, owner |-> Null, category |-> Null, label |-> Null, recorded |-> 0,
               revision |-> 0, status |-> "absent", by |-> Null, last |-> NoMessage, updated |-> 0]

Revision == [revision : Numbers, operation : {"created", "corrected", "superseded"},
             source : Messages, category : Categories \cup {Null}, label : Labels \cup {Null},
             status : {"active", "superseded"}, by : ActivityIds \cup {Null}, changed : Nat]
NoRevision == [revision |-> 0, operation |-> "none", source |-> NoMessage, category |-> Null,
               label |-> Null, status |-> "absent", by |-> Null, changed |-> 0]

\* A correction in the mode "patch" keeps what it does not name, in "replace" clears it.
Corrections == [patch : BOOLEAN, category : Categories \cup {Null}, label : Labels \cup {Null, Kept}]

Facets(category, label) == [category |-> category, label |-> label]
SameFacets(a, facets) == a.category = facets.category /\ a.label = facets.label

\* A correction and a supersession count one revision on.
Corrected(a, facets, source) ==
    [id |-> a.id, owner |-> a.owner, category |-> facets.category, label |-> facets.label,
     recorded |-> a.recorded, revision |-> a.revision + 1, status |-> a.status, by |-> a.by,
     last |-> source, updated |-> clock]
Superseded(a, other, source) ==
    [id |-> a.id, owner |-> a.owner, category |-> a.category, label |-> a.label,
     recorded |-> a.recorded, revision |-> a.revision + 1, status |-> "superseded", by |-> other,
     last |-> source, updated |-> clock]

Recorded(u, id, category, label) ==
    [id |-> id, owner |-> u, category |-> category, label |-> label, recorded |-> clock,
     revision |-> 1, status |-> "active", by |-> Null, last |-> NoMessage, updated |-> clock]

Init ==
    /\ memory = [activities |-> [id \in ActivityIds |-> NoActivity],
                 revisions |-> [id \in ActivityIds |-> <<>>]]
    /\ table = [activities |-> [id \in ActivityIds |-> NoActivity],
                revisions |-> [k \in ActivityIds \X Numbers |-> NoRevision]]
    /\ clock = 0

-----------------------------------------------------------------------------
(* In memory                                                               *)

RevisionSnapshot(a, operation, source) ==
    [revision |-> a.revision, operation |-> operation, source |-> source, category |-> a.category,
     label |-> a.label, status |-> a.status, by |-> a.by, changed |-> clock]

MemoryRevisions(id) ==
    [n \in Numbers |-> IF n <= Len(memory.revisions[id]) THEN memory.revisions[id][n] ELSE NoRevision]

FindRecentActivity(u, id) ==
    LET found == memory.activities[id]
    IN  IF found.owner = u /\ found.recorded >= clock - Window /\ found.recorded <= clock
        THEN found ELSE NoActivity

CorrectedFacets(a, c) ==
    LET base == IF c.patch THEN Facets(a.category, a.label) ELSE Facets(Null, Null)
        corrected == IF c.category = Null THEN base ELSE Facets(c.category, base.label)
    IN  IF c.label = Kept THEN corrected ELSE Facets(corrected.category, c.label)

RequireActiveRevision(a, expected) == a.status = "active" /\ a.revision = expected

\* No activity is the answer to a conflict.
MemoryCorrect(u, source, id, expected, c) ==
    LET current == FindRecentActivity(u, id)
        intended == CorrectedFacets(current, c)
        replay == /\ current.last = source /\ current.revision = expected + 1
                  /\ SameFacets(current, intended) /\ current.status = "active"
    IN  IF source[1] # u \/ current = NoActivity THEN NoActivity
        ELSE IF replay THEN current
        ELSE IF ~RequireActiveRevision(current, expected) THEN NoActivity
        ELSE Corrected(current, intended, source)

MemorySupersede(u, source, id, expected, other, otherExpected) ==
    LET target == FindRecentActivity(u, id)
        replacement == FindRecentActivity(u, other)
        replay == /\ target.last = source /\ target.revision = expected + 1
                  /\ target.status = "superseded" /\ target.by = other
    IN  IF source[1] # u \/ target = NoActivity THEN NoActivity
        ELSE IF replay THEN target
        ELSE IF \/ replacement = NoActivity \/ ~RequireActiveRevision(target, expected)
                \/ ~RequireActiveRevision(replacement, otherExpected) THEN NoActivity
        ELSE Superseded(target, other, source)

\* What a mutation leaves behind, when it is no replay.
MemoryMutated(id, a, operation, source) ==
    [activities |-> [memory.activities EXCEPT ![id] = a],
     revisions |-> [memory.revisions EXCEPT ![id] =
                       Append(memory.revisions[id], RevisionSnapshot(a, operation, source))]]

\* The latest first: each with the number of those before it.
MemoryRecent(u, after, limit) ==
    LET own == {a \in {memory.activities[id] : id \in ActivityIds} :
                   a.owner = u /\ a.status = "active" /\ a.recorded >= after /\ a.recorded <= clock}
        Before(a, b) == a.recorded > b.recorded \/ (a.recorded = b.recorded /\ a.id > b.id)
        Place(b) == Cardinality({a \in own : Before(a, b)})
    IN  {<<Place(a), a>> : a \in {b \in own : Place(b) < limit}}

\* In which order is of no concern to the callers, who tally.
MemoryOwn(u, from, to) ==
    {a \in {memory.activities[id] : id \in ActivityIds} :
        a.owner = u /\ a.status = "active" /\ a.recorded >= from /\ a.recorded <= to}

-----------------------------------------------------------------------------
(* activities and activity_revisions                                       *)

\* json_agg(... ORDER BY history.revision), of revisions that count on from 1
RowRevisions(id) == [n \in Numbers |-> table.revisions[<<id, n>>]]

InsertedRevision(a, operation, source) ==
    [revision |-> a.revision, operation |-> operation, source |-> source, category |-> a.category,
     label |-> a.label, status |-> a.status, by |-> a.by, changed |-> clock]

\* WHERE ... recorded_at >= $5 AND recorded_at <= $6 FOR UPDATE
LoadRecentForUpdate(u, id) ==
    LET row == table.activities[id]
    IN  IF row.owner = u /\ clock - Window <= row.recorded /\ row.recorded <= clock THEN row
        ELSE NoActivity

AppliedFacets(row, c) ==
    Facets(IF c.category # Null THEN c.category ELSE IF c.patch THEN row.category ELSE Null,
           IF c.label # Kept THEN c.label ELSE IF c.patch THEN row.label ELSE Null)

IsCorrectionReplay(row, source, expected, corrected) ==
    /\ row.last = source /\ row.revision = expected + 1 /\ row.status = "active"
    /\ SameFacets(row, corrected)

IsSupersessionReplay(row, source, expected, other) ==
    /\ row.last = source /\ row.revision = expected + 1 /\ row.status = "superseded" /\ row.by = other

RowCorrect(u, source, id, expected, c) ==
    LET row == LoadRecentForUpdate(u, id)
        corrected == AppliedFacets(row, c)
    IN  IF source[1] # u THEN NoActivity
        ELSE IF row # NoActivity /\ IsCorrectionReplay(row, source, expected, corrected) THEN row
        ELSE IF RequireActiveRevision(row, expected)
        THEN Corrected(row, corrected, source) ELSE NoActivity

RowSupersede(u, source, id, expected, other, otherExpected) ==
    LET target == LoadRecentForUpdate(u, id)
        replacement == LoadRecentForUpdate(u, other)
    IN  IF source[1] # u THEN NoActivity
        ELSE IF target # NoActivity /\ IsSupersessionReplay(target, source, expected, other) THEN target
        ELSE IF RequireActiveRevision(target, expected) /\ RequireActiveRevision(replacement, otherExpected)
        THEN Superseded(target, other, source) ELSE NoActivity

RowMutated(id, a, operation, source) ==
    [activities |-> [table.activities EXCEPT ![id] = a],
     revisions |-> [table.revisions EXCEPT ![<<id, a.revision>>] = InsertedRevision(a, operation, source)]]

\* ORDER BY recorded_at DESC, activity_id DESC LIMIT $6
RowRecent(u, after, limit) ==
    LET own == {a \in {table.activities[id] : id \in ActivityIds} :
                   a.owner = u /\ a.status = "active" /\ after <= a.recorded /\ a.recorded <= clock}
        Before(a, b) == IF a.recorded = b.recorded THEN a.id > b.id ELSE a.recorded > b.recorded
        Place(b) == Cardinality({a \in own : Before(a, b)})
    IN  {<<Place(a), a>> : a \in {b \in own : Place(b) < limit}}

\* activity_date BETWEEN $2 AND $3
RowOwn(u, from, to) ==
    {a \in {table.activities[id] : id \in ActivityIds} :
        a.owner = u /\ a.status = "active" /\ a.recorded \in from .. to}

-----------------------------------------------------------------------------
(* The calls                                                               *)

\* Activity ids are new, and the message is of the turn that is running.
SaveActivity(u, id, category, label) ==
    LET saved == Recorded(u, id, category, label)
        source == <<u, clock>>
    IN  /\ memory.activities[id] = NoActivity /\ table.activities[id] = NoActivity
        /\ memory' = MemoryMutated(id, saved, "created", source)
        /\ table' = RowMutated(id, saved, "created", source)
        /\ UNCHANGED clock

Correct(u, source, id, expected, c) ==
    LET inMemory == MemoryCorrect(u, source, id, expected, c)
        row == RowCorrect(u, source, id, expected, c)
    IN  /\ expected < MaxRevision
        /\ \/ inMemory \notin {NoActivity, memory.activities[id]}
           \/ row \notin {NoActivity, table.activities[id]}
        /\ memory' = IF inMemory \in {NoActivity, memory.activities[id]} THEN memory
                     ELSE MemoryMutated(id, inMemory, "corrected", source)
        /\ table' = IF row \in {NoActivity, table.activities[id]} THEN table
                    ELSE RowMutated(id, row, "corrected", source)
        /\ UNCHANGED clock

Supersede(u, source, id, expected, other, otherExpected) ==
    LET inMemory == MemorySupersede(u, source, id, expected, other, otherExpected)
        row == RowSupersede(u, source, id, expected, other, otherExpected)
    IN  /\ expected < MaxRevision
        /\ \/ inMemory \notin {NoActivity, memory.activities[id]}
           \/ row \notin {NoActivity, table.activities[id]}
        /\ memory' = IF inMemory \in {NoActivity, memory.activities[id]} THEN memory
                     ELSE MemoryMutated(id, inMemory, "superseded", source)
        /\ table' = IF row \in {NoActivity, table.activities[id]} THEN table
                    ELSE RowMutated(id, row, "superseded", source)
        /\ UNCHANGED clock

Tick == clock < MaxClock /\ clock' = clock + 1 /\ UNCHANGED <<memory, table>>

Next ==
    \/ \E u \in Owners, id \in ActivityIds :
          \/ \E category \in Categories, label \in Labels \cup {Null} :
                SaveActivity(u, id, category, label)
          \/ \E source \in Messages, expected \in Numbers :
                \/ \E c \in Corrections : Correct(u, source, id, expected, c)
                \/ \E other \in ActivityIds, otherExpected \in Numbers :
                      Supersede(u, source, id, expected, other, otherExpected)
    \/ Tick

Spec == Init /\ [][Next]_activityVars

-----------------------------------------------------------------------------

TypeOK ==
    /\ memory \in [activities : [ActivityIds -> Activity \cup {NoActivity}],
                   revisions : [ActivityIds -> Seq(Revision)]]
    /\ table \in [activities : [ActivityIds -> Activity \cup {NoActivity}],
                  revisions : [ActivityIds \X Numbers -> Revision \cup {NoRevision}]]
    /\ clock \in 0 .. MaxClock

\* After any calls every further call is answered alike by the array and by the tables.
Agree ==
    /\ \A id \in ActivityIds :
          memory.activities[id] = table.activities[id] /\ MemoryRevisions(id) = RowRevisions(id)
    /\ \A u \in Owners, from \in 0 .. MaxClock :
          /\ \A limit \in Limits : MemoryRecent(u, from, limit) = RowRecent(u, from, limit)
          /\ \A to \in 0 .. MaxClock : MemoryOwn(u, from, to) = RowOwn(u, from, to)
    /\ \A u \in Owners, source \in Messages, id \in ActivityIds, expected \in Numbers :
          /\ \A c \in Corrections :
                MemoryCorrect(u, source, id, expected, c) = RowCorrect(u, source, id, expected, c)
          /\ \A other \in ActivityIds, otherExpected \in Numbers :
                MemorySupersede(u, source, id, expected, other, otherExpected)
                    = RowSupersede(u, source, id, expected, other, otherExpected)

=============================================================================
