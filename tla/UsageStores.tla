------------------------------ MODULE UsageStores ------------------------------
(***************************************************************************)
(* The two stores of what the model calls cost: the map in memory and      *)
(* minutka_private.usage.  Every call goes to both, one call after the     *)
(* other.  A sum over rows is abstracted to the rows it adds up, so adding *)
(* sums of different rows is a union; only what is compared with a limit   *)
(* is added.  The cost stands for the counts of tokens too; whether the    *)
(* provider told how much of the input was cached is kept apart.           *)
(***************************************************************************)
EXTENDS Integers, FiniteSets, FiniteSetsExt

CONSTANTS
    Users, Requests, Groups,    \* numbers, none of them 0; a group is one of its company
    Sources,                    \* usageSources, their order that of numbers
    Costs,                      \* what a call costs
    SoftLimits,                 \* limits that reports ask about
    MaxClock                    \* bound of the months

VARIABLES
    memory,     \* [records, participants]: of a user, a request and a source the row or NoRow
    table,      \* [usage, participants]: the rows, and the group of each participant or Null
    clock       \* the month

usageVars == <<memory, table, clock>>

Null == 0
Months == 0 .. MaxClock
Keys == Users \X Requests \X Sources

Sensible ==
    /\ Users \cup Requests \cup Groups \cup Sources \subseteq Nat \ {0}
    /\ Costs \cup SoftLimits \subseteq Nat /\ MaxClock \in Nat

Row == [user : Users, request : Requests, source : Sources, month : Months, cost : Costs,
        known : BOOLEAN]
NoRow == [user |-> Null, request |-> Null, source |-> Null, month |-> 0, cost |-> 0, known |-> FALSE]

New(u, request, source, cost, known) ==
    [user |-> u, request |-> request, source |-> source, month |-> clock, cost |-> cost, known |-> known]

\* Of totals: what is added up, the rows without a breakdown of the input, and those with one,
\* the denominator of the share that was cached.
Totals(rows) == [counted |-> rows, unknown |-> {r \in rows : ~r.known}, reported |-> {r \in rows : r.known}]

Plus(totals) ==
    [counted |-> UNION {t.counted : t \in totals}, unknown |-> UNION {t.unknown : t \in totals},
     reported |-> UNION {t.reported : t \in totals}]

Cost(rows) == MapThenSumSet(LAMBDA r : r.cost, rows)

\* The numbers of a set in order, each with the number of those before it
Ordered(numbers) == {<<Cardinality({m \in numbers : m < n}), n>> : n \in numbers}

Init ==
    /\ memory = [records |-> [k \in Keys |-> NoRow], participants |-> [u \in Users |-> Null]]
    /\ table = [usage |-> {}, participants |-> [u \in Users |-> Null]]
    /\ clock = 0

-----------------------------------------------------------------------------
(* In memory                                                               *)

Records == {memory.records[k] : k \in Keys} \ {NoRow}

\* The totals, and those of each source that has rows, in the order of usageSources
Aggregate(rows) ==
    LET Of(source) == {r \in rows : r.source = source}
        bySource == {source \in Sources : Of(source) # {}}
    IN  [totals |-> Totals(rows), bySource |-> {<<p, Totals(Of(p[2]))>> : p \in Ordered(bySource)}]

\* The first row of a user, a request and a source stays.
MemoryInserts(u, request, source) == memory.records[<<u, request, source>>] = NoRow

MemoryMonthly(u, month) == Aggregate({r \in Records : r.user = u /\ r.month = month})

MemoryGroupMonthly(group, month, limit) ==
    LET scoped == {u \in Users : memory.participants[u] = group}
        rows == {r \in Records : r.user \in scoped /\ r.month = month}
        CostOf(u) == Cost({r \in rows : r.user = u})
        above == {u \in scoped : CostOf(u) > limit}
    IN  [participants |-> Cardinality(scoped), usage |-> Aggregate(rows),
         aboveLimit |-> {<<p, CostOf(p[2])>> : p \in Ordered(above)}]

-----------------------------------------------------------------------------
(* minutka_private.usage and participants                                  *)

\* ON CONFLICT (request_id, user_id, source) DO NOTHING
RowInserts(u, request, source) ==
    ~ \E r \in table.usage : r.request = request /\ r.user = u /\ r.source = source

\* GROUP BY source; what is not in usageSources cannot be there, and the totals are those of the
\* sources added up.
BySource(rows) ==
    LET sources == {r.source : r \in rows}
        OfSource(source) == Totals({r \in rows : r.source = source})
    IN  [totals |-> Plus({OfSource(source) : source \in sources}),
         bySource |-> {<<p, OfSource(p[2])>> : p \in Ordered({s \in Sources : s \in sources})}]

RowMonthly(u, month) == BySource({r \in table.usage : r.user = u /\ r.month = month})

\* usage JOIN participants; participants LEFT JOIN usage GROUP BY employee_id HAVING
RowGroupMonthly(group, month, limit) ==
    LET joined == {j \in table.usage \X Users : /\ j[1].user = j[2] /\ j[1].month = month
                                                /\ table.participants[j[2]] = group}
        CostOf(u) == Cost({r \in table.usage : r.user = u /\ r.month = month})
        above == {u \in Users : table.participants[u] = group /\ CostOf(u) > limit}
    IN  [participants |-> Cardinality({u \in Users : table.participants[u] = group}),
         usage |-> BySource({j[1] : j \in joined}),
         aboveLimit |-> {<<p, CostOf(p[2])>> : p \in Ordered(above)}]

-----------------------------------------------------------------------------
(* The calls                                                               *)

\* Of what the invites bring, the group
Enrol(u, group) ==
    /\ memory.participants[u] = Null
    /\ memory' = [memory EXCEPT !.participants[u] = group]
    /\ table' = [table EXCEPT !.participants[u] = group]
    /\ UNCHANGED clock

\* usage.user_id REFERENCES participants
Record(u, request, source, cost, known) ==
    LET row == New(u, request, source, cost, known)
    IN  /\ table.participants[u] # Null
        /\ memory' = IF ~MemoryInserts(u, request, source) THEN memory
                     ELSE [memory EXCEPT !.records[<<u, request, source>>] = row]
        /\ table' = IF ~RowInserts(u, request, source) THEN table
                    ELSE [table EXCEPT !.usage = table.usage \cup {row}]
        /\ UNCHANGED clock

Tick == clock < MaxClock /\ clock' = clock + 1 /\ UNCHANGED <<memory, table>>

Next ==
    \/ \E u \in Users :
          \/ \E group \in Groups : Enrol(u, group)
          \/ \E request \in Requests, source \in Sources, cost \in Costs, known \in BOOLEAN :
                Record(u, request, source, cost, known)
    \/ Tick

Spec == Init /\ [][Next]_usageVars

-----------------------------------------------------------------------------

TypeOK ==
    /\ memory \in [records : [Keys -> Row \cup {NoRow}], participants : [Users -> Groups \cup {Null}]]
    /\ table \in [usage : SUBSET Row, participants : [Users -> Groups \cup {Null}]]
    /\ clock \in Months

\* After any calls every further call is answered alike by the map and by the table; record
\* answers with the month it leaves behind.
Agree ==
    /\ \A u \in Users :
          /\ \A request \in Requests, source \in Sources :
                MemoryInserts(u, request, source) <=> RowInserts(u, request, source)
          /\ \A month \in Months : MemoryMonthly(u, month) = RowMonthly(u, month)
    /\ \A group \in Groups, month \in Months, limit \in SoftLimits :
          MemoryGroupMonthly(group, month, limit) = RowGroupMonthly(group, month, limit)

=============================================================================
