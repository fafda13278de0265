----------------------------- MODULE JournalStores -----------------------------
(***************************************************************************)
(* The two stores of what is written once and listed: audit events,        *)
(* feedback and insights.  In memory each is an array, whose order is that *)
(* of arrival, and its latest elements are a slice from its end; in the    *)
(* tables the order is that of the time and the id.  Every call goes to    *)
(* both, one call after the other.                                         *)
(*                                                                         *)
(* An entry comes with a new id and the time of its call, and of one       *)
(* instant ids ascend, as those of the executable specs do.  The random    *)
(* ids of production order what is of one instant in any way.  Limits are  *)
(* not 0: slice(-0) is the whole array and LIMIT 0 nothing.                *)
(***************************************************************************)
EXTENDS Integers, FiniteSets, Sequences

CONSTANTS
    Ids, Owners, Threads, Keys, \* numbers, none of them 0; a key is a request or a target message
    Kinds,                      \* the type and scope of an event, the kind of an insight, a rating
    Limits,                     \* limits of a list
    MaxClock                    \* bound

VARIABLES
    memory,     \* [events, feedback, insights]: arrays
    table,      \* [events, feedback, insights]: rows
    clock

journalVars == <<memory, table, clock>>

Null == 0
Instants == 0 .. MaxClock
Journals == {"events", "feedback", "insights"}

Sensible ==
    /\ Ids \cup Owners \cup Threads \cup Keys \cup Kinds \subseteq Nat \ {0}
    /\ Limits \subseteq Nat \ {0} /\ MaxClock \in Nat

\* The key of an event is its request, that of feedback the message it is about, and that of an
\* insight the message it is from; an event may be about nobody.
Entry == [id : Ids, key : Keys, owner : Owners \cup {Null}, thread : Threads \cup {Null}, kind : Kinds,
          created : Instants, updated : Instants]

New(id, key, u, thread, kind) ==
    [id |-> id, key |-> key, owner |-> u, thread |-> thread, kind |-> kind,
     created |-> clock, updated |-> clock]

\* What a list may ask for; Null asks for all.
Filters == [key : Keys \cup {Null}, owner : Owners \cup {Null}, thread : Threads \cup {Null},
            kind : Kinds \cup {Null}]

Matches(e, filter) ==
    /\ filter.key \in {Null, e.key} /\ filter.owner \in {Null, e.owner}
    /\ filter.thread \in {Null, e.thread} /\ filter.kind \in {Null, e.kind}

Init ==
    /\ memory = [j \in Journals |-> <<>>]
    /\ table = [j \in Journals |-> {}]
    /\ clock = 0

-----------------------------------------------------------------------------
(* In memory                                                               *)

Chosen(journal, filter) == {i \in DOMAIN memory[journal] : Matches(memory[journal][i], filter)}

\* slice(-limit), or all: each with the number of those after it.
MemoryLatest(journal, filter, limit) ==
    LET chosen == Chosen(journal, filter)
        After(i) == Cardinality({k \in chosen : k > i})
    IN  {<<After(i), memory[journal][i]>> : i \in {k \in chosen : limit = Null \/ After(k) < limit}}

\* slice(0, limit) of listByTypeAndScope
MemoryFirst(kind, limit) ==
    LET chosen == {i \in DOMAIN memory["events"] : memory["events"][i].kind = kind}
        Before(i) == Cardinality({k \in chosen : k < i})
    IN  {<<Before(i), memory["events"][i]>> : i \in {k \in chosen : Before(k) < limit}}

\* findIndex of the employee, the thread and the target, of which there is one at most
FindIndex(u, thread, target) ==
    {i \in DOMAIN memory["feedback"] :
        /\ memory["feedback"][i].owner = u /\ memory["feedback"][i].thread = thread
        /\ memory["feedback"][i].key = target}

MemoryFeedback(u, thread, target) == {memory["feedback"][i] : i \in FindIndex(u, thread, target)}

MemorySavedFeedback(id, target, u, thread, rating) ==
    LET found == FindIndex(u, thread, target)
    IN  IF found = {} THEN Append(memory["feedback"], New(id, target, u, thread, rating))
        ELSE [i \in DOMAIN memory["feedback"] |->
                 IF i \in found THEN [memory["feedback"][i] EXCEPT !.kind = rating, !.updated = clock]
                 ELSE memory["feedback"][i]]

MemorySavedInsight(e) ==
    IF \E i \in DOMAIN memory["insights"] : memory["insights"][i].id = e.id THEN memory["insights"]
    ELSE Append(memory["insights"], e)

-----------------------------------------------------------------------------
(* minutka_audit.events, minutka_private.feedback and insights             *)

Precedes(e, f) == e.created < f.created \/ (e.created = f.created /\ e.id < f.id)

\* ORDER BY created_at DESC, id DESC LIMIT, turned round
RowLatest(journal, filter, limit) ==
    LET rows == {e \in table[journal] : Matches(e, filter)}
        After(e) == Cardinality({f \in rows : Precedes(e, f)})
    IN  {<<After(e), e>> : e \in {f \in rows : limit = Null \/ After(f) < limit}}

RowFirst(kind, limit) ==
    LET rows == {e \in table["events"] : e.kind = kind}
        Before(e) == Cardinality({f \in rows : Precedes(f, e)})
    IN  {<<Before(e), e>> : e \in {f \in rows : Before(f) < limit}}

RowFeedback(u, thread, target) ==
    {e \in table["feedback"] : e.owner = u /\ e.thread = thread /\ e.key = target}

\* ON CONFLICT (employee_id, thread_id, target_message_id) DO UPDATE
RowSavedFeedback(id, target, u, thread, rating) ==
    LET conflict == RowFeedback(u, thread, target)
    IN  IF conflict = {} THEN table["feedback"] \cup {New(id, target, u, thread, rating)}
        ELSE (table["feedback"] \ conflict)
                \cup {[e EXCEPT !.kind = rating, !.updated = clock] : e \in conflict}

\* ON CONFLICT (insight_id) DO NOTHING
RowSavedInsight(e) ==
    IF \E f \in table["insights"] : f.id = e.id THEN table["insights"] ELSE table["insights"] \cup {e}

-----------------------------------------------------------------------------
(* The calls                                                               *)

\* No id is given twice, and of one instant they ascend.
Fresh(id) == \A j \in Journals : \A e \in table[j] : e.id # id /\ (e.created = clock => e.id < id)

AppendEvent(id, key, u, thread, kind) ==
    LET e == New(id, key, u, thread, kind)
    IN  /\ Fresh(id) /\ (u = Null => thread = Null)
        /\ memory' = [memory EXCEPT !["events"] = Append(@, e)]
        /\ table' = [table EXCEPT !["events"] = @ \cup {e}]
        /\ UNCHANGED clock

SaveFeedback(id, target, u, thread, rating) ==
    /\ Fresh(id)
    /\ memory' = [memory EXCEPT !["feedback"] = MemorySavedFeedback(id, target, u, thread, rating)]
    /\ table' = [table EXCEPT !["feedback"] = RowSavedFeedback(id, target, u, thread, rating)]
    /\ UNCHANGED clock

\* One insight of the list; one whose id is there stays as it is.
SaveInsight(id, key, u, thread, kind) ==
    LET e == New(id, key, u, thread, kind)
    IN  /\ Fresh(id) \/ \E f \in table["insights"] : f.id = id
        /\ memory' = [memory EXCEPT !["insights"] = MemorySavedInsight(e)]
        /\ table' = [table EXCEPT !["insights"] = RowSavedInsight(e)]
        /\ UNCHANGED clock

Tick == clock < MaxClock /\ clock' = clock + 1 /\ UNCHANGED <<memory, table>>

Next ==
    \/ \E id \in Ids, key \in Keys, kind \in Kinds :
          \/ \E u \in Owners \cup {Null}, thread \in Threads \cup {Null} : AppendEvent(id, key, u, thread, kind)
          \/ \E u \in Owners, thread \in Threads :
                \/ SaveFeedback(id, key, u, thread, kind)
                \/ SaveInsight(id, key, u, thread, kind)
    \/ Tick

Spec == Init /\ [][Next]_journalVars

-----------------------------------------------------------------------------

TypeOK ==
    /\ memory \in [Journals -> Seq(Entry)]
    /\ table \in [Journals -> SUBSET Entry]
    /\ clock \in Instants

\* After any calls every further call is answered alike by the arrays and by the tables.
Agree ==
    /\ \A journal \in Journals, filter \in Filters, limit \in Limits \cup {Null} :
          MemoryLatest(journal, filter, limit) = RowLatest(journal, filter, limit)
    /\ \A kind \in Kinds, limit \in Limits : MemoryFirst(kind, limit) = RowFirst(kind, limit)
    /\ \A u \in Owners, thread \in Threads, target \in Keys :
          MemoryFeedback(u, thread, target) = RowFeedback(u, thread, target)

=============================================================================
