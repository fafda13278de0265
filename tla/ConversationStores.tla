-------------------------- MODULE ConversationStores --------------------------
(***************************************************************************)
(* The two stores of turns and of the summaries of their threads: arrays   *)
(* in memory, minutka_private.messages and thread_summaries.  Every call   *)
(* goes to both, one call after the other, and turns of a thread come in   *)
(* the order of their times and, of one instant, of their ids; turns that  *)
(* overtake each other are the subject of ThreadCompaction.                *)
(***************************************************************************)
EXTENDS Integers, FiniteSets, Sequences

CONSTANTS
    MessageIds, Owners, Subjects, Threads, Texts,   \* numbers, none of them 0
    Limits, Recents,                                \* limits of a batch, widths of the window
    MaxClock                                        \* bound

VARIABLES
    memory,     \* [messages, summaries]: the array, and of owner and thread a summary or NoSummary
    table,      \* [messages, summaries]: the rows
    clock

conversationVars == <<memory, table, clock>>

Null == 0
Instants == 0 .. MaxClock

Sensible ==
    /\ MessageIds \cup Owners \cup Subjects \cup Threads \cup Texts \subseteq Nat \ {0}
    /\ Limits \cup Recents \subseteq Nat /\ MaxClock \in Nat

\* A text stands for what the employee and the agent said, and the metadata.
Turn == [id : MessageIds, owner : Owners, subject : Subjects, thread : Threads, text : Texts,
         at : Instants]

\* A summary as its text and the message that it reaches
Summary == [owner : Owners, thread : Threads, text : Texts, through : MessageIds]
NoSummary == [owner |-> Null, thread |-> Null, text |-> Null, through |-> Null]

Init ==
    /\ memory = [messages |-> <<>>, summaries |-> [k \in Owners \X Threads |-> NoSummary]]
    /\ table = [messages |-> {}, summaries |-> {}]
    /\ clock = 0

-----------------------------------------------------------------------------
(* In memory                                                               *)

Messages == DOMAIN memory.messages
Message(i) == memory.messages[i]

\* An id is that of one message; a turn that is there already is accepted when it is the same.
MemoryAppend(turn) ==
    LET existing == {i \in Messages : Message(i).id = turn.id}
    IN  IF existing = {} THEN "appended"
        ELSE IF \A i \in existing : Message(i) = turn THEN "unchanged" ELSE "conflict"

MemoryThreads(u, subject) ==
    {Message(i).thread : i \in {k \in Messages : Message(k).owner = u /\ Message(k).subject = subject}}

MemoryTurns(u, thread) == {i \in Messages : Message(i).owner = u /\ Message(i).thread = thread}

\* A list as its elements, each with the number of those that the array has after it: slice(-limit).
MemoryRecent(u, thread, limit) ==
    LET turns == MemoryTurns(u, thread)
        After(i) == Cardinality({k \in turns : k > i})
    IN  {<<After(i), Message(i)>> : i \in {k \in turns : After(k) < limit}}

\* All but the latest, from the watermark on, and of them the first: each with the number before it.
MemoryBeforeRecent(u, thread, recent, limit, watermark) ==
    LET turns == MemoryTurns(u, thread)
        outside == {i \in turns : Cardinality({k \in turns : k > i}) >= recent}
        found == {i \in outside : Message(i).id = watermark}
        rest == {i \in outside : \A w \in found : i > w}
        Before(i) == Cardinality({k \in rest : k < i})
    IN  {<<Before(i), Message(i)>> : i \in {k \in rest : Before(k) < limit}}

MemoryTurn(u, thread, id) == {Message(i) : i \in {k \in MemoryTurns(u, thread) : Message(k).id = id}}

MemorySummary(u, thread) == memory.summaries[<<u, thread>>]

\* Compare and swap; Null expects that there is no summary yet.
MemorySaves(summary, expected) ==
    LET existing == MemorySummary(summary.owner, summary.thread)
    IN  IF expected = Null THEN existing = NoSummary ELSE existing.through = expected

-----------------------------------------------------------------------------
(* minutka_private.messages and thread_summaries                           *)

Precedes(s, t) == s.at < t.at \/ (s.at = t.at /\ s.id < t.id)

\* ON CONFLICT (message_id) DO NOTHING, then the row as it is
RowAppend(turn) ==
    LET existing == {t \in table.messages : t.id = turn.id}
    IN  IF existing = {} THEN "appended" ELSE IF turn \in existing THEN "unchanged" ELSE "conflict"

RowThreads(u, subject) == {t.thread : t \in {s \in table.messages : s.owner = u /\ s.subject = subject}}

RowTurns(u, thread) == {t \in table.messages : t.owner = u /\ t.thread = thread}

\* ORDER BY created_at DESC, message_id DESC LIMIT, turned round
RowRecent(u, thread, limit) ==
    LET turns == RowTurns(u, thread)
        After(t) == Cardinality({s \in turns : Precedes(t, s)})
    IN  {<<After(t), t>> : t \in {s \in turns : After(s) < limit}}

\* recent_position > $3, and no watermark, or later than the watermark
RowBeforeRecent(u, thread, recent, limit, watermark) ==
    LET turns == RowTurns(u, thread)
        Position(t) == Cardinality({s \in turns : Precedes(t, s)}) + 1
        found == {t \in turns : t.id = watermark}
        rest == {t \in turns : Position(t) > recent /\ \A w \in found : Precedes(w, t)}
        Before(t) == Cardinality({s \in rest : Precedes(s, t)})
    IN  {<<Before(t), t>> : t \in {s \in rest : Before(s) < limit}}

RowTurn(u, thread, id) == {t \in RowTurns(u, thread) : t.id = id}

\* PRIMARY KEY (employee_id, thread_id)
RowSummary(u, thread) ==
    LET found == {s \in table.summaries : s.owner = u /\ s.thread = thread}
    IN  IF found = {} THEN NoSummary ELSE CHOOSE s \in found : TRUE

\* An insert where there is no row, whatever is expected; an update where the row reaches what is.
RowSaves(summary, expected) ==
    LET row == RowSummary(summary.owner, summary.thread)
    IN  row = NoSummary \/ (expected # Null /\ row.through = expected)

-----------------------------------------------------------------------------
(* The calls                                                               *)

\* What is new is the latest of its thread.
AppendTurn(turn) ==
    /\ RowAppend(turn) = "appended" =>
          turn.at = clock /\ \A t \in RowTurns(turn.owner, turn.thread) : Precedes(t, turn)
    /\ memory' = IF MemoryAppend(turn) # "appended" THEN memory
                 ELSE [memory EXCEPT !.messages = Append(memory.messages, turn)]
    /\ table' = IF RowAppend(turn) # "appended" THEN table
                ELSE [table EXCEPT !.messages = table.messages \cup {turn}]
    /\ UNCHANGED clock

\* The callers expect the summary that they have read, and none is deleted without its thread.
\* Of one that is gone the map is asked in vain, while the row would be inserted.
Expectable(u, thread, expected) == expected # Null => RowSummary(u, thread) # NoSummary

\* A summary reaches a turn of its thread.
SaveSummary(summary, expected) ==
    LET key == <<summary.owner, summary.thread>>
    IN  /\ RowTurn(summary.owner, summary.thread, summary.through) # {}
        /\ Expectable(summary.owner, summary.thread, expected)
        /\ memory' = IF ~MemorySaves(summary, expected) THEN memory
                     ELSE [memory EXCEPT !.summaries = [memory.summaries EXCEPT ![key] = summary]]
        /\ table' = IF ~RowSaves(summary, expected) THEN table
                    ELSE [table EXCEPT !.summaries =
                             (table.summaries \ {RowSummary(summary.owner, summary.thread)}) \cup {summary}]
        /\ UNCHANGED clock

Tick == clock < MaxClock /\ clock' = clock + 1 /\ UNCHANGED <<memory, table>>

Next ==
    \/ \E turn \in Turn : AppendTurn(turn)
    \/ \E summary \in Summary, expected \in MessageIds \cup {Null} : SaveSummary(summary, expected)
    \/ Tick

Spec == Init /\ [][Next]_conversationVars

-----------------------------------------------------------------------------

TypeOK ==
    /\ memory \in [messages : Seq(Turn), summaries : [Owners \X Threads -> Summary \cup {NoSummary}]]
    /\ table \in [messages : SUBSET Turn, summaries : SUBSET Summary]
    /\ clock \in Instants

\* A watermark is a turn outside the window, or one that is not there: inside it the array is
\* read from its start and the table not at all.
Outside(u, thread, recent, watermark) ==
    \A t \in RowTurns(u, thread) :
       t.id = watermark => Cardinality({s \in RowTurns(u, thread) : Precedes(t, s)}) >= recent

\* After any calls every further call is answered alike by the arrays and by the tables.
Agree ==
    /\ \A turn \in Turn : MemoryAppend(turn) = RowAppend(turn)
    /\ \A summary \in Summary, expected \in MessageIds \cup {Null} :
          Expectable(summary.owner, summary.thread, expected) =>
             (MemorySaves(summary, expected) <=> RowSaves(summary, expected))
    /\ \A u \in Owners :
          /\ \A subject \in Subjects : MemoryThreads(u, subject) = RowThreads(u, subject)
          /\ \A thread \in Threads :
                /\ MemorySummary(u, thread) = RowSummary(u, thread)
                /\ \A id \in MessageIds : MemoryTurn(u, thread, id) = RowTurn(u, thread, id)
                /\ \A limit \in Limits :
                      /\ MemoryRecent(u, thread, limit) = RowRecent(u, thread, limit)
                      /\ \A recent \in Recents, watermark \in MessageIds \cup {Null} :
                            Outside(u, thread, recent, watermark) =>
                               MemoryBeforeRecent(u, thread, recent, limit, watermark)
                                  = RowBeforeRecent(u, thread, recent, limit, watermark)

=============================================================================
