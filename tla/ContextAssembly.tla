--------------------------- MODULE ContextAssembly ---------------------------
(***************************************************************************)
(* What a turn of the assistant puts before the model: the projections of  *)
(* the owner's documents, records and thread, each within the ceiling of   *)
(* its source, and the sections that fit the budget of the request.  After *)
(* a first run that overflowed the model's window everything is built once *)
(* more under the smaller budget of the recovery.                          *)
(*                                                                         *)
(* From src/application/context-budget.ts, assistant-context-projection.ts,*)
(* context-tree-index.ts, assistant-records-projection.ts, runtime-        *)
(* projection-builder.ts and assistant-overflow-recovery.ts.  Texts are    *)
(* their sizes, and the words around a text have a fixed size each.        *)
(***************************************************************************)
EXTENDS Integers, Sequences, FiniteSetsExt, SequencesExt

CONSTANTS
    Budgets,     \* what deployments set: [total, reserve, ceiling, documents, documentSize,
                 \*                        records, recordSize, turns, turnSize]
    Trees,       \* documents by priority: sequences of [core, size, bytes, kept]
    Folders,     \* sizes of the four views of the index, files first
    Threads,     \* sizes of the turns of a thread, oldest first
    Lists,       \* [tasks, ideas, size] of the records
    Others,      \* sizes of the sections that are not projected
    Words        \* sizes of fixed words: [head, notice, fragment, marker, separator, input, markup,
                 \*                       cut, fewer, bytes]

VARIABLES
    budget,      \* the limits of this run of the model
    tree, left,  \* the documents listed, and those still to be projected
    documents,   \* what is shown of them
    degraded,    \* how many are not shown whole
    reads,       \* bodies read
    thread,      \* the turns of the thread, and whether older ones were left out
    phase, again, sections, failure

vars == <<budget, tree, left, documents, degraded, reads, thread, phase, again, sections, failure>>

\* The registry, by priority; the sources no section is made for are left out.
Registry == <<"base_instructions", "agent_manual", "profile", "context", "context_index",
              "records", "thread_summary", "history">>
Guaranteed == {"base_instructions", "agent_manual", "profile", "context", "context_index"}

SumOf(f, S) == FoldFunctionOnSet(LAMBDA x, y : x + y, 0, f, S)
Total(seq) == FoldLeft(LAMBDA x, y : x + y, 0, seq)
Smaller(x, y) == IF x < y THEN x ELSE y

-----------------------------------------------------------------------------
\* The smallest recent history: one empty turn and the mark of an omission.
MinHistory == Words.head + Words.fragment + Words.notice

\* minimumContextBudgetTotal
MinTotal(b) == SumOf(b.ceiling, Guaranteed) + Words.input + b.reserve + Words.markup

\* createContextBudgetConfig takes a budget that leaves room for every guaranteed source.
Acceptable(b) ==
    /\ b.total > 0 /\ b.reserve <= b.total
    /\ \A id \in ToSet(Registry) : b.ceiling[id] <= b.total
    /\ b.documents > 0 /\ b.documentSize > 0 /\ b.records > 0 /\ b.recordSize > 0
    /\ b.turns > 0 /\ b.turnSize > 0
    /\ b.documentSize <= b.ceiling["context"]
    /\ b.recordSize <= b.ceiling["records"]
    /\ MinHistory <= b.ceiling["history"] /\ b.turnSize <= b.ceiling["history"]
    /\ MinTotal(b) <= b.total

\* The preset of the recovery.
Recovered(b) ==
    LET ceiling == [id \in ToSet(Registry) |->
            IF id \in {"records", "history", "context_index"}
            THEN Smaller(b.ceiling[id], Words.cut) ELSE b.ceiling[id]]
    IN  [b EXCEPT !.ceiling = ceiling,
                  !.records = Smaller(@, Words.fewer),
                  !.recordSize = Smaller(@, ceiling["records"]),
                  !.turns = Smaller(@, Words.fewer),
                  !.turnSize = Smaller(@, ceiling["history"])]

-----------------------------------------------------------------------------
\* The rendered section of the documents, with or without the notice of degradation.
Rendered(shown, truncated) ==
    Words.head + Total([i \in 1 .. Len(shown) |-> shown[i].size])
        + IF truncated THEN Words.notice ELSE 0

Shown(doc, form, size) == [doc |-> doc, form |-> form, size |-> size]
Full(doc) == Shown(doc, "full", Words.fragment + doc.size)
Reference(doc) == Shown(doc, "reference", Words.fragment + Words.marker)

\* UTF-8 takes at most four bytes a character.
FullAtLeast(doc) == Shown(doc, "full", Words.fragment + (doc.bytes + 3) \div 4)

\* Faulty form: the notice is not kept room for.
FitsWithoutNotice(shown, one) ==
    one.size <= budget.documentSize /\ Rendered(Append(shown, one), FALSE) <= budget.ceiling["context"]

Fits(shown, one) ==
    one.size <= budget.documentSize /\ Rendered(Append(shown, one), TRUE) <= budget.ceiling["context"]

\* The longest beginning of a document that fits with its mark, if one does.
Partial(doc) ==
    LET sizes == {n \in 1 .. doc.size - 1 :
                    Fits(documents, Shown(doc, "truncated", Words.fragment + n + Words.marker))}
    IN  IF sizes = {} THEN {} ELSE {Shown(doc, "truncated", Words.fragment + Max(sizes) + Words.marker)}

Source == tree
Current == left[1]
Core(doc) == doc.core
OnlyCore == \A i \in 1 .. Len(Source) : Source[i].core

Goes(shown, more, read) ==
    /\ documents' = documents \o shown
    /\ degraded' = degraded + more
    /\ reads' = reads + read
    /\ left' = Tail(left)
    /\ UNCHANGED <<budget, tree, thread, phase, again, sections, failure>>

Fails(why) ==
    /\ phase' = "failed" /\ failure' = why
    /\ UNCHANGED <<budget, tree, left, documents, degraded, reads, thread, again, sections>>

AsReference(doc) == IF Fits(documents, Reference(doc)) THEN <<Reference(doc)>> ELSE <<>>

Reading == phase = "reading" /\ left # <<>>
TooManyBytes(doc) == doc.bytes > Words.bytes

CoreTooLarge == Reading /\ Core(Current) /\ TooManyBytes(Current) /\ Fails("core document")

TooLarge ==
    /\ Reading /\ ~Core(Current) /\ TooManyBytes(Current)
    /\ Goes(AsReference(Current), 1, 0)

\* A core document is shown in full or the turn fails.
CoreRead ==
    /\ Reading /\ Core(Current) /\ ~TooManyBytes(Current)
    /\ IF Len(documents) < budget.documents /\ Current.kept
          /\ Full(Current).size <= budget.documentSize
          /\ Rendered(Append(documents, Full(Current)), ~OnlyCore) <= budget.ceiling["context"]
       THEN Goes(<<Full(Current)>>, 0, 1)
       ELSE Fails("core document")

Optional(doc) == ~Core(doc) /\ ~TooManyBytes(doc)

NoSlot ==
    /\ Reading /\ Optional(Current) /\ Len(documents) >= budget.documents
    /\ Goes(<<>>, 1, 0)

\* Not even the smallest text of these bytes fits, or enough bodies were read.
NotRead ==
    /\ Reading /\ Optional(Current) /\ Len(documents) < budget.documents
    /\ ~Fits(documents, FullAtLeast(Current)) \/ reads >= budget.documents
    /\ Goes(AsReference(Current), 1, 0)

Worthwhile ==
    /\ Reading /\ Optional(Current) /\ Len(documents) < budget.documents
    /\ Fits(documents, FullAtLeast(Current)) /\ reads < budget.documents

\* The version that was listed is gone when its body is read.
Disappears == Worthwhile /\ ~Current.kept /\ Fails("disappeared")

Read ==
    /\ Worthwhile /\ Current.kept
    /\ LET full == Full(Current)
           partial == IF full.size > budget.documentSize THEN Partial(Current) ELSE {}
       IN  IF Fits(documents, full) THEN Goes(<<full>>, 0, 1)
           ELSE IF partial # {} THEN Goes(SetToSeq(partial), 1, 1)
           ELSE Goes(AsReference(Current), 1, 1)

-----------------------------------------------------------------------------
\* The most detailed view of the tree that fits the ceiling of the index.
Views(sizes) == {i \in 1 .. 4 : sizes[i] <= budget.ceiling["context_index"]}

RenderedRecords(tasks, ideas, size, truncated) ==
    IF tasks + ideas = 0 /\ ~truncated THEN 0
    ELSE Words.head + (tasks + ideas) * size + IF truncated THEN Words.notice ELSE 0

\* A third of the room is the newest ideas'.
Reserved(n) == Max({1, n \div 3})
Allocated(tasks, ideas, limit) ==
    IF tasks = 0 THEN <<0, Smaller(ideas, limit)>>
    ELSE IF ideas = 0 THEN <<Smaller(tasks, limit), 0>>
    ELSE LET firstIdeas == Smaller(ideas, Reserved(limit))
             ofTasks == Smaller(tasks, limit - firstIdeas)
         IN  <<ofTasks, Smaller(ideas, limit - ofTasks)>>

\* The lowest priority goes first; of one task and one idea the task stays.
Trimmed(c) ==
    LET tasks == c[1]  ideas == c[2]
    IN  IF tasks = 0 THEN <<0, ideas - 1>>
        ELSE IF ideas = 0 THEN <<tasks - 1, 0>>
        ELSE IF ideas > 1 /\ ideas > Reserved(tasks + ideas - 1) THEN <<tasks, ideas - 1>>
        ELSE IF tasks > 1 THEN <<tasks - 1, ideas>>
        ELSE <<tasks, ideas - 1>>

\* What stays of the records, and whether the section says that some do not.
Records(list) ==
    LET size == Smaller(list.size, budget.recordSize)
        cut == list.tasks + list.ideas > budget.records \/ list.size > budget.recordSize
        room == Allocated(list.tasks, list.ideas, budget.records)
        fits(c, truncated) == RenderedRecords(c[1], c[2], size, truncated) <= budget.ceiling["records"]
        kept[n \in 0 .. room[1] + room[2]] == IF n = 0 THEN room ELSE Trimmed(kept[n - 1])
        enough == {n \in DOMAIN kept : fits(kept[n], TRUE)}
    IN  IF fits(room, cut) THEN [c |-> room, size |-> RenderedRecords(room[1], room[2], size, cut)]
        ELSE IF enough = {} THEN [c |-> <<0, 0>>, size |-> 0]
        ELSE LET c == kept[Min(enough)]
             IN  [c |-> c, size |-> RenderedRecords(c[1], c[2], size, TRUE)]

\* boundRecentHistory: the newest turns that fit, the newest cut short if it must be.
RenderedTurns(sizes, truncated) ==
    IF sizes = <<>> /\ ~truncated THEN 0
    ELSE Words.head + Total([i \in 1 .. Len(sizes) |-> Words.fragment + sizes[i]])
             + IF truncated THEN Words.notice ELSE 0

Newest(seq, n) == SubSeq(seq, Len(seq) - n + 1, Len(seq))

Clipped(sizes) == [i \in 1 .. Len(sizes) |-> Smaller(sizes[i], budget.turnSize)]

History(read) ==
    LET limit == budget.ceiling["history"]
        few == Newest(read.turns, Smaller(budget.turns, Len(read.turns)))
        clipped == Clipped(few)
        cut(n) == \/ read.truncated \/ Len(few) < Len(read.turns)
                  \/ Newest(clipped, n) # Newest(few, n)
        taken == {n \in 0 .. Len(few) :
                    \A m \in 1 .. n : RenderedTurns(Newest(clipped, m), cut(m)) <= limit}
        marked == {n \in 1 .. Max(taken) : RenderedTurns(Newest(clipped, n), TRUE) <= limit}
        short == Smaller(clipped[Len(few)], limit - MinHistory)
    IN  IF Max(taken) = Len(few)
        THEN [turns |-> clipped, truncated |-> cut(Len(few))]
        ELSE IF marked # {} THEN [turns |-> Newest(clipped, Max(marked)), truncated |-> TRUE]
        ELSE [turns |-> <<short>>, truncated |-> TRUE]

-----------------------------------------------------------------------------
\* Faulty form: a section that does not fit leaves room for the ones after it.
KeepsOn(omitted) == FALSE

\* After one omitted section every later one is.
StopsAt(omitted) == omitted # <<>>

\* applyContextBudget, over the sections by priority. The separator before every section but
\* the first is charged as well, beside the allowance for markup.
Selected(sizes, input) ==
    LET available == budget.total - budget.reserve - input - Words.markup
        cost(acc, id) == sizes[id] + IF acc.chosen = <<>> THEN 0 ELSE Words.separator
        put(acc, id) ==
            IF sizes[id] = 0 THEN acc
            ELSE IF StopsAt(acc.omitted) THEN [acc EXCEPT !.omitted = Append(@, id)]
            ELSE IF sizes[id] > budget.ceiling[id] THEN [acc EXCEPT !.failed = TRUE]
            ELSE IF acc.used + cost(acc, id) <= available
                 THEN [acc EXCEPT !.used = @ + cost(acc, id), !.chosen = Append(@, id)]
            ELSE IF id \in Guaranteed THEN [acc EXCEPT !.failed = TRUE]
            ELSE [acc EXCEPT !.omitted = Append(@, id)]
    IN  FoldLeft(put, [used |-> 0, chosen |-> <<>>, omitted |-> <<>>, failed |-> FALSE], Registry)

NoSections == [used |-> 0, chosen |-> <<>>, omitted |-> <<>>, failed |-> FALSE,
               available |-> 0, sizes |-> <<>>, read |-> <<>>]

Assemble ==
    /\ phase = "reading" /\ left = <<>>
    /\ \E sizes \in Folders, list \in Lists, other \in Others,
          read \in IF again THEN {thread} ELSE {[turns |-> t, truncated |-> FALSE] : t \in Threads} :
        LET view == Views(sizes)
            truncated == degraded > 0 \/ Min(view) > 1
            context == Rendered(documents, truncated)
            history == History(read)
            all == [id \in ToSet(Registry) |->
                CASE id = "context" -> context
                  [] id = "context_index" -> sizes[Min(view)]
                  [] id = "records" -> Records(list).size
                  [] id = "history" -> RenderedTurns(history.turns, history.truncated)
                  [] OTHER -> other[id]]
        IN  IF view = {} THEN Fails("index")
            ELSE IF context > budget.ceiling["context"] THEN Fails("projection")
            ELSE /\ sections' = Selected(all, other.input) @@
                        [available |-> budget.total - budget.reserve - other.input - Words.markup,
                         sizes |-> all, read |-> read.turns]
                 /\ thread' = history
                 /\ phase' = IF sections'.failed THEN "failed" ELSE "assembled"
                 /\ failure' = IF sections'.failed THEN "section" ELSE failure
                 /\ UNCHANGED <<budget, tree, left, documents, degraded, reads, again>>

\* The model refuses the request as too long: everything is built again, smaller.
Overflows ==
    /\ phase = "assembled" /\ ~again
    /\ again' = TRUE
    /\ budget' = Recovered(budget)
    /\ left' = tree /\ documents' = <<>> /\ degraded' = 0 /\ reads' = 0
    /\ phase' = "reading" /\ sections' = NoSections
    /\ UNCHANGED <<tree, thread, failure>>

Init ==
    /\ budget \in {b \in Budgets : Acceptable(b)}
    /\ tree \in Trees /\ left = tree
    /\ documents = <<>> /\ degraded = 0 /\ reads = 0
    /\ phase = "reading" /\ again = FALSE /\ sections = NoSections /\ failure = "none"
    /\ thread = [turns |-> <<>>, truncated |-> FALSE]

Next ==
    \/ CoreTooLarge \/ TooLarge \/ CoreRead \/ NoSlot \/ NotRead \/ Disappears \/ Read
    \/ Assemble \/ Overflows

Spec == Init /\ [][Next]_vars

-----------------------------------------------------------------------------
TypeOK ==
    /\ phase \in {"reading", "assembled", "failed"}
    /\ degraded \in 0 .. Len(tree) /\ reads \in 0 .. Len(tree)
    /\ \A i \in 1 .. Len(documents) : documents[i].form \in {"full", "truncated", "reference"}
    /\ failure \in {"none", "core document", "disappeared", "index", "projection", "section"}

\* What the model sees of the documents is honest: core documents are whole and
\* come first, and every document that is not whole is counted, so that the
\* notice says so; no more are shown, or read, than the budget has places for,
\* the references to documents of too many bytes aside (the projection's build).
DocumentsAreHonest ==
    /\ Cardinality({i \in DOMAIN documents : ~TooManyBytes(documents[i].doc)}) <= budget.documents
    /\ reads <= budget.documents
    /\ \A i, j \in 1 .. Len(documents) :
           /\ Core(documents[i].doc) => documents[i].form = "full"
           /\ Core(documents[j].doc) /\ i < j => Core(documents[i].doc)
    /\ phase # "failed" =>
           Len(tree) - Len(left) - degraded = Cardinality({i \in DOMAIN documents : documents[i].form = "full"})

\* A section never exceeds the ceiling of its source, and the request never the
\* budget, the separators included; what is left out are the last sections, never
\* a guaranteed one.  Guaranteed sections find no room only in a budget that has
\* less than their separators above the least one that is accepted: that one is
\* said to admit them all with the allowance for separators, which are charged
\* beside it.  Else room is missing only for core documents, for the smallest
\* index, or for the notice of a degraded index beside core documents alone (the
\* build's last check).
SectionsFit ==
    /\ failure = "section" =>
           budget.total < MinTotal(budget) + (Cardinality(Guaranteed) - 1) * Words.separator
    /\ failure = "projection" => OnlyCore /\ degraded = 0
    /\ phase = "assembled" =>
           /\ sections.used <= sections.available
           /\ \A id \in Guaranteed : sections.sizes[id] > 0 => id \in ToSet(sections.chosen)
           /\ \A id \in ToSet(sections.chosen) : sections.sizes[id] <= budget.ceiling[id]
           /\ sections.chosen \o sections.omitted = SelectSeq(Registry, LAMBDA id : sections.sizes[id] > 0)

\* The turns shown are the newest ones, as long as a turn may be, and one more
\* would not have fitted; only a single turn is cut further (boundRecentHistory).
HistoryIsNewest ==
    phase = "assembled" =>
        LET n == Len(thread.turns)
            clipped == Clipped(sections.read)
        IN  /\ \/ thread.turns = Newest(clipped, n)
               \/ n = 1 /\ thread.turns[1] < clipped[Len(clipped)]
            /\ n < Smaller(budget.turns, Len(clipped)) =>
                   RenderedTurns(Newest(clipped, n + 1), TRUE) > budget.ceiling["history"]

\* The recovery's budget is one the program accepts, and smaller in every source.
RecoveryIsSmaller ==
    \A b \in Budgets : Acceptable(b) =>
        /\ Acceptable(Recovered(b))
        /\ \A id \in ToSet(Registry) : Recovered(b).ceiling[id] <= b.ceiling[id]

ContextFits == DocumentsAreHonest /\ SectionsFit /\ HistoryIsNewest /\ RecoveryIsSmaller

=============================================================================
