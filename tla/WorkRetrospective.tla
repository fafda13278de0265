-------------------------- MODULE WorkRetrospective --------------------------
(***************************************************************************)
(* The questions of the work retrospective in one employee's thread.       *)
(* Turns of the employee and of the scheduler stage events while the model *)
(* answers; the events are checked against the ledger and appended with    *)
(* the turn, and a receipt is appended after the answer was sent.  What    *)
(* the episodes are is always computed from the ledger.                    *)
(*                                                                         *)
(* A chat refuses an employee's message while it is busy with another, and *)
(* the scheduler runs one process at a time: one turn of each origin.      *)
(* Statements, consent to follow up and references to activities only      *)
(* count as one "updated".  The days are of one week.                      *)
(*                                                                         *)
(* Ghosts: an append took the revision of an episode back (rewound), and,  *)
(* while none had, a turn was accepted over one it had not read (blind).   *)
(***************************************************************************)
EXTENDS Naturals, Sequences, FiniteSets, FiniteSetsExt

CONSTANTS
    Wishes,                   \* what the model may ask of retrospective.update
    DailyLimit, WeeklyLimit,  \* questions delivered
    LastDay,                  \* the last local day of the group's cycle
    MaxDay, MaxFaults,        \* bounds: days, messages and receipts that fail,
    MaxEmployee, MaxScheduled \* and turns of each origin

VARIABLES
    ledger,    \* events in the order of their timestamps
    episodes,  \* what the ledger makes of them, computed anew by every reader
    turns,     \* the turn of each origin
    begun,     \* turns begun, of each origin
    now, day,  \* the clock and the local date
    faults, rewound, blind

retroVars == <<ledger, episodes, turns, begun, now, day, faults, rewound, blind>>

-----------------------------------------------------------------------------

Origins == {"employee", "scheduled"}
MostTurns == [employee |-> MaxEmployee, scheduled |-> MaxScheduled]
Ids == 1..(MaxEmployee + MaxScheduled)
Reasons == {"answered", "topic_changed", "declined"}

\* Questions, episodes and sessions have the id of the turn they come from.
Wish == [note : BOOLEAN, close : Reasons \cup {"none"}, weekly : {"none", "yes", "no"}, ask : BOOLEAN]

Session == [id : Ids \cup {0}, day : Nat, count : Nat, closed : BOOLEAN]
NoSession == [id |-> 0, day |-> 0, count |-> 0, closed |-> FALSE]

Episode == [status : {"none", "active", "paused", "declined"}, revision : Nat,
            pending : Ids \cup {0}, day : Nat, count : Nat, session : Session]
NoEpisode == [status |-> "none", revision |-> 0, pending |-> 0, day |-> 0, count |-> 0,
              session |-> NoSession]

Event == [kind : Reasons \cup {"selected", "updated", "asked", "new_day", "stopped", "weekly_started",
                               "weekly_closed", "delivered", "failed"},
          stamp : Nat, day : Nat, source : Ids, episode : Ids, revision : Nat,
          question : Ids \cup {0}, session : Ids \cup {0}, copy : Episode]

Turn == [phase : {"idle", "began", "open", "checked", "sent", "recording"},
         id : Ids \cup {0}, stamp : Nat, day : Nat, keep : BOOLEAN, episode : Ids \cup {0},
         read : Episode, held : BOOLEAN, events : Seq(Event), known : SUBSET Ids, asked : BOOLEAN]
NoTurn == [phase |-> "idle", id |-> 0, stamp |-> 0, day |-> 0, keep |-> FALSE, episode |-> 0,
           read |-> NoEpisode, held |-> FALSE, events |-> << >>, known |-> {}, asked |-> FALSE]

-----------------------------------------------------------------------------
(* The episodes a ledger makes.                                            *)

There(es, i) == es[i].status # "none"

\* The counts of the day start again, and the questions of another day are dropped.
OnDay(es, d) ==
    [i \in Ids |-> IF There(es, i) /\ es[i].day # d
                   THEN [es[i] EXCEPT !.day = d, !.count = 0, !.pending = 0] ELSE es[i]]

ActiveSession(e, d) == e.session.id # 0 /\ ~e.session.closed /\ e.session.day = d

\* A faulty form, which does not begin a day with a receipt.
CountedBefore(es, v) == [es EXCEPT ![v.episode].count = @ + 1]
Counted(es, v) ==
    LET today == OnDay(es, v.day)
        in == {i \in Ids : ActiveSession(today[i], v.day) /\ today[i].session.id = v.session}
    IN  IF in # {} THEN [today EXCEPT ![Min(in)].session.count = @ + 1]
                   ELSE [today EXCEPT ![v.episode].count = @ + 1]

Effect(es, v) ==
    LET e == v.episode
        closing == IF es[e].pending = v.question THEN 0 ELSE es[e].pending
    IN  CASE v.kind \in {"answered", "stopped"} -> [es EXCEPT ![e].pending = closing]
          [] v.kind = "topic_changed" -> [es EXCEPT ![e].pending = closing, ![e].status = "paused"]
          [] v.kind = "declined"      -> [es EXCEPT ![e].pending = closing, ![e].status = "declined"]
          [] v.kind = "new_day"       ->
                [OnDay(es, v.day) EXCEPT ![e].pending = IF @ = v.question THEN 0 ELSE @]
          [] v.kind = "asked"         ->
                [i \in Ids |-> IF i = e THEN [es[i] EXCEPT !.pending = v.question]
                               ELSE IF es[i].status = "active"
                                    THEN [es[i] EXCEPT !.pending = 0, !.status = "paused"]
                                    ELSE [es[i] EXCEPT !.pending = 0]]
          [] v.kind = "weekly_started" ->
                [es EXCEPT ![e].session = [id |-> v.session, day |-> v.day, count |-> 0, closed |-> FALSE]]
          [] v.kind = "weekly_closed" ->
                [i \in Ids |-> [es[i] EXCEPT !.session.closed = @ \/ es[i].session.id # 0,
                                             !.pending = IF i = e THEN 0 ELSE @]]
          [] v.kind = "delivered"     -> Counted(es, v)
          [] OTHER                    -> es

\* Selections and updates hold a copy of the episode, whose budget and pending question count only
\* when the ledger has no earlier ones.  Other events of an unknown episode are passed over.
Applied(es, v) ==
    LET before == IF v.kind \notin {"selected", "updated"} THEN es
                  ELSE IF There(es, v.episode) THEN [es EXCEPT ![v.episode].status = v.copy.status]
                  ELSE [es EXCEPT ![v.episode] = v.copy]
    IN  IF ~There(before, v.episode) THEN es
        ELSE [Effect(before, v) EXCEPT ![v.episode].revision = v.revision + 1,
                                       ![v.episode].pending = IF v.day > LastDay THEN 0 ELSE @]

Projected(events) ==
    LET after[n \in 0..Len(events)] ==
            IF n = 0 THEN [i \in Ids |-> NoEpisode] ELSE Applied(after[n - 1], events[n])
    IN  after[Len(events)]

\* The ledger orders events by timestamp, whenever they are appended.
Earlier(e) == Cardinality({n \in DOMAIN ledger : ledger[n].stamp <= e.stamp})
Merged(events) ==
    LET n == Earlier(events[1])
    IN  SubSeq(ledger, 1, n) \o events \o SubSeq(ledger, n + 1, Len(ledger))

Rewinds(events) ==
    LET e == events[1].episode
    IN  episodes'[e].revision # episodes[e].revision + Len(events)

Init ==
    /\ ledger = << >> /\ episodes = Projected(<< >>)
    /\ turns = [o \in Origins |-> NoTurn]
    /\ begun = [o \in Origins |-> 0]
    /\ now = 1 /\ day = 1
    /\ faults = 0 /\ rewound = FALSE /\ blind = FALSE

-----------------------------------------------------------------------------
(* A turn begins: its timestamp; before it, for a process, the touch       *)
(* policy reads whether a question is pending.                             *)

\* The episode a reader continues: of the active ones, the latest selected.
Active(es) == {i \in Ids : es[i].status = "active"}
Continued(es) == IF Active(es) = {} THEN 0 ELSE Max(Active(es))

PendingNow(es) == Continued(es) # 0 /\ es[Continued(es)].pending # 0

Set(o, t) == turns' = [turns EXCEPT ![o] = t]

Begin(o) ==
    /\ turns[o].phase = "idle" /\ begun[o] < MostTurns[o]
    /\ begun' = [begun EXCEPT ![o] = @ + 1]
    /\ now' = now + 1
    /\ Set(o, [NoTurn EXCEPT !.phase = "began", !.id = begun["employee"] + begun["scheduled"] + 1, !.stamp = now, !.day = day,
                             !.keep = o = "scheduled" /\ PendingNow(episodes)])
    /\ UNCHANGED <<ledger, episodes, day, faults, rewound, blind>>

\* Events continue the revision the turn read.
Staged(t, kinds) ==
    LET e == IF t.episode = 0 THEN t.id ELSE t.episode
        copy == IF t.episode = 0 THEN [NoEpisode EXCEPT !.status = "active", !.day = t.day] ELSE t.read
    IN  [n \in DOMAIN kinds |->
            [kind |-> kinds[n], stamp |-> t.stamp, day |-> t.day, source |-> t.id, episode |-> e,
             revision |-> t.read.revision + Len(t.events) + n - 1,
             question |-> IF kinds[n] = "asked" THEN t.id ELSE t.read.pending,
             session |-> IF kinds[n] = "weekly_started" THEN t.id ELSE 0,
             copy |-> IF kinds[n] \in {"selected", "updated"} THEN copy ELSE NoEpisode]]

\* A question of another day, or of a cycle that ended, is closed before anything else.
Boundary(t) ==
    CASE t.episode = 0 -> << >>
      [] t.day > LastDay -> IF t.read.pending # 0 THEN <<"stopped">> ELSE << >>
      [] OTHER -> IF t.read.day # t.day THEN <<"new_day">> ELSE << >>

SourcesOf(e) == {ledger[n].source : n \in {k \in DOMAIN ledger :
                    ledger[k].episode = e /\ ledger[k].kind \notin {"delivered", "failed"}}}

Read(o) ==
    LET es == episodes
        c == Continued(es)
        t == [turns[o] EXCEPT !.phase = "open", !.episode = c, !.known = SourcesOf(c),
                              !.read = IF c = 0 THEN NoEpisode ELSE es[c],
                              !.held = \E i \in Ids : es[i].session.id # 0]
    IN  /\ turns[o].phase = "began"
        /\ Set(o, [t EXCEPT !.events = Staged(t, Boundary(t))])
        /\ UNCHANGED <<ledger, episodes, begun, now, day, faults, rewound, blind>>

-----------------------------------------------------------------------------
(* retrospective.update                                                    *)

Enabled(t) == t.day <= LastDay

\* A scheduled invitation cannot replace a question the employee has not answered.
Forbidden(o, t, w) ==
    \/ ~Enabled(t)
    \/ w.weekly # "none" /\ o # "employee"
    \/ w.weekly = "yes" /\ t.held
    \/ t.keep /\ t.read.pending # 0 /\ (w.ask \/ w.close # "none")

If(p, kind) == IF p THEN <<kind>> ELSE << >>

Kinds(t, w) ==
    LET ends == w.weekly = "no" \/ w.close = "declined"
    IN  If(t.episode = 0, "selected") \o If(w.note, "updated")
        \o If(w.close # "none" /\ t.read.pending # 0, w.close)
        \o If(w.weekly = "yes", "weekly_started") \o If(ends, "weekly_closed")
        \o If(w.ask /\ ~ends, "asked")

\* The kinds of event a turn may stage; it uses nothing but what it has read.
Updates(o) == {<< >>} \cup {Kinds(turns[o], w) : w \in {v \in Wishes : ~Forbidden(o, turns[o], v)}}

With(o, kinds) ==
    [turns[o] EXCEPT !.events = @ \o Staged(turns[o], kinds),
                     !.asked = \E n \in DOMAIN kinds : kinds[n] = "asked"]

-----------------------------------------------------------------------------
(* The turn is saved: writers of the store wait for each other, receipts   *)
(* do not.                                                                 *)

DeliveredBy(es, e) ==
    LET weekly == {i \in Ids : es[i].session.id # 0 /\ es[i].session.day = e.day}
        sessions == {es[i].session.id : i \in weekly}
        total == [i \in Ids |-> IF weekly # {}
                    THEN IF es[i].session.id \in sessions THEN es[i].session.count ELSE 0
                    ELSE IF There(es, i) /\ es[i].day = e.day THEN es[i].count ELSE 0]
    IN  MapThenSumSet(LAMBDA i : total[i], Ids)

MayAsk(es, e, d) ==
    LET weekly == {i \in Ids : es[i].session.id # 0 /\ es[i].session.day = e.day}
    IN  /\ \A i \in weekly : ~es[i].session.closed
        /\ d <= LastDay /\ e.pending = 0 /\ e.status = "active"
        /\ DeliveredBy(es, e) < (IF weekly # {} THEN WeeklyLimit ELSE DailyLimit)

Allowed(es, v) ==
    /\ IF v.kind = "selected" THEN ~There(es, v.episode) ELSE There(es, v.episode)
    /\ v.kind = "weekly_started" => \A i \in Ids : es[i].session.id = 0
    /\ v.kind = "asked" => MayAsk(es, es[v.episode], v.day)

\* A faulty form: a turn may be late.
AtRevisionOrLater(t) == episodes[t.events[1].episode].revision >= t.events[1].revision
AtRevision(t) == episodes[t.events[1].episode].revision = t.events[1].revision

Valid(t) ==
    LET before[n \in DOMAIN t.events] ==
            IF n = 1 THEN episodes ELSE Applied(before[n - 1], t.events[n - 1])
    IN  AtRevision(t) /\ \A n \in DOMAIN t.events : Allowed(before[n], t.events[n])

Saving(o) == turns[o].phase = "open" /\ \A p \in Origins : turns[p].phase # "checked"

\* Neither invalid events are kept nor a question the answer does not contain: the turn is saved
\* without them, and says so instead of asking.
Refuse(o, kinds) ==
    LET t == With(o, kinds)
    IN  /\ Saving(o) /\ t.events # << >>
        /\ t.asked \/ ~Valid(t)
        /\ Set(o, NoTurn)
        /\ UNCHANGED <<ledger, episodes, begun, now, day, faults, rewound, blind>>

Check(o, kinds) ==
    LET t == With(o, kinds)
    IN  /\ Saving(o) /\ t.events # << >>
        /\ Valid(t)
        /\ Set(o, [t EXCEPT !.phase = "checked"])
        /\ UNCHANGED <<ledger, episodes, begun, now, day, faults, rewound, blind>>

Sent(t) == [NoTurn EXCEPT !.phase = "sent", !.id = t.id, !.episode = t.events[1].episode]

AppendTurn(o) ==
    LET t == turns[o]
    IN  /\ t.phase = "checked"
        /\ ledger' = Merged(t.events)
        /\ episodes' = Projected(ledger')
        /\ rewound' = (rewound \/ Rewinds(t.events))
        /\ blind' = (blind \/ (~rewound /\ ~(SourcesOf(t.events[1].episode) \subseteq t.known)))
        /\ Set(o, IF t.asked THEN Sent(t) ELSE NoTurn)
        /\ UNCHANGED <<begun, now, day, faults>>

NothingToSave(o) ==
    /\ turns[o].phase = "open" /\ turns[o].events = << >>
    /\ Set(o, NoTurn)
    /\ UNCHANGED <<ledger, episodes, begun, now, day, faults, rewound, blind>>

-----------------------------------------------------------------------------
(* The answer is sent and the receipt recorded.                            *)

\* The turn is not appended, the answer not sent, or the receipt not recorded.
Fails(o) ==
    /\ turns[o].phase \in {"checked", "sent", "recording"} /\ faults < MaxFaults
    /\ faults' = faults + 1
    /\ Set(o, NoTurn)
    /\ UNCHANGED <<ledger, episodes, begun, now, day, rewound, blind>>

\* The session is the one there was when the question was generated.
SessionThen(t) ==
    LET asked == CHOOSE n \in DOMAIN ledger : ledger[n].kind = "asked" /\ ledger[n].source = t.id
        es == Projected(SubSeq(ledger, 1, asked))
        open == {i \in Ids : ActiveSession(es[i], day)}
    IN  IF open = {} THEN 0 ELSE es[Min(open)].session.id

Receipt(t, status) ==
    [kind |-> status, stamp |-> now, day |-> day, source |-> t.id, episode |-> t.episode,
     revision |-> episodes[t.episode].revision, question |-> t.id, session |-> SessionThen(t),
     copy |-> NoEpisode]

ReadReceipt(o, status) ==
    /\ turns[o].phase = "sent" /\ \A p \in Origins : turns[p].phase # "recording"
    /\ status = "failed" => faults < MaxFaults
    /\ faults' = IF status = "failed" THEN faults + 1 ELSE faults
    /\ now' = now + 1
    /\ Set(o, [turns[o] EXCEPT !.phase = "recording", !.events = <<Receipt(turns[o], status)>>])
    /\ UNCHANGED <<ledger, episodes, begun, day, rewound, blind>>

\* No revision is compared here.
AppendReceipt(o) ==
    /\ turns[o].phase = "recording"
    /\ ledger' = Merged(turns[o].events)
    /\ episodes' = Projected(ledger')
    /\ rewound' = (rewound \/ Rewinds(turns[o].events))
    /\ Set(o, NoTurn)
    /\ UNCHANGED <<begun, now, day, faults, blind>>

NextDay ==
    /\ day < MaxDay
    /\ day' = day + 1
    /\ UNCHANGED <<ledger, episodes, turns, begun, now, faults, rewound, blind>>

Next ==
    \/ \E o \in Origins : Begin(o) \/ Read(o) \/ AppendTurn(o) \/ NothingToSave(o)
    \/ \E o \in Origins : \E kinds \in Updates(o) : Refuse(o, kinds) \/ Check(o, kinds)
    \/ \E o \in Origins, s \in {"delivered", "failed"} : ReadReceipt(o, s)
    \/ \E o \in Origins : Fails(o) \/ AppendReceipt(o)
    \/ NextDay

Spec == Init /\ [][Next]_retroVars

-----------------------------------------------------------------------------

TypeOK ==
    /\ ledger \in Seq(Event)
    /\ turns \in [Origins -> Turn]
    /\ episodes \in [Ids -> Episode]

\* The projection table admits one pending question per thread.
OnePending == Cardinality({i \in Ids : episodes[i].pending # 0}) <= 1

\* The budget of a day is what was delivered on it: receipts are neither forgotten nor counted twice,
\* whatever day and session they are recorded in.
BudgetIsReceipts ==
    LET es == episodes
        today == Max({es[i].day : i \in Ids})
        of(i) == (IF es[i].day = today THEN es[i].count ELSE 0)
                 + (IF es[i].session.day = today THEN es[i].session.count ELSE 0)
    IN  MapThenSumSet(of, Ids)
          = Cardinality({n \in DOMAIN ledger : ledger[n].kind = "delivered" /\ ledger[n].day = today})

\* A budget is overrun by no more than the one question of the other origin that was on its way.
OverrunIsOne ==
    LET es == episodes
    IN  /\ \A d \in 1..MaxDay :
            MapThenSumSet(LAMBDA i : IF es[i].day = d THEN es[i].count ELSE 0, Ids) <= DailyLimit + 1
        /\ \A i \in Ids : es[i].session.count <= WeeklyLimit + 1

\* A turn that began before another selected its episode, and read the ledger after, sorts before the
\* selection: the copy it holds then starts the episode, and its counts are counted again.
Headless == \E m, n \in DOMAIN ledger :
    m < n /\ ledger[n].kind = "selected" /\ ledger[m].episode = ledger[n].episode

QuestionsAreBudgeted == OnePending /\ (Headless \/ (BudgetIsReceipts /\ OverrunIsOne))

\* The revision of an episode keeps a turn from being accepted over another it has not read, as
\* long as the revision only grows: a receipt compares none, and an event may sort before events
\* that were appended earlier.
TurnsSeeEachOther == ~blind

=============================================================================
