------------------------------ MODULE Activities ------------------------------
(***************************************************************************)
(* What one employee reports as done.  The agent calls the transaction     *)
(* once or more in a turn, also at the same time; a call reads the recent  *)
(* activities, has a model decide, and writes each activity in one         *)
(* transaction that locks the rows it looks at.  In a retrospective the    *)
(* call is linked: it reserves the message first, and each part of a       *)
(* linked decision; a reservation without an outcome is never retried.     *)
(*                                                                         *)
(* The facets of an activity are one value.  wrote is a ghost: it says for *)
(* which message a call is linked, and the activities that carry what it   *)
(* was told to write.                                                      *)
(***************************************************************************)
EXTENDS Naturals, FiniteSets, Sequences

CONSTANTS
    Ids,        \* activities there may be, 1..n
    EarlierIds,      \* those of earlier turns are 1..EarlierIds
    Messages,   \* turns of the employee
    Calls,      \* calls served at one time
    Values,     \* facets
    MaxItems,   \* activities of one decision
    MaxTickets, \* bound: calls in all
    MaxFaults   \* bound: statements that fail, crashes, activities that grow old

VARIABLES
    activities, \* minutka_private.activities
    claims,     \* minutka_private.linked_activity_transactions
    calls,      \* calls being served
    tickets,    \* calls so far
    wrote,
    faults

activityVars == <<activities, claims, calls, tickets, wrote, faults>>

-----------------------------------------------------------------------------

Activity == [status : {"absent", "active", "superseded"}, revision : Nat,
             value : Values \cup {"none"}, last : Messages \cup {"none"},
             by : Ids \cup {0}, recent : BOOLEAN]
Absent == [status |-> "absent", revision |-> 0, value |-> "none", last |-> "none",
           by |-> 0, recent |-> FALSE]
Created(v) == [Absent EXCEPT !.status = "active", !.revision = 1, !.value = v, !.recent = TRUE]

Refs == [id : Ids, revision : Nat]
NoRef == [id |-> 0, revision |-> 0]
Ref(a) == [id |-> a, revision |-> activities[a].revision]
Is(ref) == activities[ref.id].status = "active" /\ activities[ref.id].revision = ref.revision

\* RecentOwnActivitiesService.read
Recent == {Ref(a) : a \in {b \in Ids : activities[b].status = "active" /\ activities[b].recent}}

\* A decision, or a part of a linked one.
Part == [kind : {"collect", "correct", "supersede"}, ref : Refs \cup {NoRef},
         other : Refs \cup {NoRef}, items : 0..MaxItems, value : Values \cup {"none"}]
Collect(n) == [kind |-> "collect", ref |-> NoRef, other |-> NoRef, items |-> n, value |-> "none"]
Correct(ref, v) == [Collect(0) EXCEPT !.kind = "correct", !.ref = ref, !.value = v]
Supersede(ref, other) == [Collect(0) EXCEPT !.kind = "supersede", !.ref = ref, !.other = other]

Statuses == {"none", "no_write", "failed", "completed", "partial", "outcome_unknown", "linked"}

\* unsure: the outcome, or one of its parts, is outcome_unknown.
Outcome == [status : Statuses, unsure : BOOLEAN, ids : SUBSET Ids, ticket : Nat]
NoOutcome == [status |-> "none", unsure |-> FALSE, ids |-> {}, ticket |-> 0]

\* Ordinal 0 is the message, 1 and 2 the parts of a linked decision.
Ordinals == 0..2
ClaimRow == [state : {"free", "reserved", "done"}, outcome : Outcome]
Free == [state |-> "free", outcome |-> NoOutcome]

Phases == {"idle", "claiming", "reading", "extracting", "reserving", "writing",
    "recording", "completing", "told"}
Call == [phase : Phases, message : Messages \cup {"none"}, linked : BOOLEAN, ticket : Nat,
         bound : Refs \cup {NoRef}, repair : BOOLEAN, candidates : SUBSET Refs,
         parts : Seq(Part), at : Ordinals, chained : BOOLEAN, saved : SUBSET Ids,
         outcome : Outcome]
Idle == [phase |-> "idle", message |-> "none", linked |-> FALSE, ticket |-> 0, bound |-> NoRef,
         repair |-> FALSE, candidates |-> {}, parts |-> <<>>, at |-> 0, chained |-> FALSE,
         saved |-> {}, outcome |-> NoOutcome]

Goes(c, call) == calls' = [calls EXCEPT ![c] = call]
At(c, phase) == Goes(c, [calls[c] EXCEPT !.phase = phase])
Is_(c, phase) == calls[c].phase = phase
Now(c) == calls[c].parts[calls[c].at]
Message(c) == calls[c].message
Key(c) == <<Message(c), calls[c].at>>

Init ==
    /\ activities = [a \in Ids |-> IF a <= EarlierIds THEN Created(CHOOSE v \in Values : TRUE) ELSE Absent]
    /\ claims = [k \in Messages \X Ordinals |-> Free]
    /\ calls = [c \in Calls |-> Idle]
    /\ tickets = 0 /\ faults = 0
    /\ wrote = [t \in 1..MaxTickets |-> [linked |-> "none", ids |-> {}]]

Fault == faults < MaxFaults /\ faults' = faults + 1

Ended(c, status, ids) == [status |-> status, unsure |-> status = "outcome_unknown", ids |-> ids,
                          ticket |-> calls[c].ticket]
Unknown(c) == Ended(c, "outcome_unknown", {})
Tell(c, outcome) == Goes(c, [Idle EXCEPT !.phase = "told", !.outcome = outcome])

\* process: the outcome of processUnlinked is told, or stored first when the call is linked.
Settles(c, outcome) ==
    IF calls[c].linked
    THEN Goes(c, [calls[c] EXCEPT !.phase = "completing", !.at = 0, !.outcome = outcome])
    ELSE Tell(c, outcome)

-----------------------------------------------------------------------------
(* Claims                                                                  *)

Start(c, m, linked) ==
    /\ calls[c].phase \in {"idle", "told"} /\ tickets < MaxTickets
    /\ tickets' = tickets + 1
    /\ wrote' = [wrote EXCEPT ![tickets'].linked = IF linked THEN m ELSE "none"]
    /\ Goes(c, [Idle EXCEPT !.phase = IF linked THEN "claiming" ELSE "reading",
                    !.message = m, !.linked = linked, !.ticket = tickets'])
    /\ UNCHANGED <<activities, claims, faults>>

\* Fault: a reservation without an outcome is taken over.
ClaimableAgain(k) == claims[k].state # "done"

\* ON CONFLICT DO NOTHING
Claimable(k) == claims[k].state = "free"

Reserved(k) == [claims EXCEPT ![k] = [Free EXCEPT !.state = "reserved"]]
Stored(k, outcome) == [claims EXCEPT ![k] = [state |-> "done", outcome |-> outcome]]
Existing(c, k) == IF claims[k].state = "done" THEN claims[k].outcome ELSE Unknown(c)

Claim(c) ==
    /\ Is_(c, "claiming")
    /\ IF Claimable(Key(c))
       THEN claims' = Reserved(Key(c)) /\ At(c, "reading")
       ELSE Tell(c, Existing(c, Key(c))) /\ UNCHANGED claims
    /\ UNCHANGED <<activities, tickets, wrote, faults>>

-----------------------------------------------------------------------------
(* The decision                                                            *)

\* readEpisodes, whose pending question may be about an activity at a revision it has had, and
\* the recent candidates of a repair.
Read(c, repair) ==
    /\ Is_(c, "reading")
    /\ LET reads == [calls[c] EXCEPT !.phase = "extracting", !.repair = repair,
                         !.candidates = IF repair THEN Recent ELSE {}]
       IN  \/ Goes(c, reads)
           \/ /\ calls[c].linked
              /\ \E a \in Ids : \E n \in 1..activities[a].revision :
                    Goes(c, [reads EXCEPT !.bound = [id |-> a, revision |-> n]])
           \/ Settles(c, Ended(c, "failed", {}))
    /\ UNCHANGED <<activities, claims, tickets, wrote, faults>>

\* decisionFitsExtractorInput and the checks of processLinked
Decisions(c) ==
    LET call == calls[c]
        targets == IF call.bound # NoRef THEN {call.bound} ELSE call.candidates
    IN  {Collect(n) : n \in IF call.repair THEN {} ELSE 1..MaxItems}
        \cup {Correct(ref, v) : ref \in targets, v \in Values}
        \cup {Supersede(p[1], p[2]) : p \in {q \in call.candidates \X call.candidates : q[1] # q[2]}}

Decide(c) ==
    /\ Is_(c, "extracting")
    /\ \/ \E part \in Decisions(c) :
              Goes(c, [calls[c] EXCEPT !.phase = "writing", !.parts = <<part>>, !.at = 1])
       \/ /\ calls[c].bound # NoRef
          /\ \E v \in Values, n \in 0..MaxItems :
                Goes(c, [calls[c] EXCEPT !.phase = "reserving", !.at = 1, !.chained = TRUE,
                    !.parts = IF n = 0 THEN <<Correct(calls[c].bound, v)>>
                              ELSE <<Correct(calls[c].bound, v), Collect(n)>>])
       \/ \E status \in {"no_write", "failed"} : Settles(c, Ended(c, status, {}))
    /\ UNCHANGED <<activities, claims, tickets, wrote, faults>>

-----------------------------------------------------------------------------
(* Writing                                                                 *)

\* A part has ended: parts of a linked decision are stored one by one.
PartEnds(c, outcome) ==
    IF calls[c].chained
    THEN Goes(c, [calls[c] EXCEPT !.phase = "recording", !.saved = {},
             !.outcome = [status |-> "linked", unsure |-> @.unsure \/ outcome.unsure,
                          ids |-> @.ids \cup outcome.ids, ticket |-> outcome.ticket]])
    ELSE Settles(c, outcome)

\* The loop over the parts; only the holder of ordinal 0 gets here, so the key is free.
Reserve(c) ==
    /\ Is_(c, "reserving") /\ Claimable(Key(c))
    /\ claims' = Reserved(Key(c)) /\ At(c, "writing")
    /\ UNCHANGED <<activities, tickets, wrote, faults>>

Wrote(c, a) == wrote' = [wrote EXCEPT ![calls[c].ticket].ids = @ \cup {a}]

Corrects(part) == Is(part.ref)
Corrected(m, part) == [activities EXCEPT ![part.ref.id].revision = @ + 1,
                           ![part.ref.id].value = part.value, ![part.ref.id].last = m]

\* Fault: the replacement may be anything that is there.
SupersedesBlindly(part) == Is(part.ref)

\* Fault: the activity that replaces it is not named.
SupersededByNone(m, part) == [activities EXCEPT ![part.ref.id].status = "superseded",
                                  ![part.ref.id].revision = @ + 1, ![part.ref.id].last = m]

\* requireActiveRevision of both, under the locks of both rows
Supersedes(part) == Is(part.ref) /\ Is(part.other) /\ activities[part.other.id].recent
Superseded(m, part) == [activities EXCEPT ![part.ref.id].status = "superseded",
                            ![part.ref.id].revision = @ + 1, ![part.ref.id].last = m,
                            ![part.ref.id].by = part.other.id]

Applies(part) == IF part.kind = "correct" THEN Corrects(part) ELSE Supersedes(part)
Applied(m, part) == IF part.kind = "correct" THEN Corrected(m, part) ELSE Superseded(m, part)

\* isCorrectionReplay, isSupersessionReplay
Replays(m, part) ==
    LET row == activities[part.ref.id] IN
    /\ row.last = m /\ row.revision = part.ref.revision + 1
    /\ IF part.kind = "correct" THEN row.status = "active" /\ row.value = part.value
                                ELSE row.status = "superseded" /\ row.by = part.other.id

\* correctRecentActivity, supersedeRecentActivity
Mutate(c) ==
    LET part == Now(c)
        id == part.ref.id
        inWindow == activities[id].recent
    IN  /\ Is_(c, "writing") /\ part.kind # "collect"
        /\ \/ /\ inWindow /\ Replays(Message(c), part)
              /\ Wrote(c, id) /\ PartEnds(c, Ended(c, "completed", {id}))
              /\ UNCHANGED activities
           \/ /\ inWindow /\ ~Replays(Message(c), part) /\ Applies(part)
              /\ activities' = Applied(Message(c), part)
              /\ Wrote(c, id) /\ PartEnds(c, Ended(c, "completed", {id}))
           \/ /\ inWindow => ~Replays(Message(c), part) /\ ~Applies(part)
              /\ PartEnds(c, Ended(c, "failed", {}))
              /\ UNCHANGED <<activities, wrote>>
        /\ UNCHANGED <<claims, tickets, faults>>

\* randomUUID: an id no activity has.
IsNew(a) == activities[a].status = "absent" /\ \A b \in 1..a - 1 : activities[b].status # "absent"

\* collect: saveActivity of the next item; an unknown COMMIT may be proved by reading it back.
SaveItem(c, a, v) ==
    LET saved == calls[c].saved \cup {a} IN
    /\ Is_(c, "writing") /\ Now(c).kind = "collect" /\ IsNew(a)
    /\ activities' = [activities EXCEPT ![a] = Created(v)]
    /\ Wrote(c, a)
    /\ IF Cardinality(saved) = Now(c).items THEN PartEnds(c, Ended(c, "completed", saved))
       ELSE Goes(c, [calls[c] EXCEPT !.saved = saved])
    /\ UNCHANGED <<claims, tickets, faults>>

\* collectBatch, collectionResult: what was saved before an error is told.
Failed(c) == Ended(c, IF calls[c].saved = {} THEN "failed" ELSE "partial", calls[c].saved)

\* A statement, or the read of a repair, fails before COMMIT.
WriteFails(c) ==
    /\ Is_(c, "writing") /\ Fault
    /\ PartEnds(c, Failed(c))
    /\ UNCHANGED <<activities, claims, tickets, wrote>>

\* Fault: an unknown outcome ends a batch like any error.
UnsureAsFailed(c) == Failed(c)

Unsure(c) == Unknown(c)

\* The connection is lost at COMMIT, and reading back shows nothing.
WriteUncertain(c) ==
    /\ Is_(c, "writing") /\ Fault
    /\ \/ UNCHANGED <<activities, wrote>>
       \/ /\ Now(c).kind = "collect"
          /\ \E a \in Ids, v \in Values :
                /\ IsNew(a)
                /\ activities' = [activities EXCEPT ![a] = Created(v)] /\ Wrote(c, a)
       \/ /\ Now(c).kind # "collect" /\ activities[Now(c).ref.id].recent /\ Applies(Now(c))
          /\ activities' = Applied(Message(c), Now(c)) /\ Wrote(c, Now(c).ref.id)
    /\ PartEnds(c, Unsure(c))
    /\ UNCHANGED <<claims, tickets>>

-----------------------------------------------------------------------------
(* Storing outcomes                                                        *)

\* complete of a part, and the next part.
Record(c) ==
    /\ Is_(c, "recording")
    /\ claims' = Stored(Key(c), calls[c].outcome)
    /\ IF calls[c].at < Len(calls[c].parts)
       THEN Goes(c, [calls[c] EXCEPT !.phase = "reserving", !.at = @ + 1])
       ELSE Settles(c, calls[c].outcome)
    /\ UNCHANGED <<activities, tickets, wrote, faults>>

\* complete of the message
Complete(c) ==
    /\ Is_(c, "completing")
    /\ claims' = Stored(Key(c), calls[c].outcome)
    /\ Tell(c, calls[c].outcome)
    /\ UNCHANGED <<activities, tickets, wrote, faults>>

\* A claim or a complete throws, its write done or not: catch of processLinked.
LedgerFails(c) ==
    /\ calls[c].phase \in {"claiming", "reading", "reserving", "recording", "completing"}
    /\ calls[c].linked /\ Fault
    /\ \/ UNCHANGED claims
       \/ calls[c].phase \in {"claiming", "reserving"} /\ Claimable(Key(c)) /\ claims' = Reserved(Key(c))
       \/ calls[c].phase \in {"recording", "completing"} /\ claims' = Stored(Key(c), calls[c].outcome)
    /\ Tell(c, Unknown(c))
    /\ UNCHANGED <<activities, tickets, wrote>>

\* The process dies; a reservation it holds stays.
Crash(c) ==
    /\ calls[c].phase \notin {"idle", "told"} /\ Fault
    /\ Goes(c, Idle)
    /\ UNCHANGED <<activities, claims, tickets, wrote>>

\* An activity of an earlier turn leaves the window of recent ones.
Ages(a) ==
    /\ a <= EarlierIds /\ activities[a].recent /\ Fault
    /\ activities' = [activities EXCEPT ![a].recent = FALSE]
    /\ UNCHANGED <<claims, calls, tickets, wrote>>

Next ==
    \/ \E c \in Calls, m \in Messages, linked \in BOOLEAN : Start(c, m, linked)
    \/ \E c \in Calls :
          \/ Claim(c) \/ Decide(c)
          \/ Reserve(c) \/ Mutate(c) \/ WriteFails(c) \/ WriteUncertain(c)
          \/ Record(c) \/ Complete(c) \/ LedgerFails(c) \/ Crash(c)
    \/ \E c \in Calls, repair \in BOOLEAN : Read(c, repair)
    \/ \E c \in Calls, a \in Ids, v \in Values : SaveItem(c, a, v)
    \/ \E a \in Ids : Ages(a)

Spec == Init /\ [][Next]_activityVars

-----------------------------------------------------------------------------

\* The constraints of the table (0074_add_activity_corrections.sql:15) are part of the type.
TypeOK ==
    /\ activities \in [Ids -> Activity]
    /\ \A a \in Ids : activities[a].status = "superseded" <=> activities[a].by # 0
    /\ \A a \in Ids : activities[a].by # 0 => activities[activities[a].by].status # "absent"
    /\ claims \in [Messages \X Ordinals -> ClaimRow]
    /\ calls \in [Calls -> Call]
    /\ tickets \in 0..MaxTickets /\ faults \in 0..MaxFaults
    /\ wrote \in [1..MaxTickets -> [linked : Messages \cup {"none"}, ids : SUBSET Ids]]

\* What the agent is told of a call, now or by a stored outcome later, is what was written:
\* no activity is saved behind a "failed" or beyond the ids named, unless the outcome is unknown.
ToldIsTrue ==
    \A o \in {calls[c].outcome : c \in {d \in Calls : calls[d].phase = "told"}}
             \cup {claims[<<m, 0>>].outcome : m \in {n \in Messages : claims[<<n, 0>>].state = "done"}} :
        o.unsure \/ o.ids = wrote[o.ticket].ids

\* However often a linked call is made for a message, fails or dies, one of them writes.
LinkedOnce ==
    \A m \in Messages : Cardinality({t \in 1..MaxTickets : wrote[t].linked = m /\ wrote[t].ids # {}}) <= 1

\* Activities that replace each other leave one that counts: no circle of them is superseded.
WorkIsNotLost ==
    \A S \in (SUBSET Ids) \ {{}} : \E a \in S :
        activities[a].status # "superseded" \/ activities[a].by \notin S

=============================================================================
