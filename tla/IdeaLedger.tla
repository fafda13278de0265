------------------------------ MODULE IdeaLedger ------------------------------
(***************************************************************************)
(* What the confirmations of idea deletions promise, as the in-memory      *)
(* stores of the executable specs do it: every decision is one step under  *)
(* the lock of its confirmation.  A decision is made once, within the time *)
(* its proposal lives, by the instant its request captured; a confirmation *)
(* deletes the idea exactly when the idea still is what was proposed.      *)
(***************************************************************************)
EXTENDS Naturals

CONSTANTS
    Ideas,       \* ids of ideas
    Proposals,   \* opaque confirmation ids
    Ttl,         \* ideaDeletionConfirmationTtlMilliseconds
    UndoWindow,  \* ideaDeletionUndoWindowMilliseconds
    Retention,   \* completedReplayRetentionMilliseconds; purge() wants more than Ttl
    MaxTime,     \* bound: the clock stops here
    MaxRevision  \* bound: revisions of ideas

VARIABLES
    now,      \* the clock
    ideas,    \* the ideas of one owner
    records   \* the confirmations of that owner

vars == <<now, ideas, records>>

-----------------------------------------------------------------------------

Idea == [state: {"absent", "live", "deleted"}, revision: 0..MaxRevision, undoUntil: Nat]
NoIdea == [state |-> "absent", revision |-> 0, undoUntil |-> 0]

\* "missed": conflict, already deleted or not found.
Record == [state: {"none", "pending", "confirmed", "rejected", "purged"},
           idea: Ideas, expected: Nat, created: Nat, completed: Nat,
           outcome: {"none", "deleted", "missed"}]

Init ==
    /\ now = 0
    /\ ideas = [i \in Ideas |-> NoIdea]
    /\ records \in [Proposals -> {[state |-> "none", idea |-> CHOOSE i \in Ideas : TRUE,
           expected |-> 0, created |-> 0, completed |-> 0, outcome |-> "none"]}]

CanChange(i) == ideas[i].state = "live" /\ ideas[i].revision < MaxRevision
Changed(idea) == [idea EXCEPT !.revision = @ + 1]

Add(i) ==
    /\ ideas[i].state = "absent"
    /\ ideas' = [ideas EXCEPT ![i] = [state |-> "live", revision |-> 1, undoUntil |-> 0]]
    /\ UNCHANGED <<now, records>>

\* append, update, or a task made of it
Edit(i) ==
    /\ CanChange(i)
    /\ ideas' = [ideas EXCEPT ![i] = Changed(@)]
    /\ UNCHANGED <<now, records>>

Propose(c, i) ==
    /\ records[c].state = "none" /\ ideas[i].state = "live"
    /\ records' = [records EXCEPT ![c] = [state |-> "pending", idea |-> i,
           expected |-> ideas[i].revision, created |-> now, completed |-> 0,
           outcome |-> "none"]]
    /\ UNCHANGED <<now, ideas>>

-----------------------------------------------------------------------------

Decidable(c, at) ==
    /\ records[c].state = "pending"
    /\ at \in records[c].created..now /\ at < records[c].created + Ttl

\* A row with its decision.
Decision(row, state, at, outcome) ==
    [state |-> state, idea |-> row.idea, expected |-> row.expected, created |-> row.created,
     completed |-> at, outcome |-> outcome]

Decided(c, state, at, outcome) ==
    records' = [records EXCEPT ![c] = Decision(@, state, at, outcome)]

Reject(c, at) ==
    /\ Decidable(c, at)
    /\ Decided(c, "rejected", at, "none")
    /\ UNCHANGED <<now, ideas>>

IsAsProposed(c) ==
    /\ ideas[records[c].idea].state = "live"
    /\ ideas[records[c].idea].revision = records[c].expected

SoftDeleted(i, at) ==
    [ideas EXCEPT ![i] = [Changed(@) EXCEPT !.state = "deleted", !.undoUntil = at + UndoWindow]]

Confirm(c, at) ==
    /\ Decidable(c, at)
    /\ IF IsAsProposed(c)
       THEN ideas' = SoftDeleted(records[c].idea, at) /\ Decided(c, "confirmed", at, "deleted")
       ELSE UNCHANGED ideas /\ Decided(c, "confirmed", at, "missed")
    /\ UNCHANGED now

\* Restores an idea within the window of its deletion, the last instant included.
UndoDelete(i, at) ==
    /\ ideas[i].state = "deleted" /\ at <= now /\ at <= ideas[i].undoUntil
    /\ ideas' = [ideas EXCEPT ![i] = [Changed(@) EXCEPT !.state = "live", !.undoUntil = 0]]
    /\ UNCHANGED <<now, records>>

\* A row without a decision goes after it expired, one with a decision after its replay ended.
Purge(c) ==
    /\ \/ records[c].state = "pending" /\ records[c].created + Ttl < now
       \/ /\ records[c].state \in {"confirmed", "rejected"}
          /\ records[c].completed + Retention < now
    /\ records' = [records EXCEPT ![c].state = "purged"]
    /\ UNCHANGED <<now, ideas>>

Tick ==
    /\ now < MaxTime /\ now' = now + 1
    /\ UNCHANGED <<ideas, records>>

Next ==
    \/ \E i \in Ideas : Add(i) \/ Edit(i)
    \/ \E c \in Proposals, i \in Ideas : Propose(c, i)
    \/ \E c \in Proposals, at \in 0..now : Reject(c, at) \/ Confirm(c, at)
    \/ \E i \in Ideas, at \in 0..now : UndoDelete(i, at)
    \/ \E c \in Proposals : Purge(c)
    \/ Tick

Spec == Init /\ [][Next]_vars

=============================================================================
