----------------------------- MODULE IdeaDeletion -----------------------------
(***************************************************************************)
(* Deleting ideas, as PostgreSQL does it.  A decision is a transaction at  *)
(* READ COMMITTED: it locks its confirmation, tries the guarded UPDATE of  *)
(* the idea, reads the idea back when nothing was updated, stores the      *)
(* outcome and commits.  Between its statements others append to the idea, *)
(* restore it, decide about it by another confirmation, and purge.  The    *)
(* instant a decision counts with was captured before the transaction.     *)
(***************************************************************************)
EXTENDS Naturals

CONSTANTS Ideas, Proposals, Ttl, UndoWindow, Retention, MaxTime, MaxRevision,
    Requests   \* requests being served at one time

\* There is an idea and a proposal, revisions start at 1, and times are milliseconds.
Sensible ==
    /\ Ideas # {} /\ Proposals # {}
    /\ MaxRevision \in Nat \ {0}
    /\ {Ttl, UndoWindow, Retention, MaxTime} \subseteq Nat

VARIABLES
    now,
    ideas,          \* minutka_private.ideas, as committed
    confirmations,  \* minutka_private.idea_deletion_confirmations, as committed
    requests        \* requests being served, lost when the process dies

vars == <<now, ideas, confirmations, requests>>

\* The promise, read off the committed rows: the ways to miss the idea are one.
Promised(outcome) ==
    IF outcome \in {"conflict", "already_deleted", "not_found"} THEN "missed" ELSE outcome
Records == [c \in Proposals |-> [confirmations[c] EXCEPT !.outcome = Promised(@)]]

Ledger == INSTANCE IdeaLedger WITH records <- Records

-----------------------------------------------------------------------------

Confirmation == [state: {"none", "pending", "confirmed", "rejected", "purged"},
    idea: Ideas, expected: Nat, created: Nat, completed: Nat,
    outcome: {"none", "deleted", "conflict", "already_deleted", "not_found"}]

Request == [phase: {"idle", "called", "locked", "missed", "decided", "found"},
    op: {"confirm", "reject", "undo"}, id: Proposals, idea: Ideas, at: Nat, revision: Nat,
    outcome: {"none", "deleted", "conflict", "already_deleted", "not_found"}]
Idle == [phase |-> "idle", op |-> "undo", id |-> CHOOSE c \in Proposals : TRUE,
         idea |-> CHOOSE i \in Ideas : TRUE, at |-> 0, revision |-> 0, outcome |-> "none"]

Init ==
    /\ now = 0
    /\ ideas = [i \in Ideas |-> Ledger!NoIdea]
    /\ confirmations = [c \in Proposals |-> [state |-> "none",
           idea |-> CHOOSE i \in Ideas : TRUE, expected |-> 0, created |-> 0,
           completed |-> 0, outcome |-> "none"]]
    /\ requests = [r \in Requests |-> Idle]

Goes(r, request) == requests' = [requests EXCEPT ![r] = request]
Ends(r) == Goes(r, Idle)

\* A deleting transaction holds the idea until it commits: other writers wait.
Held(i) == \E r \in Requests :
    requests[r].phase = "decided" /\ requests[r].outcome = "deleted" /\ requests[r].idea = i
RowLocked(c) == \E r \in Requests :
    requests[r].op # "undo" /\ requests[r].phase \in {"locked", "missed", "decided"}
    /\ requests[r].id = c

-----------------------------------------------------------------------------
(* Ideas                                                                   *)

Add(i) ==
    /\ ideas[i].state = "absent"
    /\ ideas' = [ideas EXCEPT ![i] = [state |-> "live", revision |-> 1, undoUntil |-> 0]]
    /\ UNCHANGED <<now, confirmations, requests>>

\* append: the UPDATE is guarded by the revision that was read; a lost race changes nothing.
Append(i) ==
    /\ Ledger!CanChange(i) /\ ~Held(i)
    /\ ideas' = [ideas EXCEPT ![i] = Ledger!Changed(@)]
    /\ UNCHANGED <<now, confirmations, requests>>

-----------------------------------------------------------------------------
(* Proposals and decisions                                                 *)

\* The idea is read, then the row is saved; the revision expected is the one read or older
\* by the time the row is there.
Propose(c, i) ==
    /\ confirmations[c].state = "none" /\ ideas[i].state = "live"
    /\ confirmations' = [confirmations EXCEPT ![c] = [state |-> "pending", idea |-> i,
           expected |-> ideas[i].revision, created |-> now, completed |-> 0,
           outcome |-> "none"]]
    /\ UNCHANGED <<now, ideas, requests>>

Call(r, op, c) ==
    /\ requests[r].phase = "idle" /\ confirmations[c].state # "none"
    /\ Goes(r, [Idle EXCEPT !.phase = "called", !.op = op, !.id = c,
           !.idea = confirmations[c].idea, !.at = now])
    /\ UNCHANGED <<now, ideas, confirmations>>

\* Fault: a decision of a row that was decided before is made again.
DecidableAgain(r) ==
    /\ confirmations[requests[r].id].state \in {"pending", "confirmed"}
    /\ requests[r].at < confirmations[requests[r].id].created + Ttl

Decidable(r) ==
    /\ confirmations[requests[r].id].state = "pending"
    /\ requests[r].at < confirmations[requests[r].id].created + Ttl

Deciding(r) ==
    /\ requests[r].phase = "called" /\ requests[r].op # "undo"
    /\ ~RowLocked(requests[r].id)

\* Not found, decided before, or expired.
Refuse(r) ==
    /\ Deciding(r) /\ ~Decidable(r)
    /\ Ends(r)
    /\ UNCHANGED <<now, ideas, confirmations>>

Stored(r, state, outcome) ==
    confirmations' = [confirmations EXCEPT
        ![requests[r].id] = Ledger!Decision(@, state, requests[r].at, outcome)]

Reject(r) ==
    /\ Deciding(r) /\ Decidable(r) /\ requests[r].op = "reject"
    /\ Stored(r, "rejected", "none")
    /\ Ends(r)
    /\ UNCHANGED <<now, ideas>>

Lock(r) ==
    /\ Deciding(r) /\ Decidable(r) /\ requests[r].op = "confirm"
    /\ Goes(r, [requests[r] EXCEPT !.phase = "locked"])
    /\ UNCHANGED <<now, ideas, confirmations>>

\* Fault: the revision is left out of the UPDATE.
MatchesAnyRevision(r) == ideas[requests[r].idea].state = "live"

Matches(r) ==
    /\ ideas[requests[r].idea].state = "live"
    /\ ideas[requests[r].idea].revision = confirmations[requests[r].id].expected

\* UPDATE ideas ... WHERE revision = $3 AND deleted_at IS NULL; seen by others at COMMIT.
TryDelete(r) ==
    /\ requests[r].phase = "locked" /\ ~Held(requests[r].idea)
    /\ Matches(r) => ideas[requests[r].idea].revision < MaxRevision
    /\ Goes(r, IF Matches(r)
               THEN [requests[r] EXCEPT !.phase = "decided", !.outcome = "deleted"]
               ELSE [requests[r] EXCEPT !.phase = "missed"])
    /\ UNCHANGED <<now, ideas, confirmations>>

\* The SELECT after an UPDATE of no row sees what committed since.
ReadBack(r) ==
    /\ requests[r].phase = "missed"
    /\ LET idea == ideas[requests[r].idea] IN
       Goes(r, [requests[r] EXCEPT !.phase = "decided", !.outcome =
           CASE idea.state = "absent" -> "not_found"
             [] idea.state = "deleted" -> "already_deleted"
             [] OTHER -> "conflict"])
    /\ UNCHANGED <<now, ideas, confirmations>>

Commit(r) ==
    /\ requests[r].phase = "decided"
    /\ Stored(r, "confirmed", requests[r].outcome)
    /\ ideas' = IF requests[r].outcome = "deleted"
                THEN Ledger!SoftDeleted(requests[r].idea, requests[r].at) ELSE ideas
    /\ Ends(r)
    /\ UNCHANGED now

-----------------------------------------------------------------------------
(* Undo                                                                    *)

\* Without an id the idea deleted last is looked up, and the revision it has; an id that
\* is given may come without a revision (0).
FindDeleted(r, i, revision) ==
    /\ requests[r].phase = "idle" /\ ideas[i].state # "absent"
    /\ revision \in {0} \cup IF ideas[i].state = "deleted" THEN {ideas[i].revision} ELSE {}
    /\ Goes(r, [Idle EXCEPT !.phase = "found", !.idea = i, !.revision = revision])
    /\ UNCHANGED <<now, ideas, confirmations>>

\* The clock of the restoration is read after the search.
ReadClock(r) ==
    /\ requests[r].phase = "found"
    /\ Goes(r, [requests[r] EXCEPT !.phase = "called", !.at = now])
    /\ UNCHANGED <<now, ideas, confirmations>>

\* Fault: the UPDATE does not look at the end of the window.
RestorableForever(r) == ideas[requests[r].idea].state = "deleted"

Restorable(r) ==
    /\ ideas[requests[r].idea].state = "deleted"
    /\ requests[r].at <= ideas[requests[r].idea].undoUntil
    /\ requests[r].revision \in {0, ideas[requests[r].idea].revision}

UndoDelete(r) ==
    /\ requests[r].phase = "called" /\ requests[r].op = "undo" /\ ~Held(requests[r].idea)
    /\ Restorable(r) => ideas[requests[r].idea].revision < MaxRevision
    /\ ideas' = IF Restorable(r)
                THEN [ideas EXCEPT ![requests[r].idea] =
                         [Ledger!Changed(@) EXCEPT !.state = "live", !.undoUntil = 0]]
                ELSE ideas
    /\ Ends(r)
    /\ UNCHANGED <<now, confirmations>>

-----------------------------------------------------------------------------
(* Errors, retention and time                                              *)

\* A statement, the connection or the process fails: ROLLBACK.
Fail(r) ==
    /\ requests[r].phase # "idle"
    /\ Ends(r)
    /\ UNCHANGED <<now, ideas, confirmations>>

Purge(c) ==
    /\ ~RowLocked(c)
    /\ \/ confirmations[c].state = "pending" /\ confirmations[c].created + Ttl < now
       \/ /\ confirmations[c].state \in {"confirmed", "rejected"}
          /\ confirmations[c].completed + Retention < now
    /\ confirmations' = [confirmations EXCEPT ![c].state = "purged"]
    /\ UNCHANGED <<now, ideas, requests>>

Tick ==
    /\ now < MaxTime /\ now' = now + 1
    /\ UNCHANGED <<ideas, confirmations, requests>>

Next ==
    \/ \E i \in Ideas : Add(i) \/ Append(i)
    \/ \E c \in Proposals, i \in Ideas : Propose(c, i)
    \/ \E r \in Requests, c \in Proposals, op \in {"confirm", "reject"} : Call(r, op, c)
    \/ \E r \in Requests, i \in Ideas, n \in 0..MaxRevision : FindDeleted(r, i, n)
    \/ \E r \in Requests : Refuse(r) \/ Reject(r) \/ Lock(r) \/ TryDelete(r) \/ ReadBack(r)
                           \/ Commit(r) \/ ReadClock(r) \/ UndoDelete(r) \/ Fail(r)
    \/ \E c \in Proposals : Purge(c)
    \/ Tick

Spec == Init /\ [][Next]_vars

-----------------------------------------------------------------------------
(* Properties                                                              *)

TypeOK ==
    /\ now \in 0..MaxTime
    /\ ideas \in [Ideas -> Ledger!Idea]
    /\ confirmations \in [Proposals -> Confirmation]
    /\ requests \in [Requests -> Request]

\* The transactions do what the ledger promises: a decision counts once and by the instant
\* captured, the idea goes exactly when it still is what was proposed, although the UPDATE,
\* the SELECT after it and COMMIT see different states of it.
ImplementsLedger == Ledger!Spec

=============================================================================
