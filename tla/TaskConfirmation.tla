-------------------------- MODULE TaskConfirmation --------------------------
(***************************************************************************)
(* The task mutation ledger of the assistant.                              *)
(*                                                                         *)
(* A task is never written directly.  A canonical proposal is saved as a   *)
(* pending row of task_mutation_confirmations, and a later request of the  *)
(* owner confirms or rejects it: one PostgreSQL transaction locks the row, *)
(* applies the proposal to the task (and to the idea it converts), and     *)
(* stores the outcome.  undo() reverts the owner's latest reversible       *)
(* confirmed row while its window is open.  Rows are purged in the end.    *)
(*                                                                         *)
(* The service reads the clock when a request arrives and the transaction  *)
(* runs later, so every request carries the instant it captured.  The      *)
(* confirm transaction is two steps: locking the row and reading what undo *)
(* will need, then the effect and COMMIT.  Everything the other requests   *)
(* do at READ COMMITTED may happen between them.                           *)
(***************************************************************************)
EXTENDS Naturals, FiniteSets

CONSTANTS
    Owners,            \* employees
    ConfirmationIds,   \* opaque confirmation ids; their order is arbitrary
    DirectIds,         \* generated ids of tasks created from scratch
    Ideas,             \* ideas of the idea bank
    IdeaOwner,         \* the owner of each idea
    Contents,          \* values of title, project, type and due date together
    Requests,          \* requests being served by the process at one time
    Ttl,               \* taskMutationConfirmationTtlMilliseconds
    UndoWindow,        \* taskMutationUndoWindowMilliseconds
    Retention,         \* TASK_CONFIRMATION_COMPLETED_REPLAY_RETENTION_MS
    MaxTime,           \* bound: the clock stops here
    MaxExpected,       \* bound: largest revision a proposal can expect
    MaxIdeaRevision,   \* bound: ideas are not edited by others beyond it
    None               \* no owner, no content

ASSUME IdsAssumption ==
    /\ ConfirmationIds \subseteq Nat \ {0}
    /\ IdeaOwner \in [Ideas -> Owners]
    /\ DirectIds \cap Ideas = {}
    /\ None \notin Owners \cup Contents \cup DirectIds \cup Ideas

\* purge() refuses a retention that does not exceed the ttl; both the ttl and
\* the undo window are the same fifteen minutes.
ASSUME TimesAssumption ==
    /\ Ttl \in Nat \ {0} /\ UndoWindow \in Nat \ {0} /\ Retention \in Nat
    /\ MaxTime \in Nat /\ MaxExpected \in Nat /\ MaxIdeaRevision \in Nat
    /\ Retention > Ttl /\ UndoWindow <= Ttl

VARIABLES
    now,            \* the wall clock of the process
    tasks,          \* minutka_private.tasks
    ideas,          \* minutka_private.ideas
    confirmations,  \* minutka_private.task_mutation_confirmations
    requests        \* requests being served, lost when the process dies

vars == <<now, tasks, ideas, confirmations, requests>>

-----------------------------------------------------------------------------
(* Records                                                                 *)

\* The id of the task made from an idea is a digest of owner and idea: the
\* idea itself stands for it, so origin_idea_id is the id of the task.
TaskIds == DirectIds \cup Ideas

TaskStatus == {"open", "done", "cancelled"}

\* Revision 0 is a row that does not exist.
Task == [owner: Owners \cup {None}, content: Contents \cup {None},
         status: TaskStatus, revision: Nat]
NoTask == [owner |-> None, content |-> None, status |-> "open", revision |-> 0]

\* "deleted" is a soft deletion: the row stays and may come back.
Idea == [status: {"raw", "planned"}, summary: Contents, revision: Nat,
         presence: {"live", "deleted"}]

Kinds == {"create", "idea_to_task", "update", "complete", "cancel"}
CreateKinds == {"create", "idea_to_task"}
UndoableKinds == Kinds \ {"cancel"}

\* content = None, status = "keep": the patch leaves the field alone.
Proposal == [kind: Kinds \cup {"none"}, task: TaskIds \cup {None},
             content: Contents \cup {None}, status: TaskStatus \cup {"keep"},
             expected: Nat]
NoProposal == [kind |-> "none", task |-> None, content |-> None,
               status |-> "keep", expected |-> 0]

Outcomes == {"created", "updated", "unchanged", "not_found", "conflict"}
AppliedOutcomes == {"created", "updated", "unchanged"}

\* "undone" is a confirmed row with undone_at.  applied is the task of the outcome,
\* before the snapshot for undo, ideaRevision the revision undo expects of the idea
\* (0: no idea context), undo_expires_at is completedAt + UndoWindow.
Confirmation ==
    [state: {"absent", "pending", "confirmed", "undone", "rejected", "purged"},
     owner: Owners \cup {None}, proposal: Proposal,
     createdAt: Nat, completedAt: Nat, outcome: Outcomes \cup {"none"},
     applied: Task, before: Task, ideaRevision: Nat,
     undoneAt: Nat]

Blank(state) ==
    [state |-> state, owner |-> None, proposal |-> NoProposal,
     createdAt |-> 0, completedAt |-> 0, outcome |-> "none",
     applied |-> NoTask, before |-> NoTask, ideaRevision |-> 0,
     undoneAt |-> 0]

\* phase "called": the clock is read, the transaction has not started;
\* "locked": a confirm transaction holds the row lock and has read its snapshots.
Request == [phase: {"idle", "called", "locked"}, op: {"confirm", "reject", "undo"},
            owner: Owners \cup {None}, id: ConfirmationIds \cup {0}, at: Nat,
            before: Task, ideaSeen: Nat]
Idle == [phase |-> "idle", op |-> "undo", owner |-> None, id |-> 0, at |-> 0,
         before |-> NoTask, ideaSeen |-> 0]

-----------------------------------------------------------------------------
(* The task writer                                                         *)

\* Fault: an UPDATE that forgets revision = revision + 1.
SameRevision(row) == row

\* Every UPDATE of a task or of an idea takes the next revision.
NextRevision(row) == [row EXCEPT !.revision = @ + 1]

Exists(t) == tasks[t].revision > 0
OwnTask(o, t) == Exists(t) /\ tasks[t].owner = o

\* INSERT ... ON CONFLICT DO NOTHING, then the comparison with what is there.
CreateEffect(o, p) ==
    IF ~Exists(p.task)
    THEN [outcome |-> "created",
          task |-> [owner |-> o, content |-> p.content, status |-> p.status, revision |-> 1]]
    ELSE IF OwnTask(o, p.task) /\ tasks[p.task].content = p.content
                               /\ tasks[p.task].status = p.status
    THEN [outcome |-> "unchanged", task |-> tasks[p.task]]
    ELSE [outcome |-> "conflict", task |-> NoTask]

\* Fault: a patch that writes its absent status into the row.
PatchedBlindly(task, p) ==
    [task EXCEPT !.content = IF p.content = None THEN @ ELSE p.content, !.status = p.status]

\* The task with the fields of a patch.
Patched(task, p) ==
    [task EXCEPT !.content = IF p.content = None THEN @ ELSE p.content,
                 !.status  = IF p.status = "keep" THEN @ ELSE p.status]

\* SELECT ... FOR UPDATE, the revision check, then UPDATE with revision + 1.
UpdateEffect(o, p) ==
    LET current == tasks[p.task]
        patched == Patched(current, p)
    IN  IF ~OwnTask(o, p.task) THEN [outcome |-> "not_found", task |-> NoTask]
        ELSE IF current.revision # p.expected THEN [outcome |-> "conflict", task |-> NoTask]
        ELSE IF patched = current THEN [outcome |-> "unchanged", task |-> current]
        ELSE [outcome |-> "updated", task |-> NextRevision(patched)]

\* executeTaskMutation: the three proposal kinds reach two writer calls.
Effect(o, p) == IF p.kind \in CreateKinds THEN CreateEffect(o, p) ELSE UpdateEffect(o, p)

LiveIdea(i) == ideas[i].presence = "live"

\* Fault: the idea is written without its next revision.
RewrittenInPlace(i, idea) == [ideas EXCEPT ![i] = idea]

\* The idea bank after the idea took a status, a summary, or was (un)deleted.
Rewritten(i, idea) == [ideas EXCEPT ![i] = NextRevision(idea)]
WithStatus(i, status) == Rewritten(i, [ideas[i] EXCEPT !.status = status])

\* The revision the confirm transaction saw on a raw idea (0 otherwise).
IdeaSeen(o, p) ==
    IF /\ p.kind = "idea_to_task" /\ IdeaOwner[p.task] = o
       /\ LiveIdea(p.task) /\ ideas[p.task].status = "raw"
    THEN ideas[p.task].revision ELSE 0

\* The conditional UPDATE that marks the converted idea planned hits a row.
PlansIdea(p, outcome, seen) ==
    /\ p.kind = "idea_to_task" /\ seen > 0 /\ outcome \in AppliedOutcomes
    /\ LiveIdea(p.task) /\ ideas[p.task].status = "raw" /\ ideas[p.task].revision = seen

-----------------------------------------------------------------------------
(* Proposing                                                               *)

\* A direct task may be there from earlier, with its confirmation purged.
Init ==
    /\ now = 0
    /\ tasks \in {f \in [TaskIds -> {NoTask} \cup
                  [owner: Owners, content: Contents, status: {"open"}, revision: {1}]] :
                  \A i \in Ideas : f[i] = NoTask}
    /\ ideas \in [Ideas -> [status: {"raw"}, summary: Contents, revision: {1},
                            presence: {"live"}]]
    /\ confirmations = [c \in ConfirmationIds |-> Blank("absent")]
    /\ requests = [r \in Requests |-> Idle]

Save(o, c, p) ==
    /\ confirmations[c].state = "absent"
    /\ confirmations' = [confirmations EXCEPT ![c] =
           [Blank("pending") EXCEPT !.owner = o, !.proposal = p, !.createdAt = now]]
    /\ UNCHANGED <<now, tasks, ideas, requests>>

\* A create gets a fresh random id.
ProposeCreate(o, c, t, v) ==
    /\ ~Exists(t)
    /\ \A d \in ConfirmationIds : confirmations[d].proposal.task # t
    /\ Save(o, c, [kind |-> "create", task |-> t, content |-> v, status |-> "open",
                   expected |-> 0])

\* A conversion copies the idea as it is now; a converted idea is refused.
ProposeIdeaToTask(c, i) ==
    /\ LiveIdea(i) /\ ~Exists(i)
    /\ Save(IdeaOwner[i], c, [kind |-> "idea_to_task", task |-> i,
                              content |-> ideas[i].summary, status |-> "open",
                              expected |-> 0])

\* update, complete and cancel need a task the owner can read; the expected
\* revision is any positive number the model wrote into its tool call.
ProposeChange(o, c, t, kind, v, expected) ==
    /\ OwnTask(o, t)
    /\ Save(o, c, [kind |-> kind, task |-> t, content |-> v,
                   status |-> CASE kind = "complete" -> "done"
                                [] kind = "cancel"   -> "cancelled"
                                [] OTHER             -> IF v = None THEN "open" ELSE "keep",
                   expected |-> expected])

Propose(c) ==
    \/ \E o \in Owners, t \in DirectIds, v \in Contents : ProposeCreate(o, c, t, v)
    \/ \E i \in Ideas : ProposeIdeaToTask(c, i)
    \/ \E o \in Owners, t \in TaskIds, e \in 1..MaxExpected :
           \/ \E v \in Contents \cup {None} : ProposeChange(o, c, t, "update", v, e)
           \/ \E kind \in {"complete", "cancel"} : ProposeChange(o, c, t, kind, None, e)

-----------------------------------------------------------------------------
(* Serving requests                                                        *)

Reply(r) == requests' = [requests EXCEPT ![r] = Idle]

\* decide() captures decidedAt, undo() captures undoneAt, before the store runs.
Call(r, op, o, c) ==
    /\ requests[r].phase = "idle"
    /\ IF op = "undo" THEN c = 0
       ELSE c \in ConfirmationIds /\ confirmations[c].state # "absent"
    /\ requests' = [requests EXCEPT ![r] =
           [Idle EXCEPT !.phase = "called", !.op = op, !.owner = o, !.id = c, !.at = now]]
    /\ UNCHANGED <<now, tasks, ideas, confirmations>>

\* Fault: a request takes the lock when it arrives and waits for everyone else's.
LockedByArrival(c) == \E r \in Requests : requests[r].phase # "idle" /\ requests[r].id = c

RowLocked(c) == \E r \in Requests : requests[r].phase = "locked" /\ requests[r].id = c

\* Faults: decided rows are decided again; anybody decides; an expired row is decided.
DecidableTwice(r) ==
    LET row == confirmations[requests[r].id]
    IN  /\ row.state \in {"pending", "rejected"} /\ row.owner = requests[r].owner
        /\ requests[r].at < row.createdAt + Ttl
DecidableByAnyone(r) ==
    LET row == confirmations[requests[r].id]
    IN  row.state = "pending" /\ requests[r].at < row.createdAt + Ttl
DecidableForever(r) ==
    LET row == confirmations[requests[r].id]
    IN  row.state = "pending" /\ row.owner = requests[r].owner

\* Only a pending row of the caller, not expired at the captured instant, is decided;
\* a decided row replays its decision and everything else is refused.
Decidable(r) ==
    LET row == confirmations[requests[r].id]
    IN  /\ row.state = "pending" /\ row.owner = requests[r].owner
        /\ requests[r].at < row.createdAt + Ttl

Deciding(r) ==
    /\ requests[r].phase = "called" /\ requests[r].op \in {"confirm", "reject"}
    /\ ~RowLocked(requests[r].id)

\* not_found, owner_mismatch, expired, already_confirmed, already_rejected.
Refuse(r) ==
    /\ Deciding(r) /\ ~Decidable(r)
    /\ Reply(r)
    /\ UNCHANGED <<now, tasks, ideas, confirmations>>

Reject(r) ==
    /\ Deciding(r) /\ Decidable(r) /\ requests[r].op = "reject"
    /\ LET c   == requests[r].id
           row == [confirmations[c] EXCEPT !.state = "rejected",
                                           !.completedAt = requests[r].at]
       IN  confirmations' = [confirmations EXCEPT ![c] = row]
    /\ Reply(r)
    /\ UNCHANGED <<now, tasks, ideas>>

\* Lock the row and read the task and the idea as undo will need them.
Lock(r) ==
    /\ Deciding(r) /\ Decidable(r) /\ requests[r].op = "confirm"
    /\ LET row == confirmations[requests[r].id]
           p   == row.proposal
           before == IF p.kind \notin CreateKinds /\ OwnTask(row.owner, p.task)
                     THEN tasks[p.task] ELSE NoTask
           locked == [requests[r] EXCEPT !.phase = "locked", !.before = before,
                                         !.ideaSeen = IdeaSeen(row.owner, p)]
       IN  requests' = [requests EXCEPT ![r] = locked]
    /\ UNCHANGED <<now, tasks, ideas, confirmations>>

\* The effect, the idea, the outcome and COMMIT.
Apply(r) ==
    /\ requests[r].phase = "locked"
    /\ LET c      == requests[r].id
           row    == confirmations[c]
           p      == row.proposal
           result == Effect(row.owner, p)
           plans  == PlansIdea(p, result.outcome, requests[r].ideaSeen)
           stored == [row EXCEPT !.state = "confirmed", !.completedAt = requests[r].at,
                                 !.outcome = result.outcome, !.applied = result.task,
                                 !.before = requests[r].before,
                                 !.ideaRevision = IF plans THEN ideas[p.task].revision + 1 ELSE 0]
       IN  /\ tasks' = IF result.outcome \in {"created", "updated"}
                       THEN [tasks EXCEPT ![p.task] = result.task] ELSE tasks
           /\ ideas' = IF plans THEN WithStatus(p.task, "planned") ELSE ideas
           /\ confirmations' = [confirmations EXCEPT ![c] = stored]
    /\ Reply(r)
    /\ UNCHANGED now

-----------------------------------------------------------------------------
(* Undo                                                                    *)

Undoable(o) == {c \in ConfirmationIds :
    /\ confirmations[c].state = "confirmed" /\ confirmations[c].owner = o
    /\ confirmations[c].proposal.kind \in UndoableKinds}

\* ORDER BY completed_at DESC, confirmation_id DESC
Later(c, d) ==
    \/ confirmations[c].completedAt > confirmations[d].completedAt
    \/ confirmations[c].completedAt = confirmations[d].completedAt /\ c > d

IsLatest(c, o) == c \in Undoable(o) /\ \A d \in Undoable(o) \ {c} : Later(c, d)

\* The idea goes back to raw only while it is as the conversion left it.
RestoresIdea(c) ==
    LET i == confirmations[c].proposal.task
    IN  /\ confirmations[c].ideaRevision > 0
        /\ LiveIdea(i) /\ ideas[i].status = "planned"
        /\ ideas[i].revision = confirmations[c].ideaRevision

\* Fault: undo does not look at the revision the task has now.
RevertibleAnyRevision(c) ==
    LET row == confirmations[c]
    IN  /\ row.applied.revision > 0
        /\ OwnTask(row.owner, row.proposal.task)
        /\ row.proposal.kind \in CreateKinds \/ row.before.revision > 0

\* executeTaskMutationUndo: the task must still carry the applied revision.
Revertible(c) ==
    LET row == confirmations[c]
    IN  /\ row.applied.revision > 0
        /\ OwnTask(row.owner, row.proposal.task)
        /\ tasks[row.proposal.task].revision = row.applied.revision
        /\ row.proposal.kind \in CreateKinds \/ row.before.revision > 0

\* What undo leaves: no task for a create, the earlier fields for a change.
Reverted(c) ==
    LET row      == confirmations[c]
        current  == tasks[row.proposal.task]
        restored == [current EXCEPT !.content = row.before.content,
                                    !.status = row.before.status]
    IN  IF row.proposal.kind \in CreateKinds THEN NoTask
        ELSE IF restored = current THEN current
        ELSE NextRevision(restored)

\* The row can be undone by this request: the window of the captured instant is
\* open, and the undone_at CHECK of the schema lets the UPDATE through.
Undoing(r, c) ==
    /\ requests[r].phase = "called" /\ requests[r].op = "undo"
    /\ IsLatest(c, requests[r].owner)
    /\ requests[r].at <= confirmations[c].completedAt + UndoWindow
    /\ requests[r].at >= confirmations[c].completedAt
    /\ Revertible(c)

Undo(r, c) ==
    /\ Undoing(r, c)
    /\ LET t == confirmations[c].proposal.task
           row == [confirmations[c] EXCEPT !.state = "undone", !.undoneAt = requests[r].at]
       IN  /\ tasks' = [tasks EXCEPT ![t] = Reverted(c)]
           /\ ideas' = IF RestoresIdea(c) THEN WithStatus(t, "raw") ELSE ideas
           /\ confirmations' = [confirmations EXCEPT ![c] = row]
    /\ Reply(r)
    /\ UNCHANGED now

\* not_found, expired, conflict, and the transaction the schema CHECK aborts.
RefuseUndo(r) ==
    /\ requests[r].phase = "called" /\ requests[r].op = "undo"
    /\ \A c \in ConfirmationIds : ~Undoing(r, c)
    /\ Reply(r)
    /\ UNCHANGED <<now, tasks, ideas, confirmations>>

-----------------------------------------------------------------------------
(* Failures, other writers, retention                                      *)

\* A statement timeout, a lost connection or the death of the process rolls
\* the transaction back (a crash is this step for every request).
Fail(r) ==
    /\ requests[r].phase # "idle"
    /\ Reply(r)
    /\ UNCHANGED <<now, tasks, ideas, confirmations>>

\* Fault: completed rows are purged as soon as the clock moves on.
PurgeableAtOnce(c) ==
    LET row == confirmations[c]
    IN  \/ row.state = "pending" /\ row.createdAt + Ttl < now
        \/ row.state \in {"confirmed", "undone", "rejected"} /\ row.completedAt < now

Purgeable(c) ==
    LET row == confirmations[c]
    IN  \/ row.state = "pending" /\ row.createdAt + Ttl < now
        \/ row.state \in {"confirmed", "undone", "rejected"} /\ row.completedAt + Retention < now

\* One row of a purge batch; SKIP LOCKED leaves rows that are being decided.
Purge(c) ==
    /\ Purgeable(c) /\ ~RowLocked(c)
    /\ confirmations' = [confirmations EXCEPT ![c] = Blank("purged")]
    /\ UNCHANGED <<now, tasks, ideas, requests>>

\* The idea bank itself: an append, a confirmed deletion, an undone deletion.
EditIdea(i) ==
    /\ ideas[i].revision < MaxIdeaRevision
    /\ \/ /\ LiveIdea(i)
          /\ \E s \in Contents : ideas' = Rewritten(i, [ideas[i] EXCEPT !.summary = s])
       \/ /\ LiveIdea(i)
          /\ ideas' = Rewritten(i, [ideas[i] EXCEPT !.presence = "deleted"])
       \/ /\ ~LiveIdea(i)
          /\ ideas' = Rewritten(i, [ideas[i] EXCEPT !.presence = "live"])
    /\ UNCHANGED <<now, tasks, confirmations, requests>>

Tick ==
    /\ now < MaxTime
    /\ now' = now + 1
    /\ UNCHANGED <<tasks, ideas, confirmations, requests>>

\* A step that answers the request or brings it closer to its answer.
Serve(r) ==
    \/ Refuse(r) \/ Reject(r) \/ Lock(r) \/ Apply(r)
    \/ RefuseUndo(r) \/ \E c \in ConfirmationIds : Undo(r, c)

Next ==
    \/ \E c \in ConfirmationIds : Propose(c) \/ Purge(c)
    \/ \E r \in Requests, o \in Owners, op \in {"confirm", "reject", "undo"},
          c \in ConfirmationIds \cup {0} : Call(r, op, o, c)
    \/ \E r \in Requests : Serve(r) \/ Fail(r)
    \/ \E i \in Ideas : EditIdea(i)
    \/ Tick

\* Row locks are granted in the order they were asked for, so a request that
\* is able to run again and again is served.
Fairness == \A r \in Requests : SF_vars(Serve(r))

Spec == Init /\ [][Next]_vars
FairSpec == Spec /\ Fairness

-----------------------------------------------------------------------------
(* Properties                                                              *)

TypeOK ==
    /\ now \in Nat
    /\ tasks \in [TaskIds -> Task]
    /\ ideas \in [Ideas -> Idea]
    /\ confirmations \in [ConfirmationIds -> Confirmation]
    /\ requests \in [Requests -> Request]

Decided(c) == confirmations[c].state \in {"confirmed", "undone", "rejected"}

\* A row being decided stays pending, belongs to the caller and has one decider:
\* neither a second tap on the same button nor a purge batch gets between the
\* row lock and COMMIT (SELECT ... FOR UPDATE against SKIP LOCKED).
RowLockProtects ==
    \A r \in Requests : requests[r].phase = "locked" =>
        LET row == confirmations[requests[r].id]
        IN  /\ requests[r].op = "confirm"
            /\ row.state = "pending" /\ row.owner = requests[r].owner
            /\ row.createdAt <= requests[r].at /\ requests[r].at < row.createdAt + Ttl
            /\ \A q \in Requests \ {r} :
                   ~(requests[q].phase = "locked" /\ requests[q].id = requests[r].id)

\* The CHECK constraints of the table with the ttl: a decision is taken after the
\* proposal and before it expires however late the transaction commits, only a
\* confirmed row has an outcome, and only an applied reversible one is ever undone,
\* inside its window.
DecisionTimes ==
    \A c \in ConfirmationIds :
        LET row == confirmations[c]
        IN  /\ Decided(c) => /\ row.createdAt <= row.completedAt
                             /\ row.completedAt < row.createdAt + Ttl
            /\ row.outcome = "none" <=> row.state \notin {"confirmed", "undone"}
            /\ row.state = "undone" =>
                   /\ row.outcome \in AppliedOutcomes
                   /\ row.proposal.kind \in UndoableKinds
                   /\ row.completedAt <= row.undoneAt
                   /\ row.undoneAt <= row.completedAt + UndoWindow

\* The idea context of a conversion that is not undone cannot name another state of
\* the idea: at the stored revision the idea is live and planned, so the guarded
\* restore never touches an idea somebody edited since.
IdeaContextCurrent ==
    \A c \in ConfirmationIds :
        LET row == confirmations[c]
        IN  row.state = "confirmed" /\ row.ideaRevision > 0 =>
                /\ row.proposal.kind = "idea_to_task"
                /\ row.ideaRevision <= ideas[row.proposal.task].revision
                /\ row.ideaRevision = ideas[row.proposal.task].revision =>
                       ideas[row.proposal.task].status = "planned" /\ LiveIdea(row.proposal.task)

KeepsDecisions == \A c \in ConfirmationIds :
    Decided(c) =>
        LET row == confirmations[c]
            new == confirmations'[c]
        IN  \/ new = Blank("purged")
            \/ new = row
            \/ /\ row.state = "confirmed"
              /\ new = [row EXCEPT !.state = "undone", !.undoneAt = new.undoneAt]

\* A decision is final: replays, late rejects and a second confirm leave decision,
\* outcome and snapshots alone until the row is purged, and an undo is never taken back.
DecisionIsFinal == [][KeepsDecisions]_vars

ConfirmedNow(c) == confirmations[c].state = "pending" /\ confirmations'[c].state = "confirmed"
UndoneNow(c) == confirmations[c].state = "confirmed" /\ confirmations'[c].state = "undone"

\* The task table and the ledger change together: every change of a task is the
\* outcome stored by one confirmation or one undo in the same transaction, and a
\* stored created/updated outcome is the row the table now has.
WritesAreLedgered == [][
    /\ \A t \in TaskIds : tasks'[t] # tasks[t] =>
           \E c \in ConfirmationIds :
               /\ confirmations[c].proposal.task = t
               /\ \/ /\ ConfirmedNow(c) /\ confirmations'[c].applied = tasks'[t]
                     /\ confirmations'[c].outcome \in {"created", "updated"}
                  \/ UndoneNow(c) /\ confirmations[c].applied.revision = tasks[t].revision
    /\ \A c \in ConfirmationIds :
           ConfirmedNow(c) /\ confirmations'[c].outcome \in {"created", "updated"} =>
               confirmations'[c].applied = tasks'[confirmations[c].proposal.task]]_vars

\* A task changes only while a request of its owner is answered: an id that leaked to
\* another employee decides nothing.
OnlyOwnersWrite == \A t \in TaskIds : tasks'[t] # tasks[t] =>
    \E r \in Requests :
        /\ requests[r].phase # "idle" /\ requests'[r] = Idle
        /\ requests[r].owner \in {tasks[t].owner, tasks'[t].owner}
        /\ {tasks[t].owner, tasks'[t].owner} \subseteq {requests[r].owner, None}

\* Retention never deletes a row that can still be confirmed or still be undone.
LiveRowsStay == \A c \in ConfirmationIds :
    LET row == confirmations[c]
    IN  \/ row.state = "pending" /\ now < row.createdAt + Ttl
        \/ c \in Undoable(row.owner) /\ now <= row.completedAt + UndoWindow
        => confirmations'[c].state # "purged"

\* Nothing but its owner's requests changes a task, and no purge takes from an owner what
\* may still be confirmed or undone.
OwnersDecide == [][OnlyOwnersWrite /\ LiveRowsStay]_vars

\* A revision of a task created from scratch names one row for ever: as long as the
\* table has that task at the revision a decision left, it is the row that decision
\* left, field by field.  The revision check of undo rests on it.  (The id of a
\* converted idea is reused after an undo, so its revisions start again.)
RevisionNamesOneRow ==
    \A c \in ConfirmationIds :
        LET row == confirmations[c]
            t   == row.proposal.task
        IN  row.applied.revision > 0 /\ t \in DirectIds /\ Exists(t) =>
                /\ row.applied.revision <= tasks[t].revision
                /\ row.applied.revision = tasks[t].revision => row.applied = tasks[t]

\* The snapshot kept for undo is the row the update replaced ("for update/complete it
\* restores previous fields", vault/assistant/bin/undo-task-mutation.md).
SnapshotIsWhatWasReplaced ==
    \A c \in ConfirmationIds : confirmations[c].outcome = "updated" =>
        confirmations[c].before.revision + 1 = confirmations[c].applied.revision

\* "for idea-to-task it deletes the task and restores the idea's previous status only
\* when the idea still has the expected post-conversion status and revision": an idea
\* still as a conversion left it is raw again once undo has deleted its task.
UndoneConversionRestoresIdea == [][\A i \in Ideas, c \in ConfirmationIds :
    /\ Exists(i) /\ tasks'[i] = NoTask
    /\ confirmations[c].proposal.task = i /\ confirmations[c].ideaRevision > 0
    /\ ideas[i].revision = confirmations[c].ideaRevision
    => ideas'[i].status = "raw"]_vars

\* Every request the process accepted is answered: no wait on a row lock lasts for ever.
RequestsEnd == \A r \in Requests : requests[r].phase # "idle" ~> requests[r].phase = "idle"

-----------------------------------------------------------------------------
(* What the inductive invariant adds to the properties above               *)

Issued(c) == confirmations[c].state = "pending" \/ Decided(c)

\* Rows carry a canonical proposal of their owner (normalizeTaskMutationProposal,
\* taskActionKindMatchesProposal).
RowsWellFormed ==
    \A c \in ConfirmationIds : Issued(c) =>
        LET row == confirmations[c]
            p   == row.proposal
        IN  /\ row.owner \in Owners /\ p.kind \in Kinds /\ p.task \in TaskIds
            /\ p.kind \in CreateKinds => p.content \in Contents /\ p.status = "open"
            /\ p.kind = "create" => p.task \in DirectIds
            /\ p.kind = "idea_to_task" => p.task \in Ideas

\* A request decides a row proposed before it arrived.
CallsFollowProposals ==
    /\ \A c \in ConfirmationIds : confirmations[c].createdAt <= now
    /\ \A r \in Requests :
           requests[r].phase # "idle" /\ requests[r].op # "undo" =>
               /\ requests[r].id \in ConfirmationIds
               /\ confirmations[requests[r].id].state # "absent"
               /\ confirmations[requests[r].id].createdAt <= requests[r].at

\* Only an applied outcome carries a task, so undo reverts nothing else.
OutcomesCarryTasks ==
    \A c \in ConfirmationIds :
        confirmations[c].applied.revision > 0 => confirmations[c].outcome \in AppliedOutcomes

\* A pending create is the only row about its task, which does not exist yet.
CreatesAreFresh ==
    \A c \in ConfirmationIds :
        confirmations[c].state = "pending" /\ confirmations[c].proposal.kind = "create" =>
            /\ ~Exists(confirmations[c].proposal.task)
            /\ \A d \in ConfirmationIds \ {c} :
                   confirmations[d].proposal.task # confirmations[c].proposal.task

Typed == TypeOK /\ RowsWellFormed
Locked == CallsFollowProposals /\ RowLockProtects /\ DecisionTimes /\ OutcomesCarryTasks

=============================================================================
