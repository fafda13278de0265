----------------------- MODULE TaskConfirmationProofs -----------------------
(***************************************************************************)
(* Machine-checked safety of the task ledger, for every set of owners,     *)
(* ids, ideas, requests and every choice of the times.                     *)
(***************************************************************************)
EXTENDS TaskConfirmation, TLAPS

-----------------------------------------------------------------------------
(* Type correctness                                                        *)

LEMMA ConstantRows ==
    /\ NoTask \in Task
    /\ NoProposal \in Proposal
    /\ \A s \in {"absent", "pending", "purged"} : Blank(s) \in Confirmation
    /\ Idle \in Request
  <1>1. NoTask \in Task
    BY DEF NoTask, Task, TaskStatus
  <1>2. NoProposal \in Proposal
    BY DEF NoProposal, Proposal
  <1> QED BY <1>1, <1>2 DEF Blank, Confirmation, Idle, Request

\* The next revision of a row is a row with the same fields.
LEMMA NextRevisionType ==
    /\ \A x \in Task : /\ NextRevision(x) \in Task
                       /\ NextRevision(x).revision = x.revision + 1
                       /\ NextRevision(x).owner = x.owner
                       /\ NextRevision(x).content = x.content
                       /\ NextRevision(x).status = x.status
    /\ \A x \in Idea : /\ NextRevision(x) \in Idea
                       /\ NextRevision(x).revision = x.revision + 1
                       /\ NextRevision(x).status = x.status
                       /\ NextRevision(x).presence = x.presence
  BY DEF NextRevision, Task, Idea

\* A writer call on well-typed rows yields a known outcome and a task row; it is
\* applied exactly when it yields a row that exists.
LEMMA EffectType ==
    ASSUME TypeOK, NEW o \in Owners, NEW p \in Proposal, p.task \in TaskIds,
           p.kind \in CreateKinds => p.content \in Contents /\ p.status = "open"
    PROVE  /\ Effect(o, p).outcome \in Outcomes
           /\ Effect(o, p).task \in Task
  <1> USE DEF Task, TaskStatus, NoTask, Outcomes
  <1>t. tasks[p.task] \in Task
    BY DEF TypeOK
  <1>1. CASE p.kind \in CreateKinds
    <2>1. /\ CreateEffect(o, p).outcome \in Outcomes
          /\ CreateEffect(o, p).task \in Task
      BY <1>1, <1>t DEF CreateEffect
    <2> QED BY <1>1, <2>1 DEF Effect
  <1>2. CASE p.kind \notin CreateKinds
    <2>1. Patched(tasks[p.task], p) \in Task
      BY <1>t DEF Patched, Proposal
    <2>2. NextRevision(Patched(tasks[p.task], p)) \in Task
      BY <2>1, NextRevisionType
    <2>3. /\ UpdateEffect(o, p).outcome \in Outcomes
          /\ UpdateEffect(o, p).task \in Task
      BY <1>t, <2>1, <2>2 DEF UpdateEffect
    <2> QED BY <1>2, <2>3 DEF Effect
  <1> QED BY <1>1, <1>2

\* A step that only ends a request keeps the types of all requests.
LEMMA ReplyType ==
    ASSUME TypeOK, NEW r \in Requests, Reply(r)
    PROVE  requests' \in [Requests -> Request]
  BY ConstantRows DEF TypeOK, Reply

LEMMA InitTyped == Init => Typed
  <1> SUFFICES ASSUME Init PROVE Typed
    OBVIOUS
  <1>1. now \in Nat
    BY DEF Init
  <1>2. tasks \in [TaskIds -> Task]
    BY ConstantRows DEF Init, Task, TaskStatus
  <1>3. ideas \in [Ideas -> Idea]
    <2> DEFINE Fresh == [status: {"raw"}, summary: Contents, revision: {1}, presence: {"live"}]
    <2>1. \A x \in Fresh : x \in Idea
      BY DEF Idea
    <2>2. ideas \in [Ideas -> Fresh]
      BY DEF Init
    <2> HIDE DEF Fresh
    <2> QED BY <2>1, <2>2
  <1>4. /\ confirmations \in [ConfirmationIds -> Confirmation]
        /\ requests \in [Requests -> Request]
    BY ConstantRows DEF Init
  <1>5. RowsWellFormed
    BY DEF Init, RowsWellFormed, Issued, Decided, Blank
  <1> QED BY <1>1, <1>2, <1>3, <1>4, <1>5 DEF Typed, TypeOK

LEMMA SaveTyped ==
    ASSUME Typed, NEW o \in Owners, NEW c \in ConfirmationIds, NEW p \in Proposal,
           p.kind \in Kinds, p.task \in TaskIds,
           p.kind \in CreateKinds => p.content \in Contents /\ p.status = "open",
           p.kind = "create" => p.task \in DirectIds,
           p.kind = "idea_to_task" => p.task \in Ideas,
           Save(o, c, p)
    PROVE  Typed'
  <1> DEFINE row == [Blank("pending") EXCEPT !.owner = o, !.proposal = p, !.createdAt = now]
  <1>1. row \in Confirmation
    BY ConstantRows DEF Typed, TypeOK, Confirmation, Blank
  <1>2. confirmations' = [confirmations EXCEPT ![c] = row]
    BY DEF Save
  <1>3. TypeOK'
    BY <1>1, <1>2 DEF Save, Typed, TypeOK
  <1>4. row.owner = o /\ row.proposal = p
    BY DEF Blank
  <1>5. RowsWellFormed'
    <2> SUFFICES ASSUME NEW d \in ConfirmationIds, Issued(d)'
                 PROVE  LET q == confirmations'[d].proposal
                        IN  /\ confirmations'[d].owner \in Owners
                            /\ q.kind \in Kinds /\ q.task \in TaskIds
                            /\ q.kind \in CreateKinds => q.content \in Contents /\ q.status = "open"
                            /\ q.kind = "create" => q.task \in DirectIds
                            /\ q.kind = "idea_to_task" => q.task \in Ideas
      BY DEF RowsWellFormed
    <2>1. CASE d = c
      BY <1>2, <1>4, <2>1 DEF Typed, TypeOK
    <2>2. CASE d # c
      BY <1>2, <2>2 DEF Typed, TypeOK, RowsWellFormed, Issued, Decided
    <2> QED BY <2>1, <2>2
  <1> HIDE DEF row
  <1> QED BY <1>3, <1>5 DEF Typed

LEMMA ProposeTyped ==
    ASSUME Typed, NEW c \in ConfirmationIds, Propose(c)
    PROVE  Typed'
  <1>1. ASSUME NEW o \in Owners, NEW t \in DirectIds, NEW v \in Contents,
               ProposeCreate(o, c, t, v)
        PROVE  Typed'
    BY <1>1, SaveTyped DEF ProposeCreate, Proposal, Kinds, CreateKinds, TaskIds, TaskStatus
  <1>2. ASSUME NEW i \in Ideas, ProposeIdeaToTask(c, i)
        PROVE  Typed'
    <2>1. IdeaOwner[i] \in Owners /\ ideas[i].summary \in Contents
      BY IdsAssumption DEF Typed, TypeOK, Idea
    <2> QED BY <1>2, <2>1, SaveTyped
            DEF ProposeIdeaToTask, Proposal, Kinds, CreateKinds, TaskIds, TaskStatus
  <1>3. ASSUME NEW o \in Owners, NEW t \in TaskIds, NEW e \in 1..MaxExpected,
               NEW kind \in {"update", "complete", "cancel"},
               NEW v \in Contents \cup {None}, ProposeChange(o, c, t, kind, v, e)
        PROVE  Typed'
    <2> DEFINE p == [kind |-> kind, task |-> t, content |-> v,
                     status |-> CASE kind = "complete" -> "done"
                                  [] kind = "cancel"   -> "cancelled"
                                  [] OTHER -> IF v = None THEN "open" ELSE "keep",
                     expected |-> e]
    <2>1. p \in Proposal /\ p.kind \in Kinds /\ p.task \in TaskIds
          /\ p.kind \notin CreateKinds
      BY TimesAssumption DEF Proposal, Kinds, CreateKinds, TaskStatus
    <2>2. Save(o, c, p)
      BY <1>3 DEF ProposeChange
    <2>3. p.kind # "create" /\ p.kind # "idea_to_task"
      BY <2>1 DEF CreateKinds
    <2> HIDE DEF p
    <2> QED BY <2>1, <2>2, <2>3, SaveTyped
  <1> QED BY <1>1, <1>2, <1>3 DEF Propose

\* What the current row of a request that may decide looks like.
LEMMA DecidableRow ==
    ASSUME Typed, NEW r \in Requests, requests[r].id \in ConfirmationIds, Decidable(r)
    PROVE  LET row == confirmations[requests[r].id]
           IN  /\ row \in Confirmation /\ row.state = "pending"
               /\ row.owner \in Owners /\ row.proposal \in Proposal
               /\ row.proposal.kind \in Kinds /\ row.proposal.task \in TaskIds
               /\ row.proposal.kind \in CreateKinds =>
                      row.proposal.content \in Contents /\ row.proposal.status = "open"
               /\ row.proposal.kind = "idea_to_task" => row.proposal.task \in Ideas
  BY DEF Decidable, Typed, TypeOK, RowsWellFormed, Issued, Decided, Confirmation

\* A step that changes one row, keeps its owner and proposal and does not issue it
\* keeps the shape of the ledger.
LEMMA RowUpdateTyped ==
    ASSUME Typed, NEW c \in ConfirmationIds, NEW row \in Confirmation,
           confirmations' = [confirmations EXCEPT ![c] = row],
           \/ row.state \in {"absent", "purged"}
           \/ /\ Issued(c)
              /\ row.owner = confirmations[c].owner
              /\ row.proposal = confirmations[c].proposal
    PROVE  /\ confirmations' \in [ConfirmationIds -> Confirmation]
           /\ RowsWellFormed'
  <1>1. confirmations' \in [ConfirmationIds -> Confirmation]
    BY DEF Typed, TypeOK
  <1>2. \A d \in ConfirmationIds : confirmations'[d] = IF d = c THEN row ELSE confirmations[d]
    BY DEF Typed, TypeOK
  <1>3. RowsWellFormed'
    <2> SUFFICES ASSUME NEW d \in ConfirmationIds, Issued(d)'
                 PROVE  LET q == confirmations'[d].proposal
                        IN  /\ confirmations'[d].owner \in Owners
                            /\ q.kind \in Kinds /\ q.task \in TaskIds
                            /\ q.kind \in CreateKinds => q.content \in Contents /\ q.status = "open"
                            /\ q.kind = "create" => q.task \in DirectIds
                            /\ q.kind = "idea_to_task" => q.task \in Ideas
      BY DEF RowsWellFormed
    <2>1. CASE d = c
      BY <1>2, <2>1 DEF Typed, RowsWellFormed, Issued, Decided
    <2>2. CASE d # c
      BY <1>2, <2>2 DEF Typed, RowsWellFormed, Issued, Decided
    <2> QED BY <2>1, <2>2
  <1> QED BY <1>1, <1>3

LEMMA CallTyped ==
    ASSUME Typed, NEW r \in Requests, NEW op \in {"confirm", "reject", "undo"},
           NEW o \in Owners, NEW c \in ConfirmationIds \cup {0}, Call(r, op, o, c)
    PROVE  Typed'
  <1> DEFINE call == [Idle EXCEPT !.phase = "called", !.op = op, !.owner = o,
                                  !.id = c, !.at = now]
  <1>1. call \in Request
    BY ConstantRows DEF Request, Idle, Typed, TypeOK
  <1>2. requests' = [requests EXCEPT ![r] = call]
    BY DEF Call
  <1> HIDE DEF call
  <1>3. TypeOK'
    BY <1>1, <1>2 DEF Call, Typed, TypeOK
  <1> QED BY <1>3 DEF Call, Typed, RowsWellFormed, Issued, Decided

\* Refusals, failures, edits of the idea bank and the clock leave the ledger alone.
LEMMA QuietTyped ==
    ASSUME Typed,
           \/ \E r \in Requests : Refuse(r) \/ RefuseUndo(r) \/ Fail(r)
           \/ \E i \in Ideas : EditIdea(i)
           \/ Tick
           \/ UNCHANGED vars
    PROVE  Typed'
  <1>1. ASSUME NEW r \in Requests, Refuse(r) \/ RefuseUndo(r) \/ Fail(r)
        PROVE  Typed'
    <2>1. Reply(r) /\ UNCHANGED <<now, tasks, ideas, confirmations>>
      BY <1>1 DEF Refuse, RefuseUndo, Fail
    <2> QED BY <2>1, ReplyType DEF Typed, TypeOK, RowsWellFormed, Issued, Decided
  <1>2. ASSUME NEW i \in Ideas, EditIdea(i)
        PROVE  Typed'
    <2>1. ideas[i] \in Idea
      BY DEF Typed, TypeOK
    <2>2. \E x \in Idea : ideas' = Rewritten(i, x)
      BY <1>2, <2>1 DEF EditIdea, Idea
    <2>3. ideas' \in [Ideas -> Idea]
      BY <2>2, NextRevisionType DEF Rewritten, Typed, TypeOK
    <2> QED BY <1>2, <2>3 DEF EditIdea, Typed, TypeOK, RowsWellFormed, Issued, Decided
  <1>3. CASE Tick
    BY <1>3 DEF Tick, Typed, TypeOK, RowsWellFormed, Issued, Decided
  <1>4. CASE UNCHANGED vars
    BY <1>4 DEF vars, Typed, TypeOK, RowsWellFormed, Issued, Decided
  <1> QED BY <1>1, <1>2, <1>3, <1>4

LEMMA PurgeTyped ==
    ASSUME Typed, NEW c \in ConfirmationIds, Purge(c)
    PROVE  Typed'
  <1>1. Blank("purged") \in Confirmation /\ Blank("purged").state = "purged"
    BY ConstantRows DEF Blank
  <1> QED BY <1>1, RowUpdateTyped DEF Purge, Typed, TypeOK

LEMMA RejectTyped ==
    ASSUME Typed, NEW r \in Requests, requests[r].id \in ConfirmationIds, Reject(r)
    PROVE  Typed'
  <1> DEFINE c == requests[r].id
             row == [confirmations[c] EXCEPT !.state = "rejected",
                                             !.completedAt = requests[r].at]
  <1>1. confirmations[c] \in Confirmation /\ requests[r].at \in Nat
    BY DEF Typed, TypeOK, Request
  <1>2. /\ row \in Confirmation
        /\ row.owner = confirmations[c].owner
        /\ row.proposal = confirmations[c].proposal
    BY <1>1 DEF Confirmation
  <1>3. /\ confirmations' = [confirmations EXCEPT ![c] = row]
        /\ Issued(c)
    BY DEF Reject, Decidable, Issued
  <1> HIDE DEF row
  <1>4. confirmations' \in [ConfirmationIds -> Confirmation] /\ RowsWellFormed'
    BY <1>2, <1>3, RowUpdateTyped
  <1>5. requests' \in [Requests -> Request]
    BY ReplyType DEF Reject, Typed
  <1> QED BY <1>4, <1>5 DEF Reject, Typed, TypeOK

LEMMA LockTyped ==
    ASSUME Typed, NEW r \in Requests, requests[r].id \in ConfirmationIds, Lock(r)
    PROVE  Typed'
  <1> DEFINE row == confirmations[requests[r].id]
             p == row.proposal
             before == IF p.kind \notin CreateKinds /\ OwnTask(row.owner, p.task)
                       THEN tasks[p.task] ELSE NoTask
             locked == [requests[r] EXCEPT !.phase = "locked", !.before = before,
                                           !.ideaSeen = IdeaSeen(row.owner, p)]
  <1>1. row \in Confirmation /\ p.task \in TaskIds
        /\ (p.kind = "idea_to_task" => p.task \in Ideas)
    BY DecidableRow DEF Lock
  <1>2. before \in Task
    BY <1>1, ConstantRows DEF Typed, TypeOK
  <1>3. IdeaSeen(row.owner, p) \in Nat
    BY <1>1 DEF IdeaSeen, Typed, TypeOK, Idea
  <1>4. requests' = [requests EXCEPT ![r] = locked]
    BY DEF Lock
  <1>5. requests[r] \in Request
    BY DEF Typed, TypeOK
  <1> HIDE DEF before, row, p
  <1>6. locked \in Request
    BY <1>2, <1>3, <1>5 DEF Request
  <1> HIDE DEF locked
  <1>7. requests' \in [Requests -> Request]
    BY <1>4, <1>6 DEF Typed, TypeOK
  <1> QED BY <1>7 DEF Lock, Typed, TypeOK, RowsWellFormed, Issued, Decided

\* The row under a lock and the proposal it carries.
LEMMA LockedRow ==
    ASSUME Typed, Locked, NEW r \in Requests, requests[r].phase = "locked"
    PROVE  LET c   == requests[r].id
               row == confirmations[c]
               p   == row.proposal
           IN  /\ c \in ConfirmationIds /\ Issued(c) /\ row.state = "pending"
               /\ row \in Confirmation /\ row.owner \in Owners
               /\ p \in Proposal /\ p.kind \in Kinds /\ p.task \in TaskIds
               /\ p.kind \in CreateKinds => p.content \in Contents /\ p.status = "open"
               /\ p.kind = "idea_to_task" => p.task \in Ideas
  <1> DEFINE c == requests[r].id
  <1>1. requests[r].op = "confirm" /\ confirmations[c].state = "pending"
    BY DEF Locked, RowLockProtects
  <1>2. c \in ConfirmationIds /\ Issued(c)
    BY <1>1 DEF Locked, CallsFollowProposals, Issued
  <1>3. confirmations[c] \in Confirmation
    BY <1>2 DEF Typed, TypeOK
  <1> QED BY <1>1, <1>2, <1>3 DEF Typed, RowsWellFormed, Confirmation

LEMMA ApplyTyped ==
    ASSUME Typed, Locked, NEW r \in Requests, Apply(r)
    PROVE  Typed'
  <1> DEFINE c      == requests[r].id
             row    == confirmations[c]
             p      == row.proposal
             result == Effect(row.owner, p)
             plans  == PlansIdea(p, result.outcome, requests[r].ideaSeen)
             rev    == IF plans THEN ideas[p.task].revision + 1 ELSE 0
             stored == [row EXCEPT !.state = "confirmed", !.completedAt = requests[r].at,
                                   !.outcome = result.outcome, !.applied = result.task,
                                   !.before = requests[r].before, !.ideaRevision = rev]
  <1>0. requests[r].phase = "locked"
    BY DEF Apply
  <1>1. /\ c \in ConfirmationIds /\ Issued(c) /\ row \in Confirmation
        /\ row.owner \in Owners /\ p \in Proposal /\ p.task \in TaskIds
        /\ p.kind \in CreateKinds => p.content \in Contents /\ p.status = "open"
        /\ p.kind = "idea_to_task" => p.task \in Ideas
    BY <1>0, LockedRow
  <1>2. result.outcome \in Outcomes /\ result.task \in Task
    BY <1>1, EffectType DEF Typed
  <1>3. plans => p.task \in Ideas
    BY <1>1 DEF PlansIdea
  <1>4. rev \in Nat
    BY <1>3 DEF Typed, TypeOK, Idea
  <1>5. requests[r].at \in Nat /\ requests[r].before \in Task
    BY DEF Typed, TypeOK, Request
  <1>6. /\ tasks' = IF result.outcome \in {"created", "updated"}
                    THEN [tasks EXCEPT ![p.task] = result.task] ELSE tasks
        /\ ideas' = IF plans THEN WithStatus(p.task, "planned") ELSE ideas
        /\ confirmations' = [confirmations EXCEPT ![c] = stored]
        /\ Reply(r) /\ UNCHANGED now
    BY DEF Apply
  <1> HIDE DEF result, plans, rev
  <1>7. /\ stored \in Confirmation
        /\ stored.owner = row.owner /\ stored.proposal = row.proposal
    BY <1>1, <1>2, <1>4, <1>5 DEF Confirmation
  <1> HIDE DEF stored
  <1>8. confirmations' \in [ConfirmationIds -> Confirmation] /\ RowsWellFormed'
    BY <1>1, <1>6, <1>7, RowUpdateTyped
  <1>9. tasks' \in [TaskIds -> Task]
    BY <1>1, <1>2, <1>6 DEF Typed, TypeOK
  <1>10. ideas' \in [Ideas -> Idea]
    <2>1. CASE plans
      <3>1. [ideas[p.task] EXCEPT !.status = "planned"] \in Idea
        BY <1>3, <2>1 DEF Typed, TypeOK, Idea
      <3> QED BY <1>6, <2>1, <3>1, NextRevisionType DEF WithStatus, Rewritten, Typed, TypeOK
    <2>2. CASE ~plans
      BY <1>6, <2>2 DEF Typed, TypeOK
    <2> QED BY <2>1, <2>2
  <1> QED BY <1>6, <1>8, <1>9, <1>10, ReplyType DEF Typed, TypeOK

\* The row an undo may revert, the task it leaves and the idea it restores.
LEMMA UndoableRow ==
    ASSUME Typed, NEW r \in Requests, NEW c \in ConfirmationIds, Undoing(r, c)
    PROVE  LET row == confirmations[c]
               p   == row.proposal
           IN  /\ Issued(c) /\ row.state = "confirmed" /\ row \in Confirmation
               /\ p.task \in TaskIds /\ p.kind \in UndoableKinds
               /\ p.kind = "create" => p.task \in DirectIds
               /\ p.kind = "idea_to_task" => p.task \in Ideas
  BY DEF Undoing, IsLatest, Undoable, Issued, Decided, Typed, TypeOK, RowsWellFormed,
         Confirmation

LEMMA RevertedType ==
    ASSUME Typed, NEW c \in ConfirmationIds, confirmations[c].proposal.task \in TaskIds
    PROVE  Reverted(c) \in Task
  <1> DEFINE row      == confirmations[c]
             current  == tasks[row.proposal.task]
             restored == [current EXCEPT !.content = row.before.content,
                                         !.status = row.before.status]
  <1>1. current \in Task /\ row.before \in Task
    BY DEF Typed, TypeOK, Confirmation
  <1>2. restored \in Task
    BY <1>1 DEF Task
  <1> QED BY <1>1, <1>2, ConstantRows, NextRevisionType DEF Reverted

LEMMA UndoTyped ==
    ASSUME Typed, NEW r \in Requests, NEW c \in ConfirmationIds, Undo(r, c)
    PROVE  Typed'
  <1> DEFINE t   == confirmations[c].proposal.task
             row == [confirmations[c] EXCEPT !.state = "undone", !.undoneAt = requests[r].at]
  <1>1. /\ tasks' = [tasks EXCEPT ![t] = Reverted(c)]
        /\ ideas' = IF RestoresIdea(c) THEN WithStatus(t, "raw") ELSE ideas
        /\ confirmations' = [confirmations EXCEPT ![c] = row]
        /\ Reply(r) /\ UNCHANGED now
    BY DEF Undo
  <1>2. Issued(c) /\ confirmations[c] \in Confirmation /\ t \in TaskIds
    BY UndoableRow DEF Undo
  <1>3. requests[r].at \in Nat
    BY DEF Typed, TypeOK, Request
  <1>4. /\ row \in Confirmation
        /\ row.owner = confirmations[c].owner /\ row.proposal = confirmations[c].proposal
    BY <1>2, <1>3 DEF Confirmation
  <1>5. Reverted(c) \in Task
    BY <1>2, RevertedType
  <1> HIDE DEF row, t
  <1>6. confirmations' \in [ConfirmationIds -> Confirmation] /\ RowsWellFormed'
    BY <1>1, <1>2, <1>4, RowUpdateTyped
  <1>7. tasks' \in [TaskIds -> Task]
    BY <1>1, <1>5 DEF Typed, TypeOK
  <1>8. ideas' \in [Ideas -> Idea]
    <2>1. CASE t \in Ideas
      <3>1. [ideas[t] EXCEPT !.status = "raw"] \in Idea
        BY <2>1 DEF Typed, TypeOK, Idea
      <3> QED BY <1>1, <3>1, NextRevisionType DEF WithStatus, Rewritten, Typed, TypeOK
    <2>2. CASE t \notin Ideas
      BY <1>1, <2>2 DEF WithStatus, Rewritten, Typed, TypeOK
    <2> QED BY <2>1, <2>2
  <1> QED BY <1>1, <1>6, <1>7, <1>8, ReplyType DEF Typed, TypeOK

\* Types and the shape of the ledger, together with the locking discipline that tells
\* what a commit finds under its lock.
LEMMA StepTyped ==
    ASSUME Typed, Locked, [Next]_vars
    PROVE  Typed'
  <1>1. ASSUME NEW c \in ConfirmationIds, Propose(c) \/ Purge(c)
        PROVE  Typed'
    BY <1>1, ProposeTyped, PurgeTyped
  <1>2. ASSUME NEW r \in Requests, NEW o \in Owners,
               NEW op \in {"confirm", "reject", "undo"},
               NEW c \in ConfirmationIds \cup {0}, Call(r, op, o, c)
        PROVE  Typed'
    BY <1>2, CallTyped
  <1>3. ASSUME NEW r \in Requests, Serve(r)
        PROVE  Typed'
    <2>1. CASE Refuse(r) \/ RefuseUndo(r)
      BY <2>1, QuietTyped
    <2>2. CASE Reject(r) \/ Lock(r)
      <3>1. requests[r].id \in ConfirmationIds
        BY <2>2 DEF Reject, Lock, Deciding, Locked, CallsFollowProposals
      <3> QED BY <2>2, <3>1, RejectTyped, LockTyped
    <2>3. CASE Apply(r)
      BY <2>3, ApplyTyped
    <2>4. CASE \E c \in ConfirmationIds : Undo(r, c)
      BY <2>4, UndoTyped
    <2> QED BY <1>3, <2>1, <2>2, <2>3, <2>4 DEF Serve
  <1>4. ASSUME \/ \E r \in Requests : Fail(r)
               \/ \E i \in Ideas : EditIdea(i)
               \/ Tick
               \/ UNCHANGED vars
        PROVE  Typed'
    BY <1>4, QuietTyped
  <1> QED BY <1>1, <1>2, <1>3, <1>4 DEF Next

-----------------------------------------------------------------------------
(* Row locks and decision times                                            *)

LEMMA InitLocked == Init => Locked
  BY DEF Init, Locked, CallsFollowProposals, RowLockProtects, DecisionTimes,
         OutcomesCarryTasks, Decided, Blank, Idle, NoTask

\* Ending a request and changing no row keeps the discipline; so do the other
\* tables, which it does not mention.
LEMMA ReplyLocked ==
    ASSUME Typed, Locked, NEW r \in Requests, Reply(r), UNCHANGED <<now, confirmations>>
    PROVE  Locked'
  <1>1. \A q \in Requests : requests'[q] = IF q = r THEN Idle ELSE requests[q]
    BY DEF Reply, Typed, TypeOK
  <1> QED BY <1>1 DEF Locked, CallsFollowProposals, RowLockProtects, DecisionTimes,
             OutcomesCarryTasks, Decided, Idle

\* Changing a row no decision holds keeps the discipline when the new row obeys it.
LEMMA RowChangeLocked ==
    ASSUME Typed, Locked, NEW c \in ConfirmationIds, NEW row \in Confirmation,
           confirmations' = [confirmations EXCEPT ![c] = row],
           UNCHANGED now,
           \A q \in Requests : requests'[q] \in {requests[q], Idle},
           \A q \in Requests : requests'[q].phase = "locked" => requests[q].id # c,
           row.state # "absent",
           row.createdAt <= now,
           \/ row.createdAt = 0 \/ row.createdAt = confirmations[c].createdAt
           \/ confirmations[c].state = "absent",
           row.state \in {"confirmed", "undone", "rejected"} =>
               row.createdAt <= row.completedAt /\ row.completedAt < row.createdAt + Ttl,
           row.outcome = "none" <=> row.state \notin {"confirmed", "undone"},
           row.state = "undone" =>
               /\ row.outcome \in AppliedOutcomes /\ row.proposal.kind \in UndoableKinds
               /\ row.completedAt <= row.undoneAt
               /\ row.undoneAt <= row.completedAt + UndoWindow,
           row.applied.revision > 0 => row.outcome \in AppliedOutcomes
    PROVE  Locked'
  <1>1. \A d \in ConfirmationIds :
            confirmations'[d] = IF d = c THEN row ELSE confirmations[d]
    BY DEF Typed, TypeOK
  <1>2. \A q \in Requests : requests'[q].phase # "idle" => requests'[q] = requests[q]
    BY DEF Idle
  <1>3. CallsFollowProposals'
    <2>1. \A d \in ConfirmationIds : (confirmations[d].createdAt <= now)'
      BY <1>1 DEF Locked, CallsFollowProposals
    <2>2. ASSUME NEW q \in Requests, requests'[q].phase # "idle", requests'[q].op # "undo"
          PROVE  /\ requests'[q].id \in ConfirmationIds
                 /\ confirmations'[requests'[q].id].state # "absent"
                 /\ confirmations'[requests'[q].id].createdAt <= requests'[q].at
      <3>1. /\ requests'[q] = requests[q] /\ requests[q].id \in ConfirmationIds
            /\ confirmations[requests[q].id].state # "absent"
            /\ confirmations[requests[q].id].createdAt <= requests[q].at
            /\ requests[q].at \in Nat
        BY <1>2, <2>2 DEF Locked, CallsFollowProposals, Typed, TypeOK, Request
      <3> QED BY <1>1, <3>1
    <2> QED BY <2>1, <2>2 DEF CallsFollowProposals
  <1>4. RowLockProtects'
    <2> SUFFICES ASSUME NEW q \in Requests, requests'[q].phase = "locked"
                 PROVE  LET cell == confirmations'[requests'[q].id]
                        IN  /\ requests'[q].op = "confirm"
                            /\ cell.state = "pending" /\ cell.owner = requests'[q].owner
                            /\ cell.createdAt <= requests'[q].at
                            /\ requests'[q].at < cell.createdAt + Ttl
                            /\ \A k \in Requests \ {q} :
                                   ~(requests'[k].phase = "locked"
                                     /\ requests'[k].id = requests'[q].id)
      BY DEF RowLockProtects
    <2>1. requests'[q] = requests[q] /\ requests[q].id # c
      BY <1>2
    <2>2. requests[q].id \in ConfirmationIds
      BY <2>1, LockedRow
    <2>3. confirmations'[requests[q].id] = confirmations[requests[q].id]
      BY <1>1, <2>1, <2>2
    <2>4. \A k \in Requests : requests'[k].phase = "locked" => requests'[k] = requests[k]
      BY <1>2
    <2> QED BY <2>1, <2>3, <2>4 DEF Locked, RowLockProtects
  <1>5. DecisionTimes' /\ OutcomesCarryTasks'
    BY <1>1 DEF Locked, DecisionTimes, OutcomesCarryTasks, Decided
  <1> QED BY <1>3, <1>4, <1>5 DEF Locked

LEMMA SaveLocked ==
    ASSUME Typed, Locked, NEW o \in Owners, NEW c \in ConfirmationIds, NEW p \in Proposal,
           Save(o, c, p)
    PROVE  Locked'
  <1> DEFINE row == [Blank("pending") EXCEPT !.owner = o, !.proposal = p, !.createdAt = now]
  <1>1. row \in Confirmation
    BY ConstantRows DEF Typed, TypeOK, Confirmation, Blank
  <1>2. /\ row.state = "pending" /\ row.createdAt = now /\ row.outcome = "none"
        /\ row.applied.revision = 0
    BY DEF Blank, NoTask
  <1>3. /\ confirmations' = [confirmations EXCEPT ![c] = row]
        /\ confirmations[c].state = "absent"
        /\ UNCHANGED <<now, requests>>
    BY DEF Save
  <1>4. \A q \in Requests : requests'[q].phase = "locked" => requests[q].id # c
    BY <1>3, LockedRow
  <1>5. now \in Nat
    BY DEF Typed, TypeOK
  <1> HIDE DEF row
  <1>6. /\ row.state # "absent" /\ row.createdAt <= now
        /\ row.state \notin {"confirmed", "undone", "rejected"} /\ row.state # "undone"
        /\ row.outcome = "none" <=> row.state \notin {"confirmed", "undone"}
        /\ ~(row.applied.revision > 0)
    BY <1>2, <1>5
  <1>7. \A q \in Requests : requests'[q] \in {requests[q], Idle}
    BY <1>3
  <1> QED BY <1>1, <1>3, <1>4, <1>6, <1>7, RowChangeLocked

LEMMA ProposeLocked ==
    ASSUME Typed, Locked, NEW c \in ConfirmationIds, Propose(c)
    PROVE  Locked'
  <1>1. ASSUME NEW o \in Owners, NEW t \in DirectIds, NEW v \in Contents,
               ProposeCreate(o, c, t, v)
        PROVE  Locked'
    BY <1>1, SaveLocked DEF ProposeCreate, Proposal, Kinds, TaskIds, TaskStatus
  <1>2. ASSUME NEW i \in Ideas, ProposeIdeaToTask(c, i)
        PROVE  Locked'
    <2>1. IdeaOwner[i] \in Owners /\ ideas[i].summary \in Contents
      BY IdsAssumption DEF Typed, TypeOK, Idea
    <2> QED BY <1>2, <2>1, SaveLocked DEF ProposeIdeaToTask, Proposal, Kinds, TaskIds, TaskStatus
  <1>3. ASSUME NEW o \in Owners, NEW t \in TaskIds, NEW e \in 1..MaxExpected,
               NEW kind \in {"update", "complete", "cancel"},
               NEW v \in Contents \cup {None}, ProposeChange(o, c, t, kind, v, e)
        PROVE  Locked'
    BY <1>3, SaveLocked, TimesAssumption DEF ProposeChange, Proposal, Kinds, TaskStatus
  <1> QED BY <1>1, <1>2, <1>3 DEF Propose

LEMMA CallLocked ==
    ASSUME Typed, Locked, NEW r \in Requests, NEW op \in {"confirm", "reject", "undo"},
           NEW o \in Owners, NEW c \in ConfirmationIds \cup {0}, Call(r, op, o, c)
    PROVE  Locked'
  <1> DEFINE call == [Idle EXCEPT !.phase = "called", !.op = op, !.owner = o,
                                  !.id = c, !.at = now]
  <1>1. \A q \in Requests : requests'[q] = IF q = r THEN call ELSE requests[q]
    BY DEF Call, Typed, TypeOK
  <1>2. call.phase = "called" /\ call.op = op /\ call.id = c /\ call.at = now
    BY DEF Idle
  <1>3. UNCHANGED <<now, confirmations>>
    BY DEF Call
  <1>4. op # "undo" => c \in ConfirmationIds /\ confirmations[c].state # "absent"
    BY DEF Call
  <1> HIDE DEF call
  <1> QED BY <1>1, <1>2, <1>3, <1>4 DEF Locked, CallsFollowProposals, RowLockProtects,
             DecisionTimes, OutcomesCarryTasks, Decided

LEMMA LockLocked ==
    ASSUME Typed, Locked, NEW r \in Requests, Lock(r)
    PROVE  Locked'
  <1> DEFINE c == requests[r].id
  <1>1. /\ Deciding(r) /\ Decidable(r) /\ requests[r].op = "confirm"
        /\ requests[r].phase = "called"
        /\ UNCHANGED <<now, confirmations>>
    BY DEF Lock, Deciding
  <1>2. PICK before, seen : requests' = [requests EXCEPT ![r] =
            [requests[r] EXCEPT !.phase = "locked", !.before = before, !.ideaSeen = seen]]
    BY DEF Lock
  <1> DEFINE new == [requests[r] EXCEPT !.phase = "locked", !.before = before, !.ideaSeen = seen]
  <1>3. requests[r] \in Request
    BY DEF Typed, TypeOK
  <1>4. /\ new.phase = "locked" /\ new.op = "confirm" /\ new.owner = requests[r].owner
        /\ new.id = c /\ new.at = requests[r].at
    BY <1>1, <1>3 DEF Request
  <1> HIDE DEF new
  <1>5. \A q \in Requests : requests'[q] = IF q = r THEN new ELSE requests[q]
    BY <1>2 DEF Typed, TypeOK, new
  <1>6. /\ confirmations[c].state = "pending" /\ confirmations[c].owner = requests[r].owner
        /\ requests[r].at < confirmations[c].createdAt + Ttl
        /\ \A q \in Requests : requests[q].phase = "locked" => requests[q].id # c
    BY <1>1 DEF Deciding, Decidable, RowLocked
  <1>7. confirmations[c].createdAt <= requests[r].at
    BY <1>1 DEF Locked, CallsFollowProposals
  <1> QED BY <1>1, <1>4, <1>5, <1>6, <1>7 DEF Locked, CallsFollowProposals, RowLockProtects,
             DecisionTimes, OutcomesCarryTasks, Decided

LEMMA RejectLocked ==
    ASSUME Typed, Locked, NEW r \in Requests, Reject(r)
    PROVE  Locked'
  <1> DEFINE c == requests[r].id
             row == [confirmations[c] EXCEPT !.state = "rejected",
                                             !.completedAt = requests[r].at]
  <1>1. /\ c \in ConfirmationIds /\ confirmations[c].state = "pending"
        /\ confirmations[c].createdAt <= requests[r].at
        /\ requests[r].at < confirmations[c].createdAt + Ttl
        /\ \A q \in Requests : requests[q].phase = "locked" => requests[q].id # c
    BY DEF Reject, Deciding, Decidable, RowLocked, Locked, CallsFollowProposals
  <1>2. confirmations[c] \in Confirmation /\ requests[r].at \in Nat /\ now \in Nat
    BY <1>1 DEF Typed, TypeOK, Request
  <1>3. confirmations[c].outcome = "none" /\ ~(confirmations[c].applied.revision > 0)
        /\ confirmations[c].createdAt <= now
    BY <1>1 DEF Locked, DecisionTimes, OutcomesCarryTasks, AppliedOutcomes,
                CallsFollowProposals
  <1>4. /\ row \in Confirmation /\ row.state = "rejected"
        /\ row.createdAt = confirmations[c].createdAt /\ row.completedAt = requests[r].at
        /\ row.outcome = confirmations[c].outcome /\ row.applied = confirmations[c].applied
    BY <1>2 DEF Confirmation
  <1>5. confirmations' = [confirmations EXCEPT ![c] = row] /\ UNCHANGED now
    BY DEF Reject
  <1>6. \A q \in Requests : requests'[q] \in {requests[q], Idle}
    BY DEF Reject, Reply, Typed, TypeOK
  <1>7. \A q \in Requests : requests'[q].phase = "locked" => requests[q].id # c
    BY <1>1, <1>6 DEF Idle
  <1> HIDE DEF row, c
  <1> QED BY <1>1, <1>3, <1>4, <1>5, <1>6, <1>7, RowChangeLocked

\* A refusal by the writer carries no task.
LEMMA EffectOutcome ==
    ASSUME NEW o, NEW p, Effect(o, p).task.revision > 0
    PROVE  Effect(o, p).outcome \in AppliedOutcomes
  BY DEF Effect, CreateEffect, UpdateEffect, NoTask, AppliedOutcomes

LEMMA ApplyLocked ==
    ASSUME Typed, Locked, NEW r \in Requests, Apply(r)
    PROVE  Locked'
  <1> DEFINE c      == requests[r].id
             row    == confirmations[c]
             p      == row.proposal
             result == Effect(row.owner, p)
             plans  == PlansIdea(p, result.outcome, requests[r].ideaSeen)
             rev    == IF plans THEN ideas[p.task].revision + 1 ELSE 0
             stored == [row EXCEPT !.state = "confirmed", !.completedAt = requests[r].at,
                                   !.outcome = result.outcome, !.applied = result.task,
                                   !.before = requests[r].before, !.ideaRevision = rev]
  <1>0. requests[r].phase = "locked" /\ UNCHANGED now
    BY DEF Apply
  <1>1. /\ c \in ConfirmationIds /\ row \in Confirmation /\ row.owner \in Owners
        /\ p \in Proposal /\ p.task \in TaskIds
        /\ p.kind \in CreateKinds => p.content \in Contents /\ p.status = "open"
        /\ p.kind = "idea_to_task" => p.task \in Ideas
    BY <1>0, LockedRow
  <1>2. result.outcome \in Outcomes /\ result.task \in Task
    BY <1>1, EffectType DEF Typed
  <1>3. result.task.revision > 0 => result.outcome \in AppliedOutcomes
    BY EffectOutcome
  <1>4. rev \in Nat /\ requests[r].at \in Nat /\ requests[r].before \in Task /\ now \in Nat
    BY <1>1 DEF PlansIdea, Typed, TypeOK, Idea, Request
  <1>5. /\ row.createdAt <= requests[r].at /\ requests[r].at < row.createdAt + Ttl
        /\ \A q \in Requests \ {r} : requests[q].phase = "locked" => requests[q].id # c
    BY <1>0 DEF Locked, RowLockProtects
  <1>6. row.createdAt <= now
    BY <1>1 DEF Locked, CallsFollowProposals
  <1>7. confirmations' = [confirmations EXCEPT ![c] = stored]
    BY DEF Apply
  <1> HIDE DEF result, plans, rev
  <1>8. /\ stored \in Confirmation /\ stored.state = "confirmed"
        /\ stored.createdAt = row.createdAt /\ stored.completedAt = requests[r].at
        /\ stored.outcome = result.outcome /\ stored.applied = result.task
    BY <1>1, <1>2, <1>4 DEF Confirmation
  <1> HIDE DEF stored
  <1>9. \A q \in Requests : requests'[q] = IF q = r THEN Idle ELSE requests[q]
    BY DEF Apply, Reply, Typed, TypeOK
  <1>10. \A q \in Requests : requests'[q].phase = "locked" => requests[q].id # c
    BY <1>5, <1>9 DEF Idle
  <1>11. \A q \in Requests : requests'[q] \in {requests[q], Idle}
    BY <1>9
  <1>12. result.outcome # "none"
    BY <1>2 DEF Outcomes
  <1> HIDE DEF c
  <1> QED BY <1>0, <1>1, <1>3, <1>5, <1>6, <1>7, <1>8, <1>10, <1>11, <1>12, RowChangeLocked

LEMMA UndoLocked ==
    ASSUME Typed, Locked, NEW r \in Requests, NEW c \in ConfirmationIds, Undo(r, c)
    PROVE  Locked'
  <1> DEFINE old == confirmations[c]
             row == [old EXCEPT !.state = "undone", !.undoneAt = requests[r].at]
  <1>1. /\ confirmations' = [confirmations EXCEPT ![c] = row]
        /\ Undoing(r, c) /\ Reply(r) /\ UNCHANGED now
    BY DEF Undo
  <1>2. /\ old \in Confirmation /\ old.state = "confirmed"
        /\ old.proposal.kind \in UndoableKinds
    BY <1>1, UndoableRow
  <1>3. requests[r].at \in Nat /\ now \in Nat
    BY DEF Typed, TypeOK, Request
  <1>4. /\ requests[r].at <= old.completedAt + UndoWindow
        /\ requests[r].at >= old.completedAt
        /\ old.applied.revision > 0
    BY <1>1 DEF Undoing, Revertible
  <1>5. /\ old.outcome \in AppliedOutcomes /\ old.outcome # "none"
        /\ old.createdAt <= old.completedAt /\ old.completedAt < old.createdAt + Ttl
        /\ old.createdAt <= now
    BY <1>2, <1>4 DEF Locked, OutcomesCarryTasks, DecisionTimes, CallsFollowProposals,
                      Decided, AppliedOutcomes
  <1>6. /\ row \in Confirmation /\ row.state = "undone" /\ row.undoneAt = requests[r].at
        /\ row.createdAt = old.createdAt /\ row.completedAt = old.completedAt
        /\ row.outcome = old.outcome /\ row.applied = old.applied
        /\ row.proposal = old.proposal
    BY <1>2, <1>3 DEF Confirmation
  <1> HIDE DEF row
  <1>7. \A q \in Requests : requests'[q] \in {requests[q], Idle}
    BY <1>1 DEF Reply, Typed, TypeOK
  <1>8. \A q \in Requests : requests'[q].phase = "locked" => requests[q].id # c
    BY <1>2, <1>7, LockedRow DEF Idle
  <1>9. /\ requests[r].at <= row.completedAt + UndoWindow /\ row.completedAt <= row.undoneAt
        /\ row.undoneAt <= row.completedAt + UndoWindow
    BY <1>3, <1>4, <1>6
  <1> QED BY <1>1, <1>2, <1>4, <1>5, <1>6, <1>7, <1>8, <1>9, RowChangeLocked

LEMMA PurgeLocked ==
    ASSUME Typed, Locked, NEW c \in ConfirmationIds, Purge(c)
    PROVE  Locked'
  <1> DEFINE row == Blank("purged")
  <1>1. /\ row \in Confirmation /\ row.state = "purged" /\ row.createdAt = 0
        /\ row.outcome = "none" /\ ~(row.applied.revision > 0)
    BY ConstantRows DEF Blank, NoTask
  <1>2. confirmations' = [confirmations EXCEPT ![c] = row] /\ UNCHANGED <<now, requests>>
    BY DEF Purge
  <1>3. \A q \in Requests : requests'[q].phase = "locked" => requests[q].id # c
    BY <1>2 DEF Purge, RowLocked
  <1>4. \A q \in Requests : requests'[q] \in {requests[q], Idle}
    BY <1>2
  <1>5. row.createdAt <= now
    BY <1>1 DEF Typed, TypeOK
  <1> HIDE DEF row
  <1>6. /\ row.state # "absent" /\ row.state # "undone"
        /\ row.state \notin {"confirmed", "undone", "rejected"}
        /\ row.outcome = "none" <=> row.state \notin {"confirmed", "undone"}
    BY <1>1
  <1> QED BY <1>1, <1>2, <1>3, <1>4, <1>5, <1>6, RowChangeLocked

LEMMA StepLocked ==
    ASSUME Typed, Locked, [Next]_vars
    PROVE  Locked'
  <1>1. ASSUME NEW c \in ConfirmationIds, Propose(c) \/ Purge(c)
        PROVE  Locked'
    BY <1>1, ProposeLocked, PurgeLocked
  <1>2. ASSUME NEW r \in Requests, NEW o \in Owners,
               NEW op \in {"confirm", "reject", "undo"},
               NEW c \in ConfirmationIds \cup {0}, Call(r, op, o, c)
        PROVE  Locked'
    BY <1>2, CallLocked
  <1>3. ASSUME NEW r \in Requests, Serve(r) \/ Fail(r)
        PROVE  Locked'
    <2>1. CASE Refuse(r) \/ RefuseUndo(r) \/ Fail(r)
      BY <2>1, ReplyLocked DEF Refuse, RefuseUndo, Fail
    <2>2. CASE Reject(r) \/ Lock(r) \/ Apply(r)
      BY <2>2, RejectLocked, LockLocked, ApplyLocked
    <2>3. CASE \E c \in ConfirmationIds : Undo(r, c)
      BY <2>3, UndoLocked
    <2> QED BY <1>3, <2>1, <2>2, <2>3 DEF Serve
  <1>4. ASSUME \/ \E i \in Ideas : EditIdea(i)
               \/ Tick
               \/ UNCHANGED vars
        PROVE  Locked'
    <2>1. UNCHANGED <<confirmations, requests>> /\ now' \in Nat /\ now' >= now
      <3>0. now \in Nat
        BY DEF Typed, TypeOK
      <3>1. CASE \E i \in Ideas : EditIdea(i)
        BY <3>0, <3>1 DEF EditIdea
      <3>2. CASE Tick
        BY <3>0, <3>2 DEF Tick
      <3>3. CASE UNCHANGED vars
        BY <3>0, <3>3 DEF vars
      <3> QED BY <1>4, <3>1, <3>2, <3>3
    <2>2. \A c \in ConfirmationIds : confirmations[c].createdAt \in Nat
      BY DEF Typed, TypeOK, Confirmation
    <2> QED BY <2>1, <2>2 DEF Locked, CallsFollowProposals, RowLockProtects, DecisionTimes,
               OutcomesCarryTasks, Decided, Typed, TypeOK
  <1> QED BY <1>1, <1>2, <1>3, <1>4 DEF Next

\* Every table keeps its type, and rows carry canonical proposals, whatever the order of
\* requests, failures and purges (the store's row type and normalizeTaskMutationProposal).
THEOREM TypeCorrect == Spec => [](TypeOK /\ Typed /\ Locked)
  <1>1. Init => Typed /\ Locked
    BY InitTyped, InitLocked
  <1>2. Typed /\ Locked /\ [Next]_vars => Typed' /\ Locked'
    BY StepTyped, StepLocked
  <1>3. Typed => TypeOK
    BY DEF Typed
  <1> QED BY <1>1, <1>2, <1>3, PTL DEF Spec

\* A row being decided stays pending, keeps its owner and has one decider from the row
\* lock to COMMIT (decide() against decide() and against purge()).
THEOREM LockSafety == Spec => []RowLockProtects
  BY TypeCorrect, PTL DEF Locked

\* Decisions fall between proposal and expiry, undos between decision and the end of the
\* undo window, however late the transaction runs after its request.
THEOREM DecisionTimesHold == Spec => []DecisionTimes
  BY TypeCorrect, PTL DEF Locked

-----------------------------------------------------------------------------
(* Decisions are final                                                     *)

\* What one step can do to one row.
LEMMA RowStep ==
    ASSUME Typed, Locked, [Next]_vars, NEW c \in ConfirmationIds
    PROVE  \/ confirmations'[c] = confirmations[c]
           \/ confirmations[c].state \in {"absent", "pending"}
           \/ confirmations'[c] = Blank("purged")
           \/ /\ confirmations[c].state = "confirmed"
              /\ \E at : confirmations'[c] =
                     [confirmations[c] EXCEPT !.state = "undone", !.undoneAt = at]
  <1> DEFINE Fine ==
          \/ confirmations'[c] = confirmations[c]
          \/ confirmations[c].state \in {"absent", "pending"}
          \/ confirmations'[c] = Blank("purged")
          \/ /\ confirmations[c].state = "confirmed"
             /\ \E at : confirmations'[c] =
                    [confirmations[c] EXCEPT !.state = "undone", !.undoneAt = at]
  <1>0. \A d, x : confirmations' = [confirmations EXCEPT ![d] = x] =>
            confirmations'[c] = IF c = d THEN x ELSE confirmations[c]
    BY DEF Typed, TypeOK
  <1>1. ASSUME NEW d \in ConfirmationIds, Propose(d) \/ Purge(d)
        PROVE  Fine
    <2>1. CASE Propose(d)
      <3>1. PICK x : /\ confirmations[d].state = "absent"
                     /\ confirmations' = [confirmations EXCEPT ![d] = x]
        BY <2>1 DEF Propose, ProposeCreate, ProposeIdeaToTask, ProposeChange, Save
      <3> QED BY <1>0, <3>1
    <2>2. CASE Purge(d)
      BY <1>0, <2>2 DEF Purge
    <2> QED BY <1>1, <2>1, <2>2
  <1>2. ASSUME NEW r \in Requests, Serve(r)
        PROVE  Fine
    <2>1. CASE Refuse(r) \/ RefuseUndo(r) \/ Lock(r)
      BY <2>1 DEF Refuse, RefuseUndo, Lock
    <2>2. CASE Reject(r)
      <3>1. PICK x : confirmations' = [confirmations EXCEPT ![requests[r].id] = x]
        BY <2>2 DEF Reject
      <3>2. confirmations[requests[r].id].state = "pending"
        BY <2>2 DEF Reject, Decidable
      <3> QED BY <1>0, <3>1, <3>2
    <2>3. CASE Apply(r)
      <3>1. PICK x : confirmations' = [confirmations EXCEPT ![requests[r].id] = x]
        BY <2>3 DEF Apply
      <3>2. confirmations[requests[r].id].state = "pending"
        BY <2>3 DEF Apply, Locked, RowLockProtects
      <3> QED BY <1>0, <3>1, <3>2
    <2>4. ASSUME NEW d \in ConfirmationIds, Undo(r, d)
          PROVE  Fine
      <3>1. confirmations' = [confirmations EXCEPT ![d] =
                [confirmations[d] EXCEPT !.state = "undone", !.undoneAt = requests[r].at]]
        BY <2>4 DEF Undo
      <3>2. confirmations[d].state = "confirmed"
        BY <2>4, UndoableRow DEF Undo
      <3>3. confirmations'[c] = IF c = d
                THEN [confirmations[d] EXCEPT !.state = "undone", !.undoneAt = requests[r].at]
                ELSE confirmations[c]
        BY <1>0, <3>1
      <3> QED BY <3>2, <3>3
    <2> QED BY <1>2, <2>1, <2>2, <2>3, <2>4 DEF Serve
  <1>3. ASSUME NEW r \in Requests, NEW o \in Owners,
               NEW op \in {"confirm", "reject", "undo"},
               NEW d \in ConfirmationIds \cup {0}, Call(r, op, o, d)
        PROVE  Fine
    BY <1>3 DEF Call
  <1>4. ASSUME \/ \E r \in Requests : Fail(r)
               \/ \E i \in Ideas : EditIdea(i)
               \/ Tick
               \/ UNCHANGED vars
        PROVE  Fine
    <2>1. UNCHANGED confirmations
      BY <1>4 DEF Fail, EditIdea, Tick, vars
    <2> QED BY <2>1
  <1> QED BY <1>1, <1>2, <1>3, <1>4 DEF Next

\* A decision is final: no replay, late reject, second confirm or second undo changes a
\* decided row, and only retention removes it.
THEOREM DecisionFinality == Spec => DecisionIsFinal
  <1>1. Typed /\ Locked /\ [Next]_vars => KeepsDecisions
    <2> SUFFICES ASSUME Typed, Locked, [Next]_vars, NEW c \in ConfirmationIds, Decided(c)
                 PROVE  \/ confirmations'[c] = Blank("purged")
                        \/ confirmations'[c] = confirmations[c]
                        \/ /\ confirmations[c].state = "confirmed"
                           /\ confirmations'[c] =
                                  [confirmations[c] EXCEPT !.state = "undone",
                                      !.undoneAt = confirmations'[c].undoneAt]
      BY DEF KeepsDecisions
    <2>1. ASSUME NEW at, confirmations'[c] =
                     [confirmations[c] EXCEPT !.state = "undone", !.undoneAt = at]
          PROVE  confirmations'[c].undoneAt = at
      <3>1. confirmations[c] \in Confirmation
        BY DEF Typed, TypeOK
      <3> QED BY <2>1, <3>1 DEF Confirmation
    <2> QED BY <2>1, RowStep DEF Decided
  <1> QED BY <1>1, TypeCorrect, PTL DEF Spec, DecisionIsFinal

-----------------------------------------------------------------------------
(* The idea context of a conversion                                        *)

\* What the stored context of one row says of its idea.
ContextHolds(c) ==
    LET row == confirmations[c]
    IN  row.state = "confirmed" /\ row.ideaRevision > 0 =>
            /\ row.proposal.kind = "idea_to_task"
            /\ row.ideaRevision <= ideas[row.proposal.task].revision
            /\ row.ideaRevision = ideas[row.proposal.task].revision =>
                   ideas[row.proposal.task].status = "planned" /\ LiveIdea(row.proposal.task)

\* A write of the idea bank takes the next revision of the idea it writes.
LEMMA RewrittenMoves ==
    ASSUME Typed, NEW j, NEW x \in Idea, j \in Ideas => x.revision = ideas[j].revision,
           ideas' = Rewritten(j, x)
    PROVE  \A i \in Ideas : \/ ideas'[i] = ideas[i]
                           \/ ideas'[i].revision = ideas[i].revision + 1
  BY NextRevisionType DEF Rewritten, Typed, TypeOK

\* Every change of an idea, whoever makes it, takes its next revision.
LEMMA IdeaMoves ==
    ASSUME Typed, Locked, [Next]_vars
    PROVE  \A i \in Ideas : \/ ideas'[i] = ideas[i]
                           \/ ideas'[i].revision = ideas[i].revision + 1
  <1> DEFINE Moves == \A i \in Ideas : \/ ideas'[i] = ideas[i]
                                       \/ ideas'[i].revision = ideas[i].revision + 1
  <1>0. \A i \in Ideas : ideas[i] \in Idea
    BY DEF Typed, TypeOK
  <1>1. ASSUME NEW r \in Requests, Apply(r)
        PROVE  Moves
    <2> DEFINE i == confirmations[requests[r].id].proposal.task
               x == [ideas[i] EXCEPT !.status = "planned"]
    <2>1. ideas' = ideas \/ (ideas' = Rewritten(i, x) /\ i \in Ideas)
      <3>1. requests[r].phase = "locked"
        BY <1>1 DEF Apply
      <3>2. confirmations[requests[r].id].proposal.kind = "idea_to_task" => i \in Ideas
        BY <3>1, LockedRow
      <3> QED BY <1>1, <3>2 DEF Apply, WithStatus, PlansIdea
    <2>2. i \in Ideas => x \in Idea /\ x.revision = ideas[i].revision
      BY <1>0 DEF Idea
    <2> HIDE DEF x
    <2> QED BY <2>1, <2>2, RewrittenMoves
  <1>2. ASSUME NEW r \in Requests, NEW c \in ConfirmationIds, Undo(r, c)
        PROVE  Moves
    <2> DEFINE i == confirmations[c].proposal.task
               x == [ideas[i] EXCEPT !.status = "raw"]
    <2>1. ideas' = ideas \/ ideas' = Rewritten(i, x)
      BY <1>2 DEF Undo, WithStatus
    <2>2. CASE i \in Ideas
      <3>1. x \in Idea /\ x.revision = ideas[i].revision
        BY <1>0, <2>2 DEF Idea
      <3> HIDE DEF x
      <3> QED BY <2>1, <3>1, RewrittenMoves
    <2>3. CASE i \notin Ideas
      BY <2>1, <2>3 DEF Rewritten, Typed, TypeOK
    <2> QED BY <2>2, <2>3
  <1>3. ASSUME NEW i \in Ideas, EditIdea(i)
        PROVE  Moves
    <2>1. PICK x \in Idea : ideas' = Rewritten(i, x) /\ x.revision = ideas[i].revision
      <3>1. \A s \in Contents : /\ [ideas[i] EXCEPT !.summary = s] \in Idea
                               /\ [ideas[i] EXCEPT !.summary = s].revision = ideas[i].revision
        BY <1>0 DEF Idea
      <3>2. \A s \in {"live", "deleted"} :
                /\ [ideas[i] EXCEPT !.presence = s] \in Idea
                /\ [ideas[i] EXCEPT !.presence = s].revision = ideas[i].revision
        BY <1>0 DEF Idea
      <3> QED BY <1>3, <3>1, <3>2 DEF EditIdea
    <2> QED BY <2>1, RewrittenMoves
  <1>4. ASSUME \/ \E c \in ConfirmationIds : Propose(c) \/ Purge(c)
               \/ \E r \in Requests : \/ Refuse(r) \/ Reject(r) \/ Lock(r)
                                     \/ RefuseUndo(r) \/ Fail(r)
               \/ \E r \in Requests, o \in Owners, op \in {"confirm", "reject", "undo"},
                     c \in ConfirmationIds \cup {0} : Call(r, op, o, c)
               \/ Tick
               \/ UNCHANGED vars
        PROVE  Moves
    <2>1. UNCHANGED ideas
      <3>1. ASSUME NEW c \in ConfirmationIds, Propose(c) \/ Purge(c)
            PROVE  UNCHANGED ideas
        BY <3>1 DEF Propose, ProposeCreate, ProposeIdeaToTask, ProposeChange, Save, Purge
      <3>2. ASSUME NEW r \in Requests, Refuse(r) \/ Reject(r) \/ Lock(r) \/ RefuseUndo(r) \/ Fail(r)
            PROVE  UNCHANGED ideas
        BY <3>2 DEF Refuse, Reject, Lock, RefuseUndo, Fail
      <3>3. ASSUME NEW r \in Requests, NEW o \in Owners, NEW op \in {"confirm", "reject", "undo"},
                   NEW c \in ConfirmationIds \cup {0}, Call(r, op, o, c)
            PROVE  UNCHANGED ideas
        BY <3>3 DEF Call
      <3>4. CASE Tick \/ UNCHANGED vars
        BY <3>4 DEF Tick, vars
      <3> QED BY <1>4, <3>1, <3>2, <3>3, <3>4
    <2> QED BY <2>1
  <1> QED BY <1>1, <1>2, <1>3, <1>4 DEF Next, Serve

\* A row that keeps its context keeps it true: its idea only moves to later revisions.
LEMMA ContextKept ==
    ASSUME Typed, Locked, [Next]_vars, NEW c \in ConfirmationIds, ContextHolds(c),
           confirmations'[c].state = "confirmed" =>
               /\ confirmations[c].state = "confirmed"
               /\ confirmations'[c].ideaRevision = confirmations[c].ideaRevision
               /\ confirmations'[c].proposal = confirmations[c].proposal
    PROVE  ContextHolds(c)'
  <1> DEFINE row == confirmations[c]
             i   == row.proposal.task
  <1> SUFFICES ASSUME confirmations'[c].state = "confirmed", confirmations'[c].ideaRevision > 0
               PROVE  /\ row.proposal.kind = "idea_to_task"
                      /\ row.ideaRevision <= ideas'[i].revision
                      /\ row.ideaRevision = ideas'[i].revision =>
                             ideas'[i].status = "planned" /\ ideas'[i].presence = "live"
    BY DEF ContextHolds, LiveIdea
  <1>1. /\ row.proposal.kind = "idea_to_task"
        /\ row.ideaRevision <= ideas[i].revision
        /\ row.ideaRevision = ideas[i].revision =>
               ideas[i].status = "planned" /\ ideas[i].presence = "live"
    BY DEF ContextHolds, LiveIdea
  <1>2. i \in Ideas /\ row.ideaRevision \in Nat
    BY <1>1 DEF Typed, TypeOK, RowsWellFormed, Issued, Decided, Confirmation
  <1>3. ideas[i].revision \in Nat
    BY <1>2 DEF Typed, TypeOK, Idea
  <1>4. ideas'[i] = ideas[i] \/ ideas'[i].revision = ideas[i].revision + 1
    BY <1>2, IdeaMoves
  <1> QED BY <1>1, <1>2, <1>3, <1>4

\* The context a commit stores is what the commit made of the idea.
LEMMA ApplyContext ==
    ASSUME Typed, Locked, NEW r \in Requests, NEW c, requests[r].id = c, Apply(r)
    PROVE  ContextHolds(c)'
  <1> DEFINE row    == confirmations[c]
             p      == row.proposal
             result == Effect(row.owner, p)
             plans  == PlansIdea(p, result.outcome, requests[r].ideaSeen)
             rev    == IF plans THEN ideas[p.task].revision + 1 ELSE 0
             stored == [row EXCEPT !.state = "confirmed", !.completedAt = requests[r].at,
                                   !.outcome = result.outcome, !.applied = result.task,
                                   !.before = requests[r].before, !.ideaRevision = rev]
             x      == [ideas[p.task] EXCEPT !.status = "planned"]
  <1>1. /\ c \in ConfirmationIds /\ row \in Confirmation
        /\ p.kind = "idea_to_task" => p.task \in Ideas
    BY LockedRow DEF Apply
  <1>2. /\ ideas' = IF plans THEN WithStatus(p.task, "planned") ELSE ideas
        /\ confirmations' = [confirmations EXCEPT ![c] = stored]
    BY DEF Apply
  <1>3. stored.ideaRevision = rev /\ stored.proposal = p
    BY <1>1 DEF Confirmation
  <1>4. confirmations'[c] = stored
    BY <1>1, <1>2 DEF Typed, TypeOK
  <1>5. CASE plans
    <2>1. p.kind = "idea_to_task" /\ p.task \in Ideas /\ LiveIdea(p.task)
      BY <1>1, <1>5 DEF PlansIdea
    <2>2. /\ x \in Idea /\ x.status = "planned" /\ x.presence = "live"
          /\ x.revision = ideas[p.task].revision
      BY <2>1 DEF LiveIdea, Typed, TypeOK, Idea
    <2>3. ideas' = [ideas EXCEPT ![p.task] = NextRevision(x)]
      BY <1>2, <1>5 DEF WithStatus, Rewritten
    <2> HIDE DEF x, stored, plans
    <2>4. /\ ideas'[p.task].status = "planned" /\ ideas'[p.task].presence = "live"
          /\ ideas'[p.task].revision = ideas[p.task].revision + 1
      BY <2>1, <2>2, <2>3, NextRevisionType DEF Typed, TypeOK
    <2>5. ideas[p.task].revision \in Nat
      BY <2>1 DEF Typed, TypeOK, Idea
    <2>6. rev = ideas[p.task].revision + 1
      BY <1>5
    <2> QED BY <1>3, <1>4, <2>1, <2>4, <2>5, <2>6 DEF ContextHolds, LiveIdea
  <1>6. CASE ~plans
    BY <1>3, <1>4, <1>6 DEF ContextHolds
  <1> QED BY <1>5, <1>6

\* Only the commit of its own request makes a row confirmed.
LEMMA QuietRow ==
    ASSUME Typed, Locked, [Next]_vars, NEW c \in ConfirmationIds,
           confirmations'[c].state = "confirmed",
           ~ \E r \in Requests : Apply(r) /\ requests[r].id = c
    PROVE  confirmations'[c] = confirmations[c]
  <1>0. \A d, x : confirmations' = [confirmations EXCEPT ![d] = x] =>
            confirmations'[c] = IF c = d THEN x ELSE confirmations[c]
    BY DEF Typed, TypeOK
  <1>1. ASSUME NEW d \in ConfirmationIds, Propose(d) \/ Purge(d)
        PROVE  confirmations'[c] = confirmations[c]
    <2>1. PICK x : x.state # "confirmed" /\ confirmations' = [confirmations EXCEPT ![d] = x]
      <3>1. \A o, p : [Blank("pending") EXCEPT !.owner = o, !.proposal = p,
                                             !.createdAt = now].state = "pending"
        BY DEF Blank
      <3>2. Blank("purged").state = "purged"
        BY DEF Blank
      <3>3. CASE Propose(d)
        <4>1. PICK o, p : Save(o, d, p)
          BY <3>3 DEF Propose, ProposeCreate, ProposeIdeaToTask, ProposeChange
        <4> QED BY <3>1, <4>1 DEF Save
      <3>4. CASE Purge(d)
        BY <3>2, <3>4 DEF Purge
      <3> QED BY <1>1, <3>3, <3>4
    <2> QED BY <1>0, <2>1
  <1>2. ASSUME NEW r \in Requests, Serve(r)
        PROVE  confirmations'[c] = confirmations[c]
    <2>1. CASE Refuse(r) \/ RefuseUndo(r) \/ Lock(r)
      BY <2>1 DEF Refuse, RefuseUndo, Lock
    <2>2. CASE Reject(r)
      <3> DEFINE x == [confirmations[requests[r].id] EXCEPT !.state = "rejected",
                                                            !.completedAt = requests[r].at]
      <3>1. confirmations' = [confirmations EXCEPT ![requests[r].id] = x]
        BY <2>2 DEF Reject
      <3>2. requests[r].id \in ConfirmationIds
        BY <2>2 DEF Reject, Deciding, Locked, CallsFollowProposals
      <3>3. x.state = "rejected"
        BY <3>2 DEF Typed, TypeOK, Confirmation
      <3> QED BY <1>0, <3>1, <3>3
    <2>3. CASE Apply(r)
      <3>1. PICK x : confirmations' = [confirmations EXCEPT ![requests[r].id] = x]
        BY <2>3 DEF Apply
      <3> QED BY <1>0, <2>3, <3>1
    <2>4. ASSUME NEW d \in ConfirmationIds, Undo(r, d)
          PROVE  confirmations'[c] = confirmations[c]
      <3> DEFINE x == [confirmations[d] EXCEPT !.state = "undone", !.undoneAt = requests[r].at]
      <3>1. confirmations' = [confirmations EXCEPT ![d] = x]
        BY <2>4 DEF Undo
      <3>2. x.state = "undone"
        BY DEF Typed, TypeOK, Confirmation
      <3> QED BY <1>0, <3>1, <3>2
    <2> QED BY <1>2, <2>1, <2>2, <2>3, <2>4 DEF Serve
  <1>3. ASSUME NEW r \in Requests, NEW o \in Owners,
               NEW op \in {"confirm", "reject", "undo"},
               NEW d \in ConfirmationIds \cup {0}, Call(r, op, o, d)
        PROVE  confirmations'[c] = confirmations[c]
    BY <1>3 DEF Call
  <1>4. ASSUME \/ \E r \in Requests : Fail(r)
               \/ \E i \in Ideas : EditIdea(i)
               \/ Tick
               \/ UNCHANGED vars
        PROVE  confirmations'[c] = confirmations[c]
    BY <1>4 DEF Fail, EditIdea, Tick, vars
  <1> QED BY <1>1, <1>2, <1>3, <1>4 DEF Next

LEMMA StepContext ==
    ASSUME Typed, Locked, IdeaContextCurrent, [Next]_vars, NEW c \in ConfirmationIds
    PROVE  ContextHolds(c)'
  <1>0. ContextHolds(c)
    BY DEF IdeaContextCurrent, ContextHolds
  <1>1. CASE \E r \in Requests : Apply(r) /\ requests[r].id = c
    BY <1>1, ApplyContext
  <1>2. CASE ~ \E r \in Requests : Apply(r) /\ requests[r].id = c
    <2>1. confirmations'[c].state = "confirmed" => confirmations'[c] = confirmations[c]
      BY <1>2, QuietRow
    <2> QED BY <1>0, <2>1, ContextKept
  <1> QED BY <1>1, <1>2

\* A stored idea context never names a state of the idea other than the one its
\* conversion left, so undo restores exactly that idea or nothing
\* (restoreIdeaStatus, restoreIdeaUndoContext).
THEOREM IdeaContext == Spec => []IdeaContextCurrent
  <1>1. Init => IdeaContextCurrent
    BY DEF Init, IdeaContextCurrent, Blank
  <1>2. Typed /\ Locked /\ IdeaContextCurrent /\ [Next]_vars => IdeaContextCurrent'
    BY StepContext DEF IdeaContextCurrent, ContextHolds
  <1> QED BY <1>1, <1>2, TypeCorrect, PTL DEF Spec
-----------------------------------------------------------------------------
(* Writes of the task table                                                *)

\* A task that is not there has no fields.
NoRowIsBlank == \A t \in TaskIds : tasks[t].revision = 0 => tasks[t] = NoTask

\* What the task writer returns, by outcome.
LEMMA EffectByOutcome ==
    ASSUME Typed, NEW o \in Owners, NEW p \in Proposal, p.task \in TaskIds
    PROVE  LET result == Effect(o, p)
           IN  /\ result.outcome = "created" =>
                      /\ p.kind \in CreateKinds /\ ~Exists(p.task)
                      /\ result.task.owner = o /\ result.task.revision = 1
               /\ result.outcome = "updated" =>
                      /\ OwnTask(o, p.task) /\ result.task.owner = o
                      /\ result.task.revision = tasks[p.task].revision + 1
               /\ result.outcome = "unchanged" => result.task = tasks[p.task]
               /\ result.outcome \notin AppliedOutcomes => result.task = NoTask
  <1>t. tasks[p.task] \in Task
    BY DEF Typed, TypeOK
  <1>1. CASE p.kind \in CreateKinds
    BY <1>1 DEF Effect, CreateEffect, AppliedOutcomes
  <1>2. CASE p.kind \notin CreateKinds
    <2> DEFINE patched == Patched(tasks[p.task], p)
    <2>1. /\ patched \in Task
          /\ patched.owner = tasks[p.task].owner /\ patched.revision = tasks[p.task].revision
      BY <1>t DEF Patched, Task, TaskStatus, Proposal
    <2>2. /\ NextRevision(patched).revision = tasks[p.task].revision + 1
          /\ NextRevision(patched).owner = tasks[p.task].owner
      BY <2>1, NextRevisionType
    <2>3. Effect(o, p) = UpdateEffect(o, p)
      BY <1>2 DEF Effect
    <2>4. UpdateEffect(o, p) =
             IF ~OwnTask(o, p.task) THEN [outcome |-> "not_found", task |-> NoTask]
             ELSE IF tasks[p.task].revision # p.expected
             THEN [outcome |-> "conflict", task |-> NoTask]
             ELSE IF patched = tasks[p.task] THEN [outcome |-> "unchanged", task |-> tasks[p.task]]
             ELSE [outcome |-> "updated", task |-> NextRevision(patched)]
      BY DEF UpdateEffect
    <2> HIDE DEF patched
    <2> QED BY <2>2, <2>3, <2>4 DEF AppliedOutcomes, OwnTask
  <1> QED BY <1>1, <1>2

\* What a commit does to the task, to its row and to every other row.
LEMMA ApplyWrites ==
    ASSUME Typed, Locked, NEW r \in Requests, Apply(r)
    PROVE  LET c      == requests[r].id
               p      == confirmations[c].proposal
               result == Effect(confirmations[c].owner, p)
           IN  /\ c \in ConfirmationIds /\ p \in Proposal /\ p.task \in TaskIds
               /\ p.kind = "idea_to_task" => p.task \in Ideas
               /\ confirmations[c].state = "pending"
               /\ confirmations[c].owner \in Owners
               /\ confirmations[c].owner = requests[r].owner
               /\ confirmations'[c].state = "confirmed"
               /\ confirmations'[c].proposal = p
               /\ confirmations'[c].outcome = result.outcome
               /\ confirmations'[c].applied = result.task
               /\ \A d \in ConfirmationIds \ {c} : confirmations'[d] = confirmations[d]
               /\ result.outcome \in {"created", "updated"} => tasks'[p.task] = result.task
               /\ result.outcome \notin {"created", "updated"} => tasks' = tasks
               /\ \A t \in TaskIds \ {p.task} : tasks'[t] = tasks[t]
               /\ requests'[r] = Idle
  <1> DEFINE c      == requests[r].id
             row    == confirmations[c]
             p      == row.proposal
             result == Effect(row.owner, p)
             plans  == PlansIdea(p, result.outcome, requests[r].ideaSeen)
             rev    == IF plans THEN ideas[p.task].revision + 1 ELSE 0
             stored == [row EXCEPT !.state = "confirmed", !.completedAt = requests[r].at,
                                   !.outcome = result.outcome, !.applied = result.task,
                                   !.before = requests[r].before, !.ideaRevision = rev]
  <1>0. requests[r].phase = "locked"
    BY DEF Apply
  <1>1. /\ c \in ConfirmationIds /\ row \in Confirmation /\ row.state = "pending"
        /\ row.owner \in Owners /\ p \in Proposal /\ p.task \in TaskIds
        /\ p.kind = "idea_to_task" => p.task \in Ideas
    BY <1>0, LockedRow
  <1>2. row.owner = requests[r].owner
    BY <1>0 DEF Locked, RowLockProtects
  <1>3. /\ tasks' = IF result.outcome \in {"created", "updated"}
                    THEN [tasks EXCEPT ![p.task] = result.task] ELSE tasks
        /\ confirmations' = [confirmations EXCEPT ![c] = stored]
        /\ Reply(r)
    BY DEF Apply
  <1>4. tasks \in [TaskIds -> Task] /\ confirmations \in [ConfirmationIds -> Confirmation]
        /\ requests \in [Requests -> Request]
    BY DEF Typed, TypeOK
  <1>5. requests'[r] = Idle
    BY <1>3, <1>4 DEF Reply
  <1> HIDE DEF result, plans, rev
  <1>6. /\ stored.state = "confirmed" /\ stored.proposal = p
        /\ stored.outcome = result.outcome /\ stored.applied = result.task
    BY <1>1 DEF Confirmation
  <1> HIDE DEF stored
  <1>7. /\ confirmations'[c] = stored
        /\ \A d \in ConfirmationIds \ {c} : confirmations'[d] = confirmations[d]
    BY <1>1, <1>3, <1>4
  <1>8. /\ result.outcome \in {"created", "updated"} => tasks'[p.task] = result.task
        /\ result.outcome \notin {"created", "updated"} => tasks' = tasks
        /\ \A t \in TaskIds \ {p.task} : tasks'[t] = tasks[t]
    BY <1>1, <1>3, <1>4
  <1> QED BY <1>1, <1>2, <1>5, <1>6, <1>7, <1>8 DEF result

\* What an undo does to the task, to its row and to every other row.
LEMMA UndoWrites ==
    ASSUME Typed, NEW r \in Requests, NEW c \in ConfirmationIds, Undo(r, c)
    PROVE  LET t == confirmations[c].proposal.task
           IN  /\ t \in TaskIds /\ Exists(t)
               /\ confirmations[c].state = "confirmed"
               /\ confirmations[c].owner = requests[r].owner
               /\ tasks[t].owner = requests[r].owner
               /\ tasks[t].revision = confirmations[c].applied.revision
               /\ confirmations'[c].state = "undone"
               /\ confirmations'[c].proposal = confirmations[c].proposal
               /\ confirmations'[c].applied = confirmations[c].applied
               /\ \A d \in ConfirmationIds \ {c} : confirmations'[d] = confirmations[d]
               /\ \/ tasks'[t] = NoTask \/ tasks'[t] = tasks[t]
                  \/ /\ tasks'[t].revision = tasks[t].revision + 1
                     /\ tasks'[t].owner = tasks[t].owner
               /\ \A u \in TaskIds \ {t} : tasks'[u] = tasks[u]
               /\ requests'[r] = Idle
  <1> DEFINE t        == confirmations[c].proposal.task
             new      == [confirmations[c] EXCEPT !.state = "undone", !.undoneAt = requests[r].at]
             restored == [tasks[t] EXCEPT !.content = confirmations[c].before.content,
                                          !.status = confirmations[c].before.status]
  <1>1. /\ tasks' = [tasks EXCEPT ![t] = Reverted(c)]
        /\ confirmations' = [confirmations EXCEPT ![c] = new]
        /\ Reply(r) /\ Undoing(r, c)
    BY DEF Undo
  <1>2. confirmations[c] \in Confirmation /\ confirmations[c].state = "confirmed" /\ t \in TaskIds
    BY <1>1, UndoableRow
  <1>3. tasks \in [TaskIds -> Task] /\ confirmations \in [ConfirmationIds -> Confirmation]
        /\ requests \in [Requests -> Request]
    BY DEF Typed, TypeOK
  <1>4. /\ confirmations[c].owner = requests[r].owner
        /\ Exists(t) /\ tasks[t].owner = confirmations[c].owner
        /\ tasks[t].revision = confirmations[c].applied.revision
    BY <1>1 DEF Undoing, IsLatest, Undoable, Revertible, OwnTask
  <1>5. /\ new.state = "undone" /\ new.proposal = confirmations[c].proposal
        /\ new.applied = confirmations[c].applied
    BY <1>2 DEF Confirmation
  <1> HIDE DEF new
  <1>6. /\ confirmations'[c] = new
        /\ \A d \in ConfirmationIds \ {c} : confirmations'[d] = confirmations[d]
        /\ requests'[r] = Idle
    BY <1>1, <1>3 DEF Reply
  <1>7. /\ tasks'[t] = Reverted(c)
        /\ \A u \in TaskIds \ {t} : tasks'[u] = tasks[u]
    BY <1>1, <1>2, <1>3
  <1>8. /\ restored \in Task /\ restored.owner = tasks[t].owner
        /\ restored.revision = tasks[t].revision
    BY <1>2, <1>3 DEF Confirmation, Task
  <1>9. Reverted(c) \in {NoTask, tasks[t], NextRevision(restored)}
    BY DEF Reverted
  <1> HIDE DEF restored
  <1>10. /\ NextRevision(restored).revision = tasks[t].revision + 1
         /\ NextRevision(restored).owner = tasks[t].owner
    BY <1>8, NextRevisionType
  <1> QED BY <1>2, <1>4, <1>5, <1>6, <1>7, <1>9, <1>10

\* The task table is written by commits and by undos and by nothing else; apart from them
\* a row only appears, blank but for its proposal, or is rejected or purged.
LEMMA QuietStep ==
    ASSUME Typed, Locked, [Next]_vars,
           ~ \E r \in Requests : Apply(r) \/ \E c \in ConfirmationIds : Undo(r, c)
    PROVE  /\ tasks' = tasks
           /\ \A c \in ConfirmationIds :
                  \/ confirmations'[c] = confirmations[c]
                  \/ confirmations'[c] = Blank("purged") /\ Purge(c)
                  \/ /\ confirmations[c].state = "absent" /\ Propose(c)
                     /\ confirmations'[c].state = "pending"
                     /\ confirmations'[c].applied = NoTask
                     /\ \A d \in ConfirmationIds \ {c} : confirmations'[d] = confirmations[d]
                  \/ /\ confirmations[c].state = "pending"
                     /\ confirmations'[c].state = "rejected"
                     /\ confirmations'[c].proposal = confirmations[c].proposal
                     /\ confirmations'[c].applied = confirmations[c].applied
  <1> DEFINE Fine(c) ==
          \/ confirmations'[c] = confirmations[c]
          \/ confirmations'[c] = Blank("purged") /\ Purge(c)
          \/ /\ confirmations[c].state = "absent" /\ Propose(c)
             /\ confirmations'[c].state = "pending"
             /\ confirmations'[c].applied = NoTask
             /\ \A d \in ConfirmationIds \ {c} : confirmations'[d] = confirmations[d]
          \/ /\ confirmations[c].state = "pending"
             /\ confirmations'[c].state = "rejected"
             /\ confirmations'[c].proposal = confirmations[c].proposal
             /\ confirmations'[c].applied = confirmations[c].applied
  <1> DEFINE Quiet == tasks' = tasks /\ \A c \in ConfirmationIds : Fine(c)
  <1> SUFFICES Quiet
    OBVIOUS
  <1>0. ASSUME NEW d \in ConfirmationIds, NEW x,
               confirmations' = [confirmations EXCEPT ![d] = x]
        PROVE  /\ confirmations'[d] = x
               /\ \A c \in ConfirmationIds \ {d} : confirmations'[c] = confirmations[c]
    BY <1>0 DEF Typed, TypeOK
  <1>1. ASSUME NEW d \in ConfirmationIds, Propose(d)
        PROVE  Quiet
    <2>1. PICK o, p : Save(o, d, p)
      BY <1>1 DEF Propose, ProposeCreate, ProposeIdeaToTask, ProposeChange
    <2> DEFINE x == [Blank("pending") EXCEPT !.owner = o, !.proposal = p, !.createdAt = now]
    <2>2. x.state = "pending" /\ x.applied = NoTask
      BY DEF Blank
    <2>3. /\ confirmations[d].state = "absent" /\ tasks' = tasks
          /\ confirmations' = [confirmations EXCEPT ![d] = x]
      BY <2>1 DEF Save
    <2> HIDE DEF x
    <2>4. /\ confirmations'[d] = x
          /\ \A c \in ConfirmationIds \ {d} : confirmations'[c] = confirmations[c]
      BY <1>0, <2>3
    <2> QED BY <1>1, <2>2, <2>3, <2>4
  <1>2. ASSUME NEW d \in ConfirmationIds, Purge(d)
        PROVE  Quiet
    <2>1. tasks' = tasks /\ confirmations' = [confirmations EXCEPT ![d] = Blank("purged")]
      BY <1>2 DEF Purge
    <2> QED BY <1>0, <1>2, <2>1
  <1>3. ASSUME NEW r \in Requests, Reject(r)
        PROVE  Quiet
    <2> DEFINE d == requests[r].id
               x == [confirmations[d] EXCEPT !.state = "rejected", !.completedAt = requests[r].at]
    <2>1. /\ d \in ConfirmationIds /\ confirmations[d].state = "pending" /\ tasks' = tasks
      BY <1>3 DEF Reject, Deciding, Decidable, Locked, CallsFollowProposals
    <2>2. confirmations' = [confirmations EXCEPT ![d] = x]
      BY <1>3 DEF Reject
    <2>3. /\ x.state = "rejected" /\ x.proposal = confirmations[d].proposal
          /\ x.applied = confirmations[d].applied
      BY <2>1 DEF Typed, TypeOK, Confirmation
    <2> HIDE DEF x
    <2>4. /\ confirmations'[d] = x
          /\ \A c \in ConfirmationIds \ {d} : confirmations'[c] = confirmations[c]
      BY <1>0, <2>1, <2>2
    <2> QED BY <2>1, <2>3, <2>4
  <1>4. ASSUME \/ \E r \in Requests : Refuse(r) \/ Lock(r) \/ RefuseUndo(r) \/ Fail(r)
               \/ \E r \in Requests, o \in Owners, op \in {"confirm", "reject", "undo"},
                     c \in ConfirmationIds \cup {0} : Call(r, op, o, c)
               \/ \E i \in Ideas : EditIdea(i)
               \/ Tick
               \/ UNCHANGED vars
        PROVE  Quiet
    <2>1. UNCHANGED <<tasks, confirmations>>
      BY <1>4 DEF Refuse, Lock, RefuseUndo, Fail, Call, EditIdea, Tick, vars
    <2> QED BY <2>1
  <1> QED BY <1>1, <1>2, <1>3, <1>4 DEF Next, Serve

\* A task that comes back to revision 0 comes back to no row at all.
LEMMA NoRowStep ==
    ASSUME Typed, Locked, NoRowIsBlank, [Next]_vars
    PROVE  NoRowIsBlank'
  <1> SUFFICES ASSUME NEW t \in TaskIds, tasks'[t].revision = 0
               PROVE  tasks'[t] = NoTask
    BY DEF NoRowIsBlank
  <1>0. tasks[t].revision \in Nat /\ (tasks[t].revision = 0 => tasks[t] = NoTask)
    BY DEF NoRowIsBlank, Typed, TypeOK, Task
  <1>1. ASSUME NEW r \in Requests, Apply(r)
        PROVE  tasks'[t] = NoTask
    <2> DEFINE p      == confirmations[requests[r].id].proposal
               result == Effect(confirmations[requests[r].id].owner, p)
    <2>1. CASE t = p.task /\ result.outcome \in {"created", "updated"}
      <3>1. tasks'[t] = result.task
        BY <1>1, <2>1, ApplyWrites
      <3>2. result.task.revision = 1 \/ result.task.revision = tasks[t].revision + 1
        BY <1>1, <2>1, ApplyWrites, EffectByOutcome
      <3> QED BY <1>0, <3>1, <3>2
    <2>2. CASE ~(t = p.task /\ result.outcome \in {"created", "updated"})
      <3>1. tasks'[t] = tasks[t]
        BY <1>1, <2>2, ApplyWrites
      <3> QED BY <1>0, <3>1
    <2> QED BY <2>1, <2>2
  <1>2. ASSUME NEW r \in Requests, NEW c \in ConfirmationIds, Undo(r, c)
        PROVE  tasks'[t] = NoTask
    <2>1. \/ tasks'[t] = NoTask \/ tasks'[t] = tasks[t]
          \/ tasks'[t].revision = tasks[t].revision + 1
      BY <1>2, UndoWrites
    <2> QED BY <1>0, <2>1
  <1>3. CASE ~ \E r \in Requests : Apply(r) \/ \E c \in ConfirmationIds : Undo(r, c)
    BY <1>0, <1>3, QuietStep
  <1> QED BY <1>1, <1>2, <1>3

LEMMA InitNoRow == Init => NoRowIsBlank
  BY DEF Init, NoRowIsBlank

-----------------------------------------------------------------------------
(* A revision names one row                                                *)

\* What a stored outcome says of a task created from scratch.
NamesRow(c) ==
    LET row == confirmations[c]
        t   == row.proposal.task
    IN  row.applied.revision > 0 /\ t \in DirectIds /\ Exists(t) =>
            /\ row.applied.revision <= tasks[t].revision
            /\ row.applied.revision = tasks[t].revision => row.applied = tasks[t]

\* What a pending create says of its id.
IsFresh(c) ==
    confirmations[c].state = "pending" /\ confirmations[c].proposal.kind = "create" =>
        /\ ~Exists(confirmations[c].proposal.task)
        /\ \A d \in ConfirmationIds \ {c} :
               confirmations[d].proposal.task # confirmations[c].proposal.task

\* A step that leaves a row alone, and its task at the same or a later revision, keeps
\* what the row says.
LEMMA NamesKept ==
    ASSUME Typed, Typed', NEW c \in ConfirmationIds, NamesRow(c),
           confirmations'[c].proposal = confirmations[c].proposal,
           confirmations'[c].applied = confirmations[c].applied,
           LET t == confirmations[c].proposal.task
           IN  t \in DirectIds /\ confirmations[c].applied.revision > 0 =>
                   \/ tasks'[t] = tasks[t] \/ tasks'[t].revision = 0
                   \/ Exists(t) /\ tasks'[t].revision = tasks[t].revision + 1
    PROVE  NamesRow(c)'
  <1> DEFINE t == confirmations[c].proposal.task
  <1> SUFFICES ASSUME confirmations[c].applied.revision > 0, t \in DirectIds,
                      tasks'[t].revision > 0
               PROVE  /\ confirmations[c].applied.revision <= tasks'[t].revision
                      /\ confirmations[c].applied.revision = tasks'[t].revision =>
                             confirmations[c].applied = tasks'[t]
    BY DEF NamesRow, Exists
  <1>1. tasks[t].revision \in Nat /\ confirmations[c].applied.revision \in Nat
    BY DEF Typed, TypeOK, Task, TaskIds, Confirmation
  <1>2. CASE tasks'[t] = tasks[t]
    BY <1>2 DEF NamesRow, Exists
  <1>3. CASE tasks[t].revision > 0 /\ tasks'[t].revision = tasks[t].revision + 1
    <2>1. confirmations[c].applied.revision <= tasks[t].revision
      BY <1>3 DEF NamesRow, Exists
    <2> QED BY <1>1, <1>3, <2>1
  <1> QED BY <1>2, <1>3 DEF Exists

LEMMA NamesStep ==
    ASSUME Typed, Locked, CreatesAreFresh, [Next]_vars, Typed',
           NEW c \in ConfirmationIds, NamesRow(c)
    PROVE  NamesRow(c)'
  <1>1. ASSUME NEW r \in Requests, Apply(r)
        PROVE  NamesRow(c)'
    <2> DEFINE d      == requests[r].id
               p      == confirmations[d].proposal
               result == Effect(confirmations[d].owner, p)
    <2>1. /\ d \in ConfirmationIds /\ confirmations[d].state = "pending"
          /\ p.kind = "idea_to_task" => p.task \in Ideas
          /\ confirmations'[d].proposal = p /\ confirmations'[d].applied = result.task
          /\ \A e \in ConfirmationIds \ {d} : confirmations'[e] = confirmations[e]
          /\ result.outcome \in {"created", "updated"} => tasks'[p.task] = result.task
          /\ result.outcome \notin {"created", "updated"} => tasks' = tasks
          /\ \A t \in TaskIds \ {p.task} : tasks'[t] = tasks[t]
      BY <1>1, ApplyWrites
    <2>2. /\ result.outcome = "created" => p.kind \in CreateKinds
          /\ result.outcome = "updated" =>
                 Exists(p.task) /\ result.task.revision = tasks[p.task].revision + 1
          /\ result.outcome = "unchanged" => result.task = tasks[p.task]
          /\ result.outcome \notin AppliedOutcomes => result.task = NoTask
      BY <1>1, ApplyWrites, EffectByOutcome DEF OwnTask
    <2> HIDE DEF result
    <2>3. CASE c = d
      <3>1. result.task = tasks'[p.task] \/ result.task.revision = 0
        BY <2>1, <2>2 DEF AppliedOutcomes, NoTask
      <3>2. tasks'[p.task] \in Task \/ p.task \notin DirectIds
        BY DEF Typed, TypeOK, TaskIds
      <3>3. /\ confirmations'[c].proposal.task = p.task
            /\ confirmations'[c].applied = result.task
        BY <2>1, <2>3
      <3> HIDE DEF p, d
      <3> QED BY <3>1, <3>2, <3>3 DEF NamesRow, Exists, Task
    <2>4. CASE c # d
      <3> DEFINE t == confirmations[c].proposal.task
      <3>1. confirmations'[c] = confirmations[c]
        BY <2>1, <2>4
      <3>2. CASE t = p.task /\ t \in DirectIds
        <4>1. result.outcome # "created"
          <5>1. SUFFICES ASSUME result.outcome = "created" PROVE FALSE
            OBVIOUS
          <5>2. p.kind = "create"
            BY <2>1, <2>2, <3>2, <5>1, IdsAssumption DEF CreateKinds
          <5> QED BY <2>1, <2>4, <3>2, <5>2 DEF CreatesAreFresh
        <4>2. \/ tasks'[t] = tasks[t]
              \/ Exists(t) /\ tasks'[t].revision = tasks[t].revision + 1
          BY <2>1, <2>2, <3>2, <4>1
        <4> QED BY <3>1, <4>2, NamesKept
      <3>3. CASE t # p.task /\ t \in DirectIds
        <4>1. tasks'[t] = tasks[t]
          BY <2>1, <3>3 DEF TaskIds
        <4> QED BY <3>1, <4>1, NamesKept
      <3>4. CASE t \notin DirectIds
        BY <3>1, <3>4, NamesKept
      <3> QED BY <3>2, <3>3, <3>4
    <2> QED BY <2>3, <2>4
  <1>2. ASSUME NEW r \in Requests, NEW d \in ConfirmationIds, Undo(r, d)
        PROVE  NamesRow(c)'
    <2> DEFINE t == confirmations[d].proposal.task
               u == confirmations[c].proposal.task
    <2>1. /\ confirmations'[c].proposal = confirmations[c].proposal
          /\ confirmations'[c].applied = confirmations[c].applied
      BY <1>2, UndoWrites
    <2>2. /\ Exists(t)
          /\ \/ tasks'[t] = NoTask \/ tasks'[t] = tasks[t]
             \/ tasks'[t].revision = tasks[t].revision + 1
          /\ \A v \in TaskIds \ {t} : tasks'[v] = tasks[v]
      BY <1>2, UndoWrites
    <2>3. u \in DirectIds =>
              \/ tasks'[u] = tasks[u] \/ tasks'[u].revision = 0
              \/ Exists(u) /\ tasks'[u].revision = tasks[u].revision + 1
      BY <2>2 DEF TaskIds, NoTask
    <2> QED BY <2>1, <2>3, NamesKept
  <1>3. CASE ~ \E r \in Requests : Apply(r) \/ \E d \in ConfirmationIds : Undo(r, d)
    <2>1. tasks' = tasks
      BY <1>3, QuietStep
    <2>2. CASE /\ confirmations'[c].proposal = confirmations[c].proposal
               /\ confirmations'[c].applied = confirmations[c].applied
      BY <2>1, <2>2, NamesKept
    <2>3. CASE confirmations'[c].applied = NoTask
      BY <2>3 DEF NamesRow, NoTask
    <2>4. CASE confirmations'[c] = Blank("purged")
      <3>1. Blank("purged").applied = NoTask
        BY DEF Blank
      <3> QED BY <2>3, <2>4, <3>1
    <2> QED BY <1>3, <2>2, <2>3, <2>4, QuietStep
  <1> QED BY <1>1, <1>2, <1>3

\* A new row about a task that is not there is a create, with an id no row mentions.
LEMMA ProposalIsFresh ==
    ASSUME Typed, NEW d \in ConfirmationIds, Propose(d)
    PROVE  LET t == confirmations'[d].proposal.task
           IN  /\ confirmations'[d].proposal.kind = "create" =>
                      ~Exists(t) /\ \A e \in ConfirmationIds : confirmations[e].proposal.task # t
               /\ confirmations'[d].proposal.kind # "create" => Exists(t) \/ t \in Ideas
               /\ confirmations'[d].proposal.kind = "create" => t \in DirectIds
               /\ UNCHANGED tasks
  <1> DEFINE q == confirmations'[d].proposal
  <1>0. \A o, p : Save(o, d, p) => confirmations'[d].proposal = p /\ UNCHANGED tasks
    <2> SUFFICES ASSUME NEW o, NEW p, Save(o, d, p)
                 PROVE  confirmations'[d].proposal = p /\ UNCHANGED tasks
      OBVIOUS
    <2> DEFINE x == [Blank("pending") EXCEPT !.owner = o, !.proposal = p, !.createdAt = now]
    <2>1. x.proposal = p
      BY DEF Blank
    <2>2. confirmations' = [confirmations EXCEPT ![d] = x] /\ UNCHANGED tasks
      BY DEF Save
    <2> HIDE DEF x
    <2> QED BY <2>1, <2>2 DEF Typed, TypeOK
  <1>1. ASSUME NEW o \in Owners, NEW t \in DirectIds, NEW v \in Contents,
               ProposeCreate(o, d, t, v)
        PROVE  /\ q.kind = "create" /\ q.task = t /\ ~Exists(t) /\ UNCHANGED tasks
               /\ \A e \in ConfirmationIds : confirmations[e].proposal.task # t
    BY <1>0, <1>1 DEF ProposeCreate
  <1>2. ASSUME NEW i \in Ideas, ProposeIdeaToTask(d, i)
        PROVE  q.kind # "create" /\ q.task = i /\ UNCHANGED tasks
    BY <1>0, <1>2 DEF ProposeIdeaToTask
  <1>3. ASSUME NEW o \in Owners, NEW t \in TaskIds, NEW e \in 1..MaxExpected,
               NEW kind \in {"update", "complete", "cancel"},
               NEW v \in Contents \cup {None}, ProposeChange(o, d, t, kind, v, e)
        PROVE  q.kind # "create" /\ q.task = t /\ Exists(t) /\ UNCHANGED tasks
    BY <1>0, <1>3 DEF ProposeChange, OwnTask
  <1> HIDE DEF q
  <1>4. \/ /\ q.kind = "create" /\ q.task \in DirectIds /\ ~Exists(q.task) /\ UNCHANGED tasks
           /\ \A e \in ConfirmationIds : confirmations[e].proposal.task # q.task
        \/ q.kind # "create" /\ (Exists(q.task) \/ q.task \in Ideas) /\ UNCHANGED tasks
    BY <1>1, <1>2, <1>3 DEF Propose
  <1> QED BY <1>4 DEF q

LEMMA FreshStep ==
    ASSUME Typed, Locked, CreatesAreFresh, [Next]_vars, Typed', NEW c \in ConfirmationIds
    PROVE  IsFresh(c)'
  <1> DEFINE t == confirmations'[c].proposal.task
  <1> SUFFICES ASSUME confirmations'[c].state = "pending",
                      confirmations'[c].proposal.kind = "create"
               PROVE  /\ tasks'[t].revision = 0
                      /\ \A d \in ConfirmationIds \ {c} : confirmations'[d].proposal.task # t
    <2>1. t \in TaskIds => tasks'[t].revision \in Nat
      BY DEF Typed, TypeOK, Task
    <2>2. Issued(c)' => t \in TaskIds
      BY DEF Typed, RowsWellFormed
    <2> QED BY <2>1, <2>2 DEF IsFresh, Exists, Issued
  <1>0. t \in DirectIds /\ t \in TaskIds
    BY DEF Typed, RowsWellFormed, Issued, TaskIds
  <1>1. tasks[t].revision \in Nat
    BY <1>0 DEF Typed, TypeOK, Task
  <1>2. ASSUME confirmations[c].state = "pending", confirmations[c].proposal.kind = "create",
               confirmations[c].proposal.task = t
        PROVE  ~Exists(t) /\ \A d \in ConfirmationIds \ {c} : confirmations[d].proposal.task # t
    BY <1>2 DEF CreatesAreFresh
  <1>3. ASSUME NEW r \in Requests, Apply(r)
        PROVE  /\ tasks'[t].revision = 0
               /\ \A d \in ConfirmationIds \ {c} : confirmations'[d].proposal.task # t
    <2> DEFINE e == requests[r].id
    <2>1. /\ e \in ConfirmationIds /\ confirmations'[e].state = "confirmed"
          /\ confirmations'[e].proposal = confirmations[e].proposal
          /\ \A d \in ConfirmationIds \ {e} : confirmations'[d] = confirmations[d]
          /\ \A u \in TaskIds \ {confirmations[e].proposal.task} : tasks'[u] = tasks[u]
      BY <1>3, ApplyWrites
    <2>2. e # c /\ confirmations'[c] = confirmations[c]
      BY <2>1
    <2>3. ~Exists(t) /\ \A d \in ConfirmationIds \ {c} : confirmations[d].proposal.task # t
      BY <1>2, <2>2
    <2>4. tasks'[t] = tasks[t]
      BY <1>0, <2>1, <2>2, <2>3
    <2>5. \A d \in ConfirmationIds : confirmations'[d].proposal = confirmations[d].proposal
      BY <2>1
    <2> QED BY <1>1, <2>3, <2>4, <2>5 DEF Exists
  <1>4. ASSUME NEW r \in Requests, NEW e \in ConfirmationIds, Undo(r, e)
        PROVE  /\ tasks'[t].revision = 0
               /\ \A d \in ConfirmationIds \ {c} : confirmations'[d].proposal.task # t
    <2>1. /\ confirmations'[e].state = "undone"
          /\ confirmations'[e].proposal = confirmations[e].proposal
          /\ \A d \in ConfirmationIds \ {e} : confirmations'[d] = confirmations[d]
          /\ \A u \in TaskIds \ {confirmations[e].proposal.task} : tasks'[u] = tasks[u]
      BY <1>4, UndoWrites
    <2>2. e # c /\ confirmations'[c] = confirmations[c]
      BY <2>1
    <2>3. ~Exists(t) /\ \A d \in ConfirmationIds \ {c} : confirmations[d].proposal.task # t
      BY <1>2, <2>2
    <2>4. tasks'[t] = tasks[t]
      BY <1>0, <2>1, <2>2, <2>3
    <2>5. \A d \in ConfirmationIds : confirmations'[d].proposal = confirmations[d].proposal
      BY <2>1
    <2> QED BY <1>1, <2>3, <2>4, <2>5 DEF Exists
  <1>5. CASE ~ \E r \in Requests : Apply(r) \/ \E d \in ConfirmationIds : Undo(r, d)
    <2>1. tasks' = tasks
      BY <1>5, QuietStep
    <2>2. ASSUME Propose(c), \A d \in ConfirmationIds \ {c} : confirmations'[d] = confirmations[d]
          PROVE  /\ ~Exists(t)
                 /\ \A d \in ConfirmationIds \ {c} : confirmations'[d].proposal.task # t
      BY <2>2, ProposalIsFresh
    <2>3. CASE confirmations'[c] = confirmations[c]
      <3>1. ~Exists(t) /\ \A d \in ConfirmationIds \ {c} : confirmations[d].proposal.task # t
        BY <1>2, <2>3
      <3>2. ASSUME NEW d \in ConfirmationIds \ {c}
            PROVE  confirmations'[d].proposal.task # t
        <4>1. CASE confirmations'[d].proposal = confirmations[d].proposal
          BY <3>1, <4>1
        <4>2. CASE confirmations'[d] = Blank("purged")
          <5>1. Blank("purged").proposal.task = None
            BY DEF Blank, NoProposal
          <5> QED BY <1>0, <4>2, <5>1, IdsAssumption DEF TaskIds
        <4>3. CASE Propose(d)
          <5>1. \/ \A e \in ConfirmationIds :
                       confirmations[e].proposal.task # confirmations'[d].proposal.task
                \/ Exists(confirmations'[d].proposal.task)
                \/ confirmations'[d].proposal.task \in Ideas
            BY <4>3, ProposalIsFresh
          <5> QED BY <1>0, <2>3, <3>1, <5>1, IdsAssumption
        <4> QED BY <1>5, <4>1, <4>2, <4>3, QuietStep
      <3> QED BY <1>1, <2>1, <3>1, <3>2 DEF Exists
    <2>4. CASE confirmations'[c] = Blank("purged")
      <3>1. Blank("purged").state = "purged"
        BY DEF Blank
      <3> QED BY <2>4, <3>1
    <2>5. \/ confirmations'[c] = confirmations[c] \/ confirmations'[c] = Blank("purged")
          \/ Propose(c) /\ \A d \in ConfirmationIds \ {c} : confirmations'[d] = confirmations[d]
          \/ confirmations'[c].state = "rejected"
      BY <1>5, QuietStep
    <2> QED BY <1>1, <2>1, <2>2, <2>3, <2>4, <2>5 DEF Exists
  <1> QED BY <1>3, <1>4, <1>5

\* As long as the table has a task at the revision a decision left, it is the row that
\* decision left: the revision check of undo compares rows, not just numbers
\* (executeTaskMutationUndo).  A pending create is the only row about its id, so no
\* commit starts the revisions of a task again under an outcome that names them.
THEOREM RevisionNames == Spec => []RevisionNamesOneRow
  <1>1. Init => RevisionNamesOneRow /\ CreatesAreFresh
    BY DEF Init, RevisionNamesOneRow, CreatesAreFresh, Blank, NoTask
  <1>2. RevisionNamesOneRow <=> \A c \in ConfirmationIds : NamesRow(c)
    BY DEF RevisionNamesOneRow, NamesRow
  <1>3. CreatesAreFresh <=> \A c \in ConfirmationIds : IsFresh(c)
    BY DEF CreatesAreFresh, IsFresh
  <1>4. Typed /\ Locked /\ Typed' /\ RevisionNamesOneRow /\ CreatesAreFresh /\ [Next]_vars =>
            RevisionNamesOneRow' /\ CreatesAreFresh'
    <2> SUFFICES ASSUME Typed, Locked, Typed', RevisionNamesOneRow, CreatesAreFresh, [Next]_vars
                 PROVE  RevisionNamesOneRow' /\ CreatesAreFresh'
      OBVIOUS
    <2>1. \A c \in ConfirmationIds : NamesRow(c)'
      BY <1>2, NamesStep
    <2>2. \A c \in ConfirmationIds : IsFresh(c)'
      BY FreshStep
    <2>3. RevisionNamesOneRow'
      BY <2>1 DEF RevisionNamesOneRow, NamesRow
    <2>4. CreatesAreFresh'
      BY <2>2 DEF CreatesAreFresh, IsFresh
    <2> QED BY <2>3, <2>4
  <1> QED BY <1>1, <1>4, TypeCorrect, PTL DEF Spec

-----------------------------------------------------------------------------
(* Who writes, and what is purged                                          *)

\* The task table and the ledger move together: every changed task is the stored outcome
\* of one commit or is reverted by one undo, and every stored created or updated outcome
\* is the row the table has (executeTaskMutation, completeTaskMutationConfirmation).
THEOREM Ledgered == Spec => WritesAreLedgered
  <1> DEFINE Written ==
          /\ \A t \in TaskIds : tasks'[t] # tasks[t] =>
                 \E c \in ConfirmationIds :
                     /\ confirmations[c].proposal.task = t
                     /\ \/ /\ ConfirmedNow(c) /\ confirmations'[c].applied = tasks'[t]
                           /\ confirmations'[c].outcome \in {"created", "updated"}
                        \/ UndoneNow(c) /\ confirmations[c].applied.revision = tasks[t].revision
          /\ \A c \in ConfirmationIds :
                 ConfirmedNow(c) /\ confirmations'[c].outcome \in {"created", "updated"} =>
                     confirmations'[c].applied = tasks'[confirmations[c].proposal.task]
  <1>1. Typed /\ Locked /\ [Next]_vars => Written
    <2> SUFFICES ASSUME Typed, Locked, [Next]_vars PROVE Written
      OBVIOUS
    <2>1. ASSUME NEW r \in Requests, Apply(r)
          PROVE  Written
      BY <2>1, ApplyWrites DEF ConfirmedNow, UndoneNow
    <2>2. ASSUME NEW r \in Requests, NEW c \in ConfirmationIds, Undo(r, c)
          PROVE  Written
      BY <2>2, UndoWrites DEF ConfirmedNow, UndoneNow
    <2>3. CASE ~ \E r \in Requests : Apply(r) \/ \E c \in ConfirmationIds : Undo(r, c)
      <3>1. tasks' = tasks
        BY <2>3, QuietStep
      <3>2. ASSUME NEW c \in ConfirmationIds
            PROVE  ~ConfirmedNow(c)
        <4>1. Blank("purged").state = "purged"
          BY DEF Blank
        <4>2. \/ confirmations'[c] = confirmations[c]
              \/ confirmations'[c] = Blank("purged")
              \/ confirmations'[c].state \in {"pending", "rejected"}
          BY <2>3, QuietStep
        <4> QED BY <4>1, <4>2 DEF ConfirmedNow
      <3> QED BY <3>1, <3>2
    <2> QED BY <2>1, <2>2, <2>3
  <1> QED BY <1>1, TypeCorrect, PTL DEF Spec, WritesAreLedgered

LEMMA OwnersWriteStep ==
    ASSUME Typed, Locked, NoRowIsBlank, [Next]_vars
    PROVE  OnlyOwnersWrite
  <1> SUFFICES ASSUME NEW t \in TaskIds, tasks'[t] # tasks[t]
               PROVE  \E r \in Requests :
                          /\ requests[r].phase # "idle" /\ requests'[r] = Idle
                          /\ requests[r].owner \in {tasks[t].owner, tasks'[t].owner}
                          /\ {tasks[t].owner, tasks'[t].owner} \subseteq {requests[r].owner, None}
    BY DEF OnlyOwnersWrite
  <1>0. tasks[t].revision \in Nat /\ NoTask.owner = None
    BY DEF Typed, TypeOK, Task, NoTask
  <1>1. ASSUME NEW r \in Requests, Apply(r)
        PROVE  /\ requests[r].phase # "idle" /\ requests'[r] = Idle
               /\ requests[r].owner \in {tasks[t].owner, tasks'[t].owner}
               /\ {tasks[t].owner, tasks'[t].owner} \subseteq {requests[r].owner, None}
    <2> DEFINE c      == requests[r].id
               p      == confirmations[c].proposal
               result == Effect(confirmations[c].owner, p)
    <2>1. /\ confirmations[c].owner = requests[r].owner /\ requests'[r] = Idle
          /\ t = p.task /\ result.outcome \in {"created", "updated"}
          /\ tasks'[t] = result.task
      BY <1>1, ApplyWrites
    <2>2. /\ result.outcome = "created" => ~Exists(t) /\ result.task.owner = confirmations[c].owner
          /\ result.outcome = "updated" =>
                 tasks[t].owner = confirmations[c].owner
                 /\ result.task.owner = confirmations[c].owner
      BY <1>1, <2>1, ApplyWrites, EffectByOutcome DEF OwnTask
    <2> HIDE DEF result
    <2>3. ~Exists(t) => tasks[t].owner = None
      BY <1>0 DEF NoRowIsBlank, Exists
    <2>4. requests[r].phase # "idle"
      BY <1>1 DEF Apply
    <2> QED BY <2>1, <2>2, <2>3, <2>4
  <1>2. ASSUME NEW r \in Requests, NEW c \in ConfirmationIds, Undo(r, c)
        PROVE  /\ requests[r].phase # "idle" /\ requests'[r] = Idle
               /\ requests[r].owner \in {tasks[t].owner, tasks'[t].owner}
               /\ {tasks[t].owner, tasks'[t].owner} \subseteq {requests[r].owner, None}
    <2>1. requests[r].phase # "idle"
      BY <1>2 DEF Undo, Undoing
    <2>2. /\ tasks[t].owner = requests[r].owner /\ requests'[r] = Idle
          /\ tasks'[t].owner \in {None, tasks[t].owner}
      BY <1>0, <1>2, UndoWrites
    <2> QED BY <2>1, <2>2
  <1>3. CASE ~ \E r \in Requests : Apply(r) \/ \E c \in ConfirmationIds : Undo(r, c)
    BY <1>3, QuietStep
  <1> QED BY <1>1, <1>2, <1>3

LEMMA LiveRowsStep ==
    ASSUME Typed, Locked, [Next]_vars
    PROVE  LiveRowsStay
  <1> SUFFICES ASSUME NEW c \in ConfirmationIds, confirmations'[c].state = "purged",
                      \/ /\ confirmations[c].state = "pending"
                         /\ now < confirmations[c].createdAt + Ttl
                      \/ /\ c \in Undoable(confirmations[c].owner)
                         /\ now <= confirmations[c].completedAt + UndoWindow
               PROVE  FALSE
    BY DEF LiveRowsStay
  <1>1. confirmations[c].state \in {"pending", "confirmed"}
    BY DEF Undoable
  <1>2. ASSUME NEW r \in Requests, Apply(r) PROVE FALSE
    <2>1. confirmations'[c] = confirmations[c] \/ confirmations'[c].state = "confirmed"
      BY <1>2, ApplyWrites
    <2> QED BY <1>1, <2>1
  <1>3. ASSUME NEW r \in Requests, NEW d \in ConfirmationIds, Undo(r, d) PROVE FALSE
    <2>1. confirmations'[c] = confirmations[c] \/ confirmations'[c].state = "undone"
      BY <1>3, UndoWrites
    <2> QED BY <1>1, <2>1
  <1>4. CASE ~ \E r \in Requests : Apply(r) \/ \E d \in ConfirmationIds : Undo(r, d)
    <2>1. \/ confirmations'[c] = confirmations[c] \/ Purge(c)
          \/ confirmations'[c].state \in {"pending", "rejected"}
      BY <1>4, QuietStep
    <2>2. Purgeable(c)
      BY <1>1, <2>1 DEF Purge
    <2>3. /\ now \in Nat /\ confirmations[c].createdAt \in Nat
          /\ confirmations[c].completedAt \in Nat
      BY DEF Typed, TypeOK, Confirmation
    <2>4. confirmations[c].state = "pending" => ~(now < confirmations[c].createdAt + Ttl)
      BY <2>2, <2>3, TimesAssumption DEF Purgeable
    <2>5. confirmations[c].state = "confirmed" =>
              ~(now <= confirmations[c].completedAt + UndoWindow)
      BY <2>2, <2>3, TimesAssumption DEF Purgeable
    <2> QED BY <2>4, <2>5 DEF Undoable
  <1> QED BY <1>2, <1>3, <1>4

\* Nothing but its owner's request, answered by this very step, changes a task, and no
\* purge removes a row that its owner can still confirm or undo: the retention exceeds the
\* ttl, which is no shorter than the undo window (purge() refuses any other).
THEOREM OwnersDecideTasks == Spec => OwnersDecide
  <1>1. Init => NoRowIsBlank
    BY InitNoRow
  <1>2. Typed /\ Locked /\ NoRowIsBlank /\ [Next]_vars => NoRowIsBlank'
    BY NoRowStep
  <1>3. Typed /\ Locked /\ NoRowIsBlank /\ [Next]_vars => OnlyOwnersWrite /\ LiveRowsStay
    BY OwnersWriteStep, LiveRowsStep
  <1> QED BY <1>1, <1>2, <1>3, TypeCorrect, PTL DEF Spec, OwnersDecide

=============================================================================
