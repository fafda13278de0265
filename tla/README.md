# Verification of Минутка

«Минутка» (Minutka) is an assistant for the employees of a company: they talk to it in
Telegram, it keeps their tasks, ideas, documents and activities, and it sends scheduled
messages. This directory holds TLA+ models of its control logic, the TLC configurations
that check them on small instances, and theorems checked by TLAPS. Paths below are paths
of the repository; the program is under `src/`, its documents under `docs/` and `vault/`.

## 1. Inventory

One process (`runtime/serve.ts`) serves HTTP, Telegram and an interval timer. A chat message
goes from `telegram/telegram-shell.ts` or `server/http` to `AssistantService.chat`, which
lets a language model call typed tools; the tools call use-case services of `application/`,
and the services call stores: PostgreSQL (`infrastructure/postgres`, READ COMMITTED, row
locks) for rows and MinIO (`infrastructure/minio`) for files. Nothing the model proposes is
written without a confirmation row, and the employee's answer comes back as a Telegram
button, as text, or through automatic application. Operators' commands (`commands/`) are
processes of their own over the same stores.

| Component | State | What makes it hard | What makes it correct | Module |
| --- | --- | --- | --- | --- |
| Task confirmations | tasks, ideas, confirmation rows | two transactions per owner at READ COMMITTED, clocks read before the transaction, undo by snapshot, ideas changed by others | one decision per row, by the owner, in its window; undo reverts what was done or refuses | `TaskConfirmation` |
| Ideas | idea rows, deletion confirmations | soft deletion racing appends, restores and other confirmations; replays | a decision is one step of a ledger | `IdeaLedger`, `IdeaDeletion` |
| Context documents | Markdown objects, confirmation rows | two stores without a common transaction; a move is a write and removals; lost commits | one request at a time carries a change out, and repeats write over nothing of their own; a move leaves one copy (it may leave two, see 5) | `ContextDocuments` |
| Cards and answers in Telegram | in-memory maps, group rows, claims with leases | memory lost on restart, double taps, unknown deliveries | rows, ledgers and claims agree; no handler waits for ever | `ActionCards` |
| Assistant turn | effect bookkeeping of a turn | an overflow or time-out after a write, calls left behind | a turn with a counted effect is never retried | `AssistantTurn` |
| Context of a turn | sizes of projections and sections | ceilings within ceilings, notices that cost room, a second smaller budget | what is sent fits, and says what it leaves out | `ContextAssembly` |
| Threads and compaction | turns, summary, watermark | late appends, compare-and-set, several processes | every old turn enters the summary once | `ThreadCompaction` |
| Scheduler | rules, ledger of fires | crashes between delivery and ledger, read-then-save by operators | the next occurrence follows the rule; repeats need an interruption | `Scheduler` |
| Calendar | zones, weekdays, wall clocks | clocks that change, days without a date, gaps and overlaps | the wall clock and weekday asked for, none passed over that counts; in an overlap one of the two instants counts (see 11) | `ScheduleCalendar` |
| Reminders | counters of each participant | overlapping sweeps over stale candidates, crash before the record | at most so many, a day apart | `Engagement` |
| Activities | activities, revisions, linked transactions | parallel calls of one turn, racing corrections, lost commits | one revision counts; what is told was written | `Activities` |
| Artifacts | bytes, index, rows | two stores, two processes, resumable purge | no reference without bytes; quotas; a purge is complete | `Artifacts` |
| Onboarding | draft, profile | answers that wait for a model, leases, resets, expiry | answers do not undo each other; one confirmation | `Onboarding` |
| Participants | participants, chats, invites | operators' commands between two stores, moves of a person | a chat speaks for one person; nothing is orphaned | `Enrolment` |
| Work retrospective | events of a thread, episodes | turns of two origins, receipts, a ledger read anew each time | budgets of questions; a turn has read what it builds on | `WorkRetrospective` |
| Recommendations, publishing | versions, findings, audit | evidence that changes between commands | what is published was reviewed on evidence that stood | `ReportPublishing` |
| Client report | activities, directory | thresholds and rankings over small groups | it adds up and hides single people | `CompanyReport` |
| Data deletion | three stores | stores without a common transaction | nothing is kept about somebody unknown | `Enrolment` |
| The stores of all these | maps and arrays in memory, tables and a bucket in production | each written twice; the executable specifications run on one and employees on the other | both answer every sequence of calls alike | `Stores` and the modules it composes |
| Usage, journals | rows that are appended: calls of the model, audit, feedback, insights | sums, orders, limits; what is deleted with a person | as above | `UsageStores`, `JournalStores` |
| Research exports and traces | corpora, traces | resumable over two stores | | not modelled |
| Routine directory | versions, assignments | replay racing corrections | | not modelled |
| HTTP, SDK, CLI, model integrations, operations | none | input and output | | not modelled |

`PROJECT.json` lists each of them with its status, and under `hazards` every place where the
code is hard to test, with the property that watches it.

## 2. Modules and proofs

| Module | Checked by | Proved in |
| --- | --- | --- |
| `TaskConfirmation` | `MCLedgers`, `MCStores`, `MCTaskConfirmation` | `TaskConfirmationProofs` |
| `Stores`, which composes `TaskStores`, `ScheduleStores`, `ActivityStores`, `ProfileStores`, `DocumentStores`, `SessionStores`, `ArtifactStores`, `UsageStores`, `JournalStores`, `ConversationStores` | `MCStores` | `StoresProofs` |
| `Scheduler` | `MCLedgers`, `MCServer`, `MCScheduler` | `ServerProofs` |
| `ScheduleCalendar`, `Engagement`, `ThreadCompaction` | `MCServer` | `ServerProofs` |
| `CompanyReport`, `ContextAssembly` | `MCServer` | |
| `ActionCards` | `MCTelegram`, `MCActionCards` | `TelegramProofs` |
| `Enrolment` | `MCTelegram` | `TelegramProofs` |
| `WorkRetrospective` | `MCTelegram` | `TelegramProofs` |
| `AssistantTurn` | `MCAssistant`, `MCAssistantTurn` | `AssistantTurnProofs` |
| `IdeaLedger`, `IdeaDeletion` | `MCAssistant` | `IdeaDeletionProofs`, `AssistantProofs` |
| `ContextDocuments`, `Onboarding`, `Activities`, `ReportPublishing` | `MCAssistant` | `AssistantProofs` |
| `Artifacts` | `MCAssistant` | `ArtifactsProofs`, `AssistantProofs` |

`MCAssistant`, `MCServer`, `MCTelegram`, `MCStores` and `MCLedgers` put several components that share no state behind
one variable `about`: a behaviour takes steps of one of them, so the state space is the sum of
theirs. What a behaviour is not about is `"absent"` or a constant. The actors of the parts have
the same names, so that one permutation is a symmetry of all. The properties of a
component are stated again in its host, for the behaviours about it.

The names of definitions are those of the program where they can be; `PROJECT.json` has the
lines each of them stands for. The forms marked "Fault" are plausible bugs of the
same definition; each stands directly before the definition it would replace, and
`PROJECT.json` pairs it with the property that notices it. No specification uses them.

How the modules meet: an `AssistantTurn` ends with proposals (`shown`), an `ActionCards`
handler starts with proposals and decides rows of a ledger, and `TaskConfirmation`,
`IdeaDeletion` and `ContextDocuments` are those ledgers with the transactions inside. A turn
sees that a call left something durable or not; a card sees that a decision of a row happens
once (`Decided`), which is what `DecisionIsFinal`, `ImplementsLedger` and `DocumentsAreSafe`
establish. `Scheduler` takes one instant for each slot and day; `ScheduleCalendar` is how that
instant is found. `IdeaDeletion` implements `IdeaLedger`, of which every decision is one step;
the ledger is what the in-memory stores of the executable specifications do.

A theorem holds for every value of its constants. Constants have assumptions in the module
that declares them; where a host gives a component its constants the assumption is a
definition (`Sensible` and its kin), a hypothesis of the theorem, and an ASSUME of the host
that TLC evaluates for the instance. They say that sets the code takes from are not
empty, that counters and times are numbers, and that names like `"none"` are nobody's.

## 3. TaskConfirmation

**Correspondence.** `confirmations`, `tasks` and `ideas` are the three tables; `requests` are
calls being served by the process; `now` is its clock.

| Action | Code |
| --- | --- |
| `ProposeCreate`, `ProposeIdeaToTask`, `ProposeChange` | `propose...` of the service and `save` of the store |
| `Call` | a request arrives; the service reads the clock (`at`) before any transaction |
| `Lock` | `SELECT ... FOR UPDATE` of the row, its guards, and the reads undo will need |
| `Apply` | the effect on task and idea, the stored outcome, COMMIT |
| `Refuse`, `Reject` | the other ends of a decision |
| `Undo`, `RefuseUndo` | the latest reversible row and its reversal, or nothing to revert |
| `Fail` | an error at any moment: ROLLBACK, a lost connection, the death of the process |
| `EditIdea`, `Purge`, `Tick` | other tools change ideas; retention; time |

Abstractions: an expected revision is any positive number up to `MaxExpected` (the store
compares it only); `in_progress` counts as `open`; the initial task table may hold an older
direct task whose confirmation was purged; the id of a task made from an idea is a digest of
owner and idea, so the idea stands for it; the contents of a task are one value. An undo that
captured its clock before a confirmation completed would violate the table's CHECK
`undone_at >= completed_at` and aborts. The latest row is the one with the latest
`completed_at`, as in the code, not the last to commit. `Fail` also stands for a COMMIT whose
outcome the client never learns, since `Apply` followed by an unanswered request is a state
the model has. `IdeaStore.update` is left out: only the in-memory store has callers for it.
Revisions restart at one when an idea is converted, undone and converted again, so
`RevisionNamesOneRow` speaks of direct tasks only.

**Runs.** `ledgers`: one owner, one direct task, two confirmations and two concurrent
requests with the clock stopped (`StillSpec`), all orders of lock, effect, failure and undo. Two is enough
for each pair of transactions that meet on a row, and for two rows on one task.
`task_retention`: one idea, one request at a time that captures its clock early and runs late,
two employees, and three units of time against a time to live and an undo window of one and a
retention of two, so each comparison is met before, at and after its boundary; it has no direct
tasks and one content, since none of its three properties of the ledger compares contents, and
revisions that do not match are met by `ledgers`. `task_snapshot` and `task_undo_idea` are
the two disagreements below. In `ledgers` `MaxExpected` is one more than the revision a first
row has, so matching, stale and future revisions occur; `MaxIdeaRevision` lets others edit an idea
before and after its conversion.

**Fairness.** `SF(Serve(r))` for each request: PostgreSQL queues lock waiters and wakes them
up, so a request whose lock is free again and again gets it, and a live process does not drop
its promises. `RequestsEnd` depends on nothing else.

**Proofs** (`TaskConfirmationProofs`). The inductive invariant is `Typed /\ Locked`.
`Typed` adds to `TypeOK` that a row's proposal is well formed for its state
(`RowsWellFormed`): without it the record a step builds from a proposal could not be typed.
`Locked` is `CallsFollowProposals /\ RowLockProtects /\ DecisionTimes /\ OutcomesCarryTasks`.
`DecisionTimes` is not inductive alone: the decision time of `Apply` was checked in `Lock`,
steps earlier, and stays right only because the row cannot have changed (`RowLockProtects`);
a late request never carries a time before the row it names (`CallsFollowProposals`); and that
only reversible applied rows are undone needs what an outcome says about the task
(`OutcomesCarryTasks`). `IdeaContextCurrent` has an invariance proof of its own on top.
`RevisionNamesOneRow` needs that a confirmation to create a direct task is the only one for
that task (`CreatesAreFresh`) and that a task nobody created has no row (`NoRowIsBlank`): then a revision
is used by a create once, and every update counts on. `WritesAreLedgered`, `DecisionIsFinal` and
`OwnersDecide` are action properties; each has one lemma for the steps that decide and one
that the others leave the rows alone. All safety properties of this module are proved, for all
values that satisfy `IdsAssumption` and `TimesAssumption`; `RequestsEnd` is liveness.

## 4. Ideas

**Correspondence.** `ideas` and `confirmations` are tables, `deciders` of the host the requests
being served. `Call` is a decision that arrives and captures its clock, `Lock` the row lock and
its guards, `TryDelete` the guarded UPDATE, `ReadBack` the SELECT after it found nothing, `Commit`
the stored outcome; `Reject`, `Refuse`, `FindDeleted`, `ReadClock` and `UndoDelete` the other paths, and
`Fail` an error at any statement or the loss of the answer. `Append` is `idea-append.ts`, with
its guard by revision. Search and the audit trail are left out.

**Refinement.** `IdeaLedger` is the promise: a decision is one step, by the instant its
request captured, and deletes the idea exactly if it still is what was proposed. A transaction
of `IdeaDeletion` maps to that step at the statement that commits it; the refinement mapping reads the
committed rows (`Promised`), and takes the ways to miss an idea, which the two kinds of store tell
apart differently, as one. `ImplementsLedger` is a PROPERTY of the run and a theorem
(`Implements`, `IdeasImplementLedger`). Its invariant `Inv` says that a request past its lock has
the row pending and alone, and that a request which found the idea deleted or missed it still
sees it so, because a deleting transaction holds the idea until it commits (`Held`). `Idle`, `Lock`,
`TryDelete`, `ReadBack` and `Fail` stutter.

## 5. ContextDocuments

**Correspondence.** `bucket` has the current version of each key and `history` all versions, as a
versioned bucket keeps them; a document is at a canonical or a legacy key. `Confirm` starts the
transaction that locks a confirmation; `ReadSource`, `ReadDestination`, `ReadAgain`, `Put`, `Remove`
and `Commit` are the calls and statements in order; `Fail` is an error after any of them, which
leaves the objects as they are and the confirmation pending. `CreateNote` and `PutNote` create by
`If-None-Match`; `RestoreVersion` is the operator's command.

`DocumentsAreSafe` says of a confirmation retried after an error or a lost commit, or tapped twice: one
request at a time carries it out, only while it is undecided (`OneAtATime`); an update of a canonical
version writes one version (`WritesOnce`); neither an update nor a move writes over what an earlier
attempt of it left (`NeverOverItsOwn`); and a note never takes the place of a document
(`CreatesOnlyNew`). The proof rests on `ChangeIsRight` (whatever a change wrote is later than the version
it expects, and what an update of a canonical version wrote is one version, under which the expected one never
comes back) and `WorkerIsRight` (what is at the destination when a request is about to write is not its own:
an update has just found the version expected, a move nothing).

It does not say that a retried move has the effect of one. It has not: a move that wrote its destination and
failed before it removed the source is, when confirmed again, in conflict with its own copy, and both
stay. `MoveLeavesOneCopy` states what the specification promises, and `documents_move` refutes it.

Known and not run: a move that finds its source gone is told "moved" whatever document is at the destination
(`context-document-service.ts:263`); a move and a deletion remove a document that was overwritten after they
read it (the bucket keeps its versions); an update of a legacy version may write twice if the
canonical one it wrote is removed in between. Rendering, limits and listing are left out.

## 6. ActionCards

**Correspondence.** `cards` are the messages in the chat, `groups` the group rows, `claims` the
message claims with their leases, `ledger` the decision of each action, `late` those past
their time, and a handler is one of the asynchronous paths of `telegram-shell.ts`, its `pc`
the await it is at. `ProactiveTurn` and `TextTurn` bring proposals; `RemoveActive`,
`CreateGroup`, `Send`, `BindSent`, `Withdraw` and `Cancel` send their card; `TextArrives` and
`ReadAnswer` take a yes or a no; `Tap`, `ReadGroup`, `BindTapped`, `CheckWorking`, `Register`,
`ClaimCard`, `Repeated` take a tap to its claim; `Decide`, `CloseClaim`, `MarkResolved`,
`Complete` apply it, with a failing form of each; `Expire`, `LeasePasses`, `PurgeGroup` and
`Restart` are time and the process.

Abstractions: every action is one that may be answered in words (level one); the keyboards of
feedback, consent and onboarding and single cards of other levels are left out, and so are the
purges of claims and ledgers. Which buttons are still visible is not tracked: a tap may
always come late. Confirmations share one time to live, so they expire in the order they were
proposed. Parallel rejections are done one by one. A send fails at will, twice, and its card
may be in the chat; `MaxFaults` counts other failures and restarts. Proactive deliveries skip
a busy chat, as the code does. `lapsed` is a history variable.

**Proofs** (`TelegramProofs`), for any number of handlers, actions and cards. `IInv` says of each
handler what its place in the code implies (`HandlerIsRight`: the sender's group is its own and has its
items, a withdrawing handler has rejected what it took out of `todo`, an answerer's resolved
items are decided and what it read as pending covers what still is), of each group and each card
what their rows imply (`GroupIsRight`, `MessageIsRight`), that two handlers never bring the same
group, and that cards come in order. `GroupsFollowLedgers` would not be inductive without the handlers: a group is
written at one await from what was decided at earlier ones. `OneTapAtATime` rests on the claim (`ClaimIsRight`);
`NobodyIsStuck` on the register of working taps.

## 7. AssistantTurn

**Correspondence.** `slots`, `reserved`, `businessWrite`, `pendingCreated` and `captured` are the
variables of the same meaning in `AssistantService.chat`; `status` is where `chat` stands;
`agentError`, `response`, `thrown` and `shown` are its outcomes by class; `durable` is the truth the
service cannot see: which calls left a row. `StartCall` and `WriteEnds` are the tools that write
at once, `TakeSlot` to `ApplyFails` a task proposal with its reservation, its insert and its
automatic application, `StartDeletion` to `DeletionEnds` proposals over ideas and documents.
`Admit`, `RunAnswers`, `RunFails`, `RunOverflows` and `RunAgain` are the runs of the
model, `Abort` the deadline at any time, `Settle`, `TurnAppended`, `AppendFails` and `Answer`
the end.

Tools are grouped by the bookkeeping they do. Calls are concurrent, and an aborted run leaves its calls
behind; every other error comes with no call in flight. The toolset `agent-runner.ts`
activates at this commit has schedules, activities, personal context, diagnostics and the
retrospective; the tools over tasks, ideas and documents exist on the service and are modelled
as such. `ideas.undo` sets "committed" whatever was there before, so it may hide an earlier
unknown outcome; proposals over ideas and documents leave the card when the history cannot
be written, and `ProposalsAreShown` exempts them; `RetryFindsNothing` exempts tools the turn
keeps no account of (linked activity transactions, `undoLast`, errors thrown).

**Proofs** (`AssistantTurnProofs`), for any finite set of calls and any positive limit. The
invariant is `TypeOK /\ Counted /\ RoomForAnswers /\ PendingIsCounted /\ WrittenIsCounted
/\ ProposalsHoldSlots /\ RunsApart /\ RetryFindsNothing`. `RoomForAnswers` needs `Counted`: the counter
of reserved slots is the number of proposals on their way, so turning a reservation into a slot keeps the
sum. `RetryFindsNothing` speaks of calls of the first run during the second; it follows from
`WrittenIsCounted` and `ProposalsHoldSlots` (what a call told is in the account) at the step that
starts the second run, and from `RunsApart` (no call of the first run is still on its way)
afterwards. `RetryAdviceIsSafe` and `ProposalsAreShown` follow from it and `Telling`: once an outcome
is settled it is the one the account allowed at that moment, and the card it promised holds every
proposal that was held.

## 8. Activities, Onboarding, Artifacts

**Activities.** A call of the activity transaction is at one of the awaits of `Activities.calls`:
it reserves its message if linked (`Claim`, `Reserve`), reads (`Read`), has the model decide
(`Decide`), and writes part by part (`SaveItem`, `Mutate`), with `WriteFails`, `WriteUncertain` (the
commit came through and its answer did not), `LedgerFails` and `Crash`. `ToldIsTrue`: what a call is
told, at once or from the stored outcome, are the ids it wrote; `WorkCountsOnce`: a message is
written once, and of activities that replace each other one counts. The proof's `ActInv`
numbers the calls (`tickets`): ids carry the ticket of the call that wrote them, a message is
held by one call at a time, and a stored outcome is of the call that wrote. `WorkIsNotLost` is
proved for any set of ids: were all of a set of activities superseded within it, the one
superseded last would have had to be active when it replaced another.

**Onboarding.** One participant's draft and its requests: `Answer` waits for a model with a copy
of the draft, `BeginSave` and `Save` are the snapshot and the write of one INSERT ... ON
CONFLICT, `Refresh` its retry over a newer revision, and so on for reset, confirmation and
updates of the profile. `AnswersCount` is checked and proved; `DraftInv` says that a request
holds an earlier revision of a draft that exists or ended, and that an answer is merged into the
revision it names. The proof showed that two answers which wait for a draft while it is confirmed leave
a mixed draft that nobody uses, so the property speaks of drafts before the profile.
Drafts live thirty days; a time-out drops a waiting answer. The run stops at revision 3 (`MaxRevision`), before a
second answer that was merged again into a changed draft is saved; the theorem covers every revision.

**Artifacts.** `Stat`, `Measure`, `Upload`, `Look`, `Commit` are the awaits of a save, under a lock of
its process; the purge of recommendations goes row by row and can be run again
(`PurgeStart` to `PurgeEnds`). `FilesStay` proves that a file the index names is in the bucket but for one
a purge is removing, and that a purge which reports success left nothing that depends on the
person: `BytesAreThere` (who is past the upload has bytes), `OperatorIsAlone` (the operator runs one command at a time, as
the runbooks have it; no lock of the code excludes a second), `PurgeIsOwn` and `PurgeIsComplete` (what the purge has still to do covers what is left).
Quotas are sums over sets of contents. Each process has a lock of its own, so the bot's saves and the operator's can
be between their look at the index and their commit at one time. The proof looked for the bound of that and refuted the
first one stated here (one body of the operator's): while an employee's body waits to commit, the operator can commit
several smaller ones, and what all exceed the quota by is that body. `WithinQuotas` says what holds: no owner exceeds
the owner's quota, the employees together never exceed theirs, and everybody's bytes exceed it by the largest body at most.
`Room` is the invariant: each save that is committing fits its owner's quota and, if it is an employee's, the employees';
any two fit together but for one body; and `OneInside` says that no third is there. That a sum over a set
grows by the element added (`BytesRecursion` to `BytesWith`) is proved from the recursive function of the library by
`Induction`, a lemma on sets of numbers that follows from the pigeonhole principle, since the induction theorems of
the library are out of the provers' reach.

## 9. Enrolment

**Correspondence.** A transaction is one step, since each locks the participant's row or is kept
out by a key: `IssueInvite`, `OpenInvite`, `RedeemInvite`, `AcceptConsent`, `CompleteProfile`, and
`Transition`, the move to another group while the server is stopped. What commands read
before their transaction is a step: `ReadForRevoke` then `Revoke`; `StartDeletion`, `Remove` of each
store and `Erase`; `Fail` ends a command anywhere. `Quiet` says what the runbooks order: the
employee's requests are kept out while a deletion runs, and the operator moves one person at a time. It is an
assumption: no lock of the code enforces it.

**Proof** (`TelegramProofs`). `PeopleAreAccountedFor` follows from `Accounted`: whoever moved on has
no invite any more (`MovedHoldNoInvite`), or a late redemption would link a chat to a participation
left; whoever something is kept about has consented (`KeptHaveConsented`), or revoking an unused invite
could orphan files; and a deletion removes what is kept before it erases the row
(`DeletionsAreOrdered`), with any number of commands at one time.

## 10. ReportPublishing and CompanyReport

`ReportPublishing` has the commands that draft, check, save and publish recommendations over
evidence that employees change meanwhile; each reads by several queries (`ReadLatest`,
`ReadEpisodes`, then `Build`, `Check`, `Save`, `Preflight` or `Publish`). Versions are numbered more simply than in
the code: `Build` takes the one after the draft at hand and `Save` stores no second draft of one number, where in the code
a fresh draft begins with 1 and only a recomputed one counts on (`retrospective-recommendations.ts:122`, `:151`), and two of
one number are ordered by their time (line 201); the property compares contents and evidence, not numbers. `PublishedIsReviewed` is proved from
`ReportInv`: evidence only grows newer (`EvidenceStands`), what a command saw is not older than when it
began (`ReadsFollowStart`), and what is stored stood on what was seen (`StoredStands`).

`CompanyReport` computes the figures, rankings and policy checks of the client report from a bag of
activities. `ReportIsSound` says that totals add up, that no figure or label of fewer people than the
threshold is shown, and that nothing tells how one person felt. The thresholds are lowered to two people
and three observations so that four activities meet them; hours are exact, where the code adds
floating-point numbers. It is defined by sums and sorted sequences and model-checked only.

## 11. Scheduler and ScheduleCalendar

**Correspondence.** `schedules` is the rule table, `fires` the ledger, `receipts` the delivery
log the touch policy reads. A tick is in one place of `tick.phase`: `ClaimRead` and
`ClaimCommit` are the claim (its SELECT takes no lock, so rules may change between the two),
`Suppress`, `Pass`, `Deliver` and `RunFails` the runner, `DisarmRead` and `DisarmSave` the switching
off of a one-time rule, `Complete`, `CompleteFails`, `CompleteFailed` the outcome,
`TickEnds` and `TickAborts` the end. `SaveDaily` is the atomic upsert; `DisableRead` and
`DisableSave` are the operator's read-then-save; `Crash` is the death of the process.

The runner asks the touch policy first and delivers later (`retrospective-touch-policy.ts:43`): `Suppress` and `Pass` are the
answers it got, and between `Pass` and `Deliver` the fire is in the phase "sending" while rules are
rewritten, receipts are recorded and the process may die. `RecordedTouchesStand` speaks of the
delivery, not of the answer: no touch goes out on a day on which its own receipt or that of the summary
that replaces it is recorded. It holds because one tick runs at a time (`tick()` joins the one in
flight) and only the tick sends retrospective touches; with its fault, a policy that forgets the summary,
it fails.

Abstractions: a slot stands for time of day, time zone and weekday mask and occurs once per
`Period`. One process ticks. Receipts may be lost, and an error may come after the write it
reports. When `sendChatResult` answers false the employee still got the notice of
cancellation, so "sent" is "a message of the fire". `Shots` says for each rule whether it may be daily,
one-time or both. The roles `evening` and `summary` stand for participants inside the retrospective
period; `plain` for everything else.

`ScheduleCalendar` translates `schedule-time.ts` and `iana-timezone.ts`: `InstantFor` converges
on an instant in corrections of the offset, `NextDailyFireAt` tries the dates that may come next,
`StartOfDate` halves an interval. A zone changes its offset once, by any amount.

**Proofs** (`ServerProofs`). `OccurrencesFollowRules`: a rule and every copy of it that somebody read
fires at its slot (`RulesFollow`), whatever is written back late; and in the calendar the stored
occurrence has the wall clock and weekday asked for, is later than the instant it was computed from, and passes over
no occurrence that was to come (`CalendarInv`, `FirstOccurrence`). The lemmas under it say that two corrections suffice for a zone that changes
once, that a date without the wall clock is skipped, that of a wall clock that comes twice the
instant found is the one that counts (`CountedIsFound`), and that the halving search finds the first instant of a date.
`SendsAreNotRepeated` counts sends of a fire against interruptions (`SendsAreCounted`): one more send is
allowed only to the fire the tick is running.

**Fairness.** `WF(TickStep)`: `serve.ts` starts a tick every sixty seconds and the runner has
time-outs. A runner that never answered would stop all ticks, since `tick()` returns the tick
in flight; that hazard is listed. `FiresAreSettled` and `DueIsClaimed` hold with the
interruptions bounded: a runner that is interrupted for ever settles nothing.

Which instant counts. When the clocks go back a wall clock has two instants, and the corrections of
`instantForLocalDateTime` find one of them whatever they start from: the second in a zone ahead of UTC, the
first in a zone behind it (`Counted`). So "the first allowed wall-clock occurrence strictly after an instant"
(`schedule-time.ts:27`) is not met in the hour that comes twice: ahead of UTC a rule fires an hour later than
it could, and behind it a rule set within that hour after the first pass waits for the next date although the second pass
is still to come. The code excludes "edges of DST" from its contract (lines 42-44), so no run claims it; `FirstOccurrence` states
what holds, and `MCServer` has zones of both kinds. Dates count from that of the start on.

Known and not run: arming a one-time rule again sends a second report, as
`docs/runbooks/end-of-cycle.md` says; switching off may overwrite an operator's arming in
between; where the clocks go forward over the only time of a weekly rule, `nextDailyFireAt`
throws and each tick's claim rolls back (the comment of `schedule-time.ts:40` asks that it move on).

## 12. Engagement

`StartSweep` reads all candidates, `Consider` decides on one by the clock of that moment, `Deliver`
or `NotDelivered` sends, `Record` or `NotRecorded` counts; sweeps overlap because an hourly timer does
not wait; `Touch` is the employee's message, `Restart` loses the sweeps. Failures after a delivery,
restarts and overlapping sweeps are mishaps, which the code cannot exclude and the model counts.

`SendsAreLimited` (second half): reminders exceed the limit, or come closer than a day, by
at most one for each mishap. The proof is the longest of the project. `RemindersKept` is
`RemindersRight` (every reminder was decided in the window, sweeps know what they read) with, for
each participant, `Enough` (each reminder sent is counted, about to be counted, or a mishap) and `Paid`: the
early reminders so far, and those that stale sweeps may still send (`Burden`), are no more than the mishaps.
`Burden` is the strengthening that makes the second induction go through: a sweep that read
its candidates before another's record may remind once more, a record may carry an instant
behind the last reminder, and each was paid for when the sweeps came to overlap.

## 13. ThreadCompaction

**Correspondence.** `turns` are the rows of one thread, `inflight` the appends that took their
timestamp and did not commit, `summary` the row with its watermark, `queued` and `job` the
queue and the running job of each process. `Stamp` and `AppendTurn` are the two halves of
`appendTurn`, `StopWaiting` is a caller that gives up after a proposal, `AppendFails` a failed one;
`ReadSummary` and `ReadTurns` are the two queries of a job, `Save` and `SaveConflict` the
compare-and-set on the watermark, `JobFails` an error of the summarizer or a store, `Crash` the
loss of a process with its queue.

The text of a summary is abstracted to how often each turn was folded into it. A save whose
error came after COMMIT is `Save`. One thread; rotation, deletion and the layout of the
summary are not modelled.

`OvertakingAssumption` is what makes the summary faithful: at most `RecentLimit` turns may commit
before an earlier one. Telegram handles a chat's messages one after another and a
request has about a hundred seconds, so only proactive, HTTP and one-off runs overlap; with more
overtaking a late turn would land below the watermark and never be folded.

**Proof** (`ServerProofs`). The core of `ThreadInv` is that a turn on its way is younger than every turn
outside the window (`LateIsYoung`), which follows from `NotOvertaken`: were it older than one, more turns than
the window holds would have overtaken it. So the batch of a job is what follows the summary it read
(`BatchesAreNext`), the compare-and-set refuses a stale one (`ReadsAreHonest`), and no turn is left behind.
**Fairness.** `WF(JobStep)`: promises of a live process settle, and the shutdown waits for `Drains`.

## 14. WorkRetrospective and ContextAssembly

`WorkRetrospective` has the ledger of one thread and turns of two origins, the employee and the
scheduler, which read it, stage events while the model answers (`Check`, `Refuse`) and append them
(`AppendTurn`), and the receipts of the bot (`ReadReceipt`, `AppendReceipt`). Episodes are the
projection of the ledger, computed anew by every reader. `QuestionsAreBudgeted`: at most one question
is pending, and what was delivered is what the budgets count. `TurnsSeeEachOther`: while revisions only grow,
a turn is accepted over no other it has not read.

**Proof** (`TelegramProofs`). `TurnsStaySeen` is about turns that come late: their events are put among those of
others by their timestamps, and the projection is made of all of them anew. An event changes neither the revision of
an episode that is not its own nor whether it is there; so whether an episode is there, and its revision, are the same with and without what was merged for another
(`OthersPassBy`, `GoesOnAlike`, `MergedPassBy`), and nothing of the ledger is lost (`MergedHolds`). `QuestionsInv` says what
is needed besides: turns have ids of their own and one is saved at a time (`TurnsAreApart`), the ledger
has nothing of an episode still to begin and something of each that is continued (`EpisodesAreTold`), a turn holds
events of its own about one episode that continue the revision it read (`StagedIsOwn`), and while no revision
went back, an episode that still has the revision a turn read has no news for it (`ReadIsCurrent`). The
projection is a recursive function over a sequence; its inductions are reduced to a set of numbers each (`Induction`).

`ContextAssembly` has the sizes of what a turn puts before the model: documents admitted one by
one under a ceiling, records, history, sections by priority, and all of it again under the smaller
budget after an overflow. `ContextFits`: what is sent fits its budget and says what it leaves out.
`Selected` charges, as `applyContextBudget` does, every section after the first for the separator before it
(`context-budget.ts:306`), beside the allowance for markup. The least total that `createContextBudgetConfig` takes
leaves no room for separators, although its comment says that it "admits every guaranteed source at its
ceiling alongside a maximum user turn, the response reserve, and renderer markup" (lines 149-152) and the comment of the
allowance that separators are in it (line 87): at it, with the guaranteed sections at their ceilings and the longest
input, the request fails. So `SectionsFit` says that a guaranteed section is refused only if the total is smaller than that least
one and a separator for every guaranteed section but the first; the run has totals on both sides of both bounds, and its
states include the refusal. It is arithmetic of sums over sequences and stays with TLC.

Known and not run. Of the retrospective: a receipt on its way is not counted, so the daily limit of questions
can be overrun by one (`docs/runbooks/work-retrospective-cycle.md:32` promises at most four); a
receipt compares no revision (`work-retrospective-service.ts:74`), so a revision can go
back and a later turn be accepted blind (`work-retrospective-store.ts:76`); events sorted before
the selection of their episode make a count double or a question vanish. Of the context: a large document
is shown as a reference before documents are counted (`assistant-context-projection.ts:84`), so more
may be shown than the twelve of `docs/architecture/runtime-context-contract.md:31`; a tree of core documents is
checked without the notice that later documents are shortened, so the final check (line 185) may throw; the
request of the recovery may be longer than a first one that had left its history out. Of the report: one rebuilt with
`--recorded-before` differs after a correction or a deletion (`docs/runbooks/company-report-export.md:160`).

## 15. Stores

Every store exists twice: the executable specifications of `specs/` run on maps and arrays in
memory, production on PostgreSQL and the bucket. What a specification shows in memory holds for
production as far as the two answer alike, and they are written quite differently: an index beside a map
against a key of a table, a slice from the end of an array against ORDER BY ... LIMIT, a check and a
write against one guarded UPDATE, a filter that forgets against a cascade.

| Module | Stores | What is compared |
| --- | --- | --- |
| `TaskStores` | tasks | create with its idea's index, get, list by filters, order and limit, update, delete |
| `ScheduleStores` | schedules and fires | save, list, the claim of due rules and of pending fires, complete |
| `ActivityStores` | activities and revisions | save, corrections and replacements by revision, recent ones, revisions |
| `ProfileStores` | participants, invites, consents, profiles | every transition, lookup by code, candidates for a reminder, pages, deletion |
| `DocumentStores` | documents and versions | canonical and legacy places, create, update, move, remove, restore, histories |
| `SessionStores` | Telegram sessions and claims | claims, delivery, consent, rotation, deletion of an employee's, purge by age |
| `ArtifactStores` | references, deliveries, contents, bytes | save with duplicates and three quotas, lists, deletions |
| `UsageStores` | calls of the model | record once, sums of a user and of a company's groups, deletion with the participant |
| `JournalStores` | audit events, feedback, insights | append, rate again, lists by type, thread and time |
| `ConversationStores` | turns, summaries | append, recent turns, those before the recent window, compare-and-set of a summary, threads |

In each of them `memory` is the state of the one, `table` that of the other, and an action is a call
that goes to both; `Memory...` operators are what the one answers or becomes, `Row...` what the other does. `Agree` says
that for every argument every operation answers the same in both, so the next call cannot tell them
apart. A call is one step here; what concurrent calls do to the tables is the subject of the modules
above. `Stores` composes the ten behind one variable `store`, and `MCStores` runs them beside the ledger
of `task_retention`.

**Proof** (`StoresProofs`). `StoresAnswerAlike` is `StoresSpec => []StoresAgree`, for any owners, ids, texts,
limits, quotas and bounds. For each store the inductive invariant is how its memory is
read off its table (`TasksInv` to `ConversationsInv`): an index points at the row that has its key and at no other,
every row a key names is there, an array holds the rows in the order the table sorts them. The proof has two halves
each time: the invariant makes every answer equal (`TAgree` to `MAgree`), and every call keeps it, whatever it answers.
Where an array stands beside an order the hard lemma is that a slice of the array is what ORDER BY and LIMIT
select: the place of an element is the number of rows not after it (`JPlaces`, `MPlaces`), which counts
finite sets by induction-free facts about cardinalities; sums of usage are unions of the rows they add (`UAdds`).

The comparison found where the two do differ, and the models leave exactly that out: accepting a consent
again after the profile is complete changes `updated_at` in the table only; the read of a
document's pinned version that another replaced; a limit of 0, which is the whole of a journal in memory
(`slice(-0)`) and nothing in SQL; entries of one instant, which production orders by random ids; `listFeedback` and
`listInsights` without a limit, all in memory and ten thousand in SQL; a
watermark inside the recent window, after which memory reads from the start and the table nothing; a
summary saved over one that was deleted, a conflict in memory and an insert in SQL. No caller
within the modelled bounds depends on one of them, and no document of the repository promises
otherwise. Of the stores without a module here, those of ideas tell the ways an undo is refused apart in another order,
and those of drafts check expiry and the expected revision in another order.

## 16. What the runs show

| Run | Expected | Question |
| --- | --- | --- |
| `ledgers` | pass | Of task confirmations: do lock, ledger and revision hold under two concurrent requests, and is each answered? Of the scheduler: do touches suppress each other, and does everything due settle? |
| `task_retention` | pass | Do time windows, idea context, ownership and purge hold for late requests; do the stores in memory and the tables answer alike? |
| `telegram` | pass | Do rows, ledgers and claims of cards agree and no handler wait for ever; are people accounted for; do questions keep their budgets? |
| `assistant` | pass | Does a turn account for its calls; do ideas, documents, activities, drafts, files and recommendations keep their promises under concurrent requests and lost answers? |
| `server` | pass | Is each turn summarised once, does each rule keep its occurrence and each reminder its limit; does the report add up and the context fit? |
| `task_snapshot` | violation | Is the undo snapshot the row that was replaced? |
| `task_undo_idea` | violation | Does undoing a conversion give the idea back? |
| `scheduler_one_shot` | violation | Does a one-time rule deliver once? |
| `action_cards_words` | violation | Does a short yes answer the card that asked for it? |
| `turn_uncertain` | violation | Is a turn with an unknown outcome never repeated? |
| `onboarding_reset` | violation | Does a reset of the draft discard the answers before it? |
| `documents_move` | violation | Does a move that is confirmed again leave one copy? |

Seven of them refute something the repository says of itself:

- `task_snapshot`: `undo-task-mutation.md` says undo restores previous fields. `confirm` reads them
  without a lock on the task, and another confirmation may commit before the update.
- `task_undo_idea`: the same manual says undoing a conversion restores the idea. With two
  confirmed conversions of one idea undo takes the later, which changed nothing and has no
  context: it deletes the task and leaves the idea planned.
- `scheduler_one_shot`: `end-of-cycle.md` says a one-time rule switches itself off after it fired.
  A fire left pending by an interruption is run together with that of the next day.
- `action_cards_words`: the architecture RFC says the next short consent resolves the same
  confirmation. A "yes" under a single card confirms an older group that is still delivered.
- `turn_uncertain`: `runtime-context-contract.md` says a turn in the state `attempted` is not
  repeated. A context overflow after a task proposal with unknown outcome repeats it.
- `onboarding_reset`: a reset stores its empty draft under the revision that an answer already
  merged expects; that answer's save brings the discarded ones back.
- `documents_move`: the executable specification of document changes says a document moves without two canonical
  copies and that retries reconcile. A move that failed between its write and its removals is
  decided "destination_conflict" when confirmed again, because of its own copy, and both copies stay.

**Bounds.** `ledgers`: one owner, one direct task, two confirmations and two concurrent
requests with the clock stopped: two is enough for each pair of transactions that meet on a row, and for
two rows on one task. `task_retention`: one idea, one request at a time that captures its clock early
and runs late, two employees, and times that meet each window before, at and after its
boundary; of the stores, two owners, two ids and two texts (one where a second tells nothing apart), three ids of
entries and turns so that a limit of two leaves one out, files of three sizes under quotas of one, two and
three, two edits, and clocks of one to three instants, so that entries of one instant and of different ones occur. Of the scheduler in `ledgers`:
a summary and an evening touch with a batch limit below the number of fires that can be due, each saved once; only the
evening touch is switched off by the employee, while a rule switched off by its fire and by the employee is in
`scheduler_one_shot` and `server`. `telegram`: two handlers, two actions, three cards and three answers but
four of both together, one fault, so a card is sent twice, answered twice and in words while a tap is
handled; two employees, chats, codes and commands; two turns of an employee and one of the scheduler over two
days with limits of one. `assistant`: three calls and room for two proposals (the code: five), so the limit is met
with calls in flight; two documents, one confirmation, two workers, four versions; one idea with two proposals; two
calls of one message; two drafts; two deliveries of one file, another file and two versions of
recommendations, one personal, against quotas of two, so that the last byte is asked for twice. `server`: two processes, four turns, a window of one and batches of two; one rule
rewritten twice over three instants; two sweeps over one participant; four activities; four
slots a day, a week of three days and zones whose clocks go forward or back by a slot, ahead of UTC or behind it,
or by as much as a day from one side to the other; at most three documents and budgets of totals 15 (refused), 16 (the least accepted, where
separators may not fit), 20 (the least that always admits the guaranteed sections), 22 and 26. `documents_move`: two documents, one confirmation
and one worker. Clocks, faults,
interruptions and mishaps stop at the bound named in the module. Unproved properties are known for
these instances only; the theorems below are for all.

## 17. What is proved

| Theorem | Property | Inductive invariant |
| --- | --- | --- |
| `TaskConfirmationProofs` `TypeCorrect`, `LockSafety`, `DecisionTimesHold`, `DecisionFinality`, `IdeaContext` | `TypeOK`, `DecisionTimes`, `DecisionIsFinal`, `IdeaContextCurrent` | `Typed /\ Locked` |
| `RevisionNames`, `Ledgered`, `OwnersDecideTasks` | `RevisionNamesOneRow`, `WritesAreLedgered`, `OwnersDecide` | with `CreatesAreFresh`, `NoRowIsBlank` |
| `IdeaDeletionProofs` `TypeCorrect`, `Implements`; `AssistantProofs` `IdeasImplementLedger` | `ImplementsLedger` | `Inv` |
| `AssistantProofs` `DocumentsStaySafe` | `DocumentsAreSafe` | `DocInv` |
| `AnswersStayCounted` | `AnswersCount` | `DraftInv` |
| `ToldStaysTrue`, `WorkStaysCountedOnce` | `ToldIsTrue`, `WorkCountsOnce` | `ActInv` |
| `PublishedStaysReviewed` | `PublishedIsReviewed` | `ReportInv` |
| `RecordsTypes` | `RecordsTypeOK` | `DocInv`, `DraftInv`, `TypedReport`, and the types of the others |
| `AssistantTurnProofs` `TurnTypes`, `ProposalsFit`, `PendingCounted`, `RetryIsClean` | `RoomForAnswers`, `PendingIsCounted`, `RetryFindsNothing`; the types, part of `RecordsTypeOK` | `Inv` |
| `AdviceIsSafe`, `CardsAreShown` | `RetryAdviceIsSafe`, `ProposalsAreShown` | with `Telling` |
| `ArtifactsProofs` `TypeCorrect`, `FilesStay`, `QuotasHold`; `AssistantProofs` `FilesAreSound` | `ArtifactsAreSound` | `Inv`; with `OneInside`, `Room` |
| `TelegramProofs` `TypeCorrect`, `GroupsAreTrue`, `EndsStayTrue`, `OneTapDecides`, `NobodyStaysStuck` | `GroupsFollowLedgers`, `EndsAreTrue`, `OneTapAtATime`, `NobodyIsStuck` | `IInv` |
| `ServerProofs` `SummariesStayFaithful` | `SummaryIsFaithful` | `ThreadInv` |
| `OccurrencesFollowRules` | `NextFireFollowsRule` | `RulesFollow`, `CalendarInv` |
| `SendsAreNotRepeated`, `SendsStayLimited` | `SendsAreLimited` | `SendsAreCounted`, `RemindersKept` |
| `TelegramProofs` `PeopleStayAccountedFor` | `PeopleAreAccountedFor` | `Accounted` |
| `TurnsStaySeen` | `TurnsSeeEachOther` | `QuestionsInv` |
| `BotTypes` | `BotTypeOK` | `IInv`, `Accounted`, `QuestionsInv` |
| `StoresProofs` `StoresAnswerAlike` | `StoresAgree` | `TasksInv` to `ConversationsInv` |

Model-checked only, and why: the liveness properties (`RequestsEnd`, `FiresAreSettled`, `DueIsClaimed`, `Drains`), since
fairness and `ENABLED` are beyond the prover; `QuestionsAreBudgeted`, `ReportIsSound` and `ContextFits`, which are about
sums, folds and sorted sequences: their inductions can be reduced to sets of numbers as those of the quotas and
the retrospective are, but that was not attempted; `ServerTypeOK`, of which the invariants above contain the types of
all components with a proof; and `RecordedTouchesStand`, not attempted.

## 18. What is left

To prove: `RecordedTouchesStand`; the sums of `ContextFits` and the budgets of questions. To model: the routine directory with its replay,
the document reader, the arming of the final report and the extraction of activities, as parts of
the present hosts.

## 19. Not modelled

Research exports and traces, the routine directory and its replay, the estimate of what calls of a model cost, the HTTP server, the SDK and the CLI
(transport), model integrations (calls to services; their failures are actions of `AssistantTurn` and
`ThreadCompaction`), operations (deployment and backup scripts). Security of transport and storage is
no subject of these models. The map names about 11 300 lines, counting at most 150 of a
definition: three tenths of the TypeScript of the program, and less of the whole repository, whose
migrations, deployment code and scripts are implementation too. What is modelled is modelled with every early return and error path of its operations, as `map` in `PROJECT.json` records.
