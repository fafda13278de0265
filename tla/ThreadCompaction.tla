-------------------------- MODULE ThreadCompaction --------------------------
(***************************************************************************)
(* The rolling summary of one conversation thread.                         *)
(*                                                                         *)
(* Every chat turn is appended to the thread's history; the model is shown *)
(* the newest RecentLimit turns word for word.  After each turn a          *)
(* background job folds the oldest turns outside that window, after the    *)
(* summary's watermark, into the summary: it reads the summary, reads a    *)
(* batch of turns, calls the summarizer and saves the result if the        *)
(* watermark is still the one it read.  A process runs its jobs for the    *)
(* thread one after the other; another process (the one-off scheduled run) *)
(* may work on the same thread.                                            *)
(*                                                                         *)
(* A turn takes its timestamp before the transaction that appends it, so   *)
(* turns may be committed out of the order they are read in.               *)
(***************************************************************************)
EXTENDS Naturals, FiniteSets

CONSTANTS
    Processes,     \* the server, and a one-off run beside it
    RecentLimit,   \* historyTurns: the window shown word for word
    BatchLimit,    \* threadCompactionTurns: the most turns one job folds
    Overtaking,    \* at most so many turns are appended while a stamped one waits
    MaxTurns,      \* bound: turns of the thread
    MaxFaults      \* bound: failures, restarts and late appends

ASSUME LimitsAssumption ==
    /\ RecentLimit \in Nat /\ BatchLimit \in Nat \ {0}
    /\ MaxTurns \in Nat /\ MaxFaults \in Nat

\* A turn is appended within the time budget of its request while a thread sees few others.
ASSUME OvertakingAssumption == Overtaking \in Nat /\ Overtaking <= RecentLimit

VARIABLES
    stamped,   \* turns that have taken their timestamp
    inflight,  \* turns whose append has not been committed: <<turn, process, waited for?>>
    turns,     \* minutka_private.messages of the thread
    summary,   \* its row of minutka_private.thread_summaries
    queued,    \* compactions of the thread waiting or running in each process
    job,       \* the compaction each process is running
    faults     \* how many things went wrong so far, lost races among them

vars == <<stamped, inflight, turns, summary, queued, job, faults>>

-----------------------------------------------------------------------------
(* Data                                                                    *)

\* A turn is its place in the order by created_at and message_id.
Turns == 1..MaxTurns

\* folded counts how often each turn went into the text, directly or with the summary
\* the text continues; through = 0 is no row.
Summary == [from: 0..MaxTurns, through: 0..MaxTurns, folded: [Turns -> Nat]]
NoSummary == [from |-> 0, through |-> 0, folded |-> [t \in Turns |-> 0]]

\* "reading": the previous summary is read; "writing": the batch is read too.
Job == [phase: {"idle", "reading", "writing"}, previous: Summary, batch: SUBSET Turns]
NoJob == [phase |-> "idle", previous |-> NoSummary, batch |-> {}]

Later(t, S) == {u \in S : u > t}
Earlier(t, S) == {u \in S : u < t}

\* Fault: the oldest turn of the window counts as outside it.
ExpiredOneEarly == {t \in turns : Cardinality(Later(t, turns)) + 1 >= RecentLimit}

\* recent_position > RecentLimit
Expired == {t \in turns : Cardinality(Later(t, turns)) >= RecentLimit}

Pending(through) == {t \in Expired : t > through}

\* Fault: the query lost its LIMIT.
OldestUnlimited(S) == S

\* Fault: ORDER BY ... DESC.
Newest(S) == {t \in S : Cardinality(Later(t, S)) < BatchLimit}

\* ORDER BY created_at, message_id LIMIT BatchLimit
Oldest(S) == {t \in S : Cardinality(Earlier(t, S)) < BatchLimit}

First(S) == CHOOSE t \in S : Earlier(t, S) = {}
Last(S) == CHOOSE t \in S : Later(t, S) = {}

\* The summary a job writes: it continues the one it read.
Continued(previous, batch) ==
    [from    |-> IF previous.through = 0 THEN First(batch) ELSE previous.from,
     through |-> Last(batch),
     folded  |-> [t \in Turns |-> previous.folded[t] + IF t \in batch THEN 1 ELSE 0]]

-----------------------------------------------------------------------------
(* Turns                                                                   *)

Init ==
    /\ stamped = 0 /\ inflight = {} /\ turns = {}
    /\ summary = NoSummary
    /\ queued = [p \in Processes |-> 0]
    /\ job = [p \in Processes |-> NoJob]
    /\ faults = 0

Fault == faults < MaxFaults /\ faults' = faults + 1

\* The compaction is chained behind the others of the thread.
Enqueue(p) == [queued EXCEPT ![p] = @ + 1]

\* chat() builds the turn with the time of the clock.
Stamp(p) ==
    /\ stamped < MaxTurns
    /\ stamped' = stamped + 1
    /\ inflight' = inflight \cup {<<stamped + 1, p, TRUE>>}
    /\ UNCHANGED <<turns, summary, queued, job, faults>>

\* Nobody is overtaken by more turns than the bound.
KeepsUp(t) == \A f \in inflight :
    f[1] < t => Cardinality(Later(f[1], turns \cup {t})) <= Overtaking

\* The turn is committed; a caller that still waits schedules a compaction.
AppendTurn(f) ==
    /\ KeepsUp(f[1])
    /\ inflight' = inflight \ {f}
    /\ turns' = turns \cup {f[1]}
    /\ queued' = IF f[3] THEN Enqueue(f[2]) ELSE queued
    /\ UNCHANGED <<stamped, summary, job, faults>>

\* The recovery budget is spent: the answer goes out and the compaction is scheduled
\* while the append is still on its way.
StopWaiting(f) ==
    /\ f[3] /\ Fault
    /\ inflight' = (inflight \ {f}) \cup {<<f[1], f[2], FALSE>>}
    /\ queued' = Enqueue(f[2])
    /\ UNCHANGED <<stamped, turns, summary, job>>

\* The append fails: the turn is not kept; after a task proposal the error is only
\* logged and the compaction is scheduled all the same.
AppendFails(f) ==
    /\ Fault
    /\ inflight' = inflight \ {f}
    /\ queued' \in IF f[3] THEN {queued, Enqueue(f[2])} ELSE {queued}
    /\ UNCHANGED <<stamped, turns, summary, job>>

-----------------------------------------------------------------------------
(* Compactions                                                             *)

\* Fault: a job that did not save tries again with the summary it has read.
EndJobOrRetry(p, saved) ==
    IF saved THEN /\ job' = [job EXCEPT ![p] = NoJob]
                  /\ queued' = [queued EXCEPT ![p] = @ - 1]
             ELSE /\ job' = [job EXCEPT ![p].phase = "reading", ![p].batch = {}]
                  /\ UNCHANGED queued

\* The job settles, whatever its outcome, and the next one of the chain may start.
EndJob(p, saved) ==
    /\ job' = [job EXCEPT ![p] = NoJob]
    /\ queued' = [queued EXCEPT ![p] = @ - 1]

\* summaryStore.get
ReadSummary(p) ==
    /\ queued[p] > 0 /\ job[p].phase = "idle"
    /\ job' = [job EXCEPT ![p] = [NoJob EXCEPT !.phase = "reading", !.previous = summary]]
    /\ UNCHANGED <<stamped, inflight, turns, summary, queued, faults>>

\* conversationStore.getTurnsBeforeRecent; with nothing to fold the job is done.
ReadTurns(p) ==
    /\ job[p].phase = "reading"
    /\ LET batch == Oldest(Pending(job[p].previous.through))
       IN  IF batch = {} THEN EndJob(p, TRUE)
           ELSE /\ job' = [job EXCEPT ![p].phase = "writing", ![p].batch = batch]
                /\ UNCHANGED queued
    /\ UNCHANGED <<stamped, inflight, turns, summary, faults>>

\* INSERT ... ON CONFLICT DO UPDATE ... WHERE watermark = the one the job read; without
\* one it only inserts.
Saveable(previous) == summary.through = previous.through

\* The summarizer answered and the row is written.
Save(p) ==
    /\ job[p].phase = "writing" /\ Saveable(job[p].previous)
    /\ summary' = Continued(job[p].previous, job[p].batch)
    /\ EndJob(p, TRUE)
    /\ UNCHANGED <<stamped, inflight, turns, faults>>

SaveConflict(p) ==
    /\ job[p].phase = "writing" /\ ~Saveable(job[p].previous)
    /\ faults' = IF faults > MaxFaults THEN faults ELSE faults + 1
    /\ EndJob(p, FALSE)
    /\ UNCHANGED <<stamped, inflight, turns, summary>>

\* A query, the summarizer or the parse of its answer fails, before anything is written.
JobFails(p) ==
    /\ job[p].phase # "idle" /\ Fault
    /\ EndJob(p, FALSE)
    /\ UNCHANGED <<stamped, inflight, turns, summary>>

\* The process dies with its appends and its jobs.
Crash(p) ==
    /\ Fault
    /\ inflight' = {f \in inflight : f[2] # p}
    /\ queued' = [queued EXCEPT ![p] = 0]
    /\ job' = [job EXCEPT ![p] = NoJob]
    /\ UNCHANGED <<stamped, turns, summary>>

JobStep(p) == ReadSummary(p) \/ ReadTurns(p) \/ Save(p) \/ SaveConflict(p)

Next ==
    \/ \E p \in Processes : Stamp(p) \/ JobStep(p) \/ JobFails(p) \/ Crash(p)
    \/ \E f \in inflight : AppendTurn(f) \/ StopWaiting(f) \/ AppendFails(f)

Spec == Init /\ [][Next]_vars

\* Promises of a live process settle.
FairSpec == Spec /\ \A p \in Processes : WF_vars(JobStep(p))

-----------------------------------------------------------------------------
(* Properties                                                              *)

TypeOK ==
    /\ stamped \in 0..MaxTurns
    /\ inflight \subseteq (1..stamped) \X Processes \X BOOLEAN
    /\ turns \subseteq 1..stamped
    /\ summary \in Summary
    /\ queued \in [Processes -> Nat]
    /\ job \in [Processes -> Job]
    /\ \A p \in Processes : Cardinality(job[p].batch) <= BatchLimit
    /\ faults \in 0..(MaxFaults + 1)

\* The summary holds every turn of its range from..through once and no other turn, with
\* several processes, failed and repeated jobs and turns committed out of order: a turn
\* is never skipped by the watermark and never summarised twice.
FoldedOnce == \A t \in Turns :
    summary.folded[t] = IF t \in turns /\ t <= summary.through THEN 1 ELSE 0

\* The window shown word for word is never folded, neither by a saved summary nor by one
\* that is being written.
WindowKept ==
    /\ summary.through > 0 => Cardinality(Later(summary.through, turns)) >= RecentLimit
    /\ \A p \in Processes, t \in Turns :
           t \in job[p].batch => Cardinality(Later(t, turns)) >= RecentLimit

\* When nothing went wrong and every process is done, no turn outside the window waits
\* for a later compaction.
CaughtUp ==
    faults = 0 /\ inflight = {} /\ (\A p \in Processes : queued[p] = 0)
        => Pending(summary.through) = {}

\* A turn is in the summary or in the window shown word for word, never in both and, once the
\* compactions are done, never in neither.
EachTurnHasItsPlace == WindowKept /\ CaughtUp

\* Every turn is summarised once, when it leaves the window, and none is lost or doubled.
SummaryIsFaithful == FoldedOnce /\ EachTurnHasItsPlace

\* drain() comes back: the compactions of a process end, whatever they meet.
Drains == \A p \in Processes : queued[p] > 0 ~> queued[p] = 0

=============================================================================
