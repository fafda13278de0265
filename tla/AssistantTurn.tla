---------------------------- MODULE AssistantTurn ----------------------------
(***************************************************************************)
(* One turn of the assistant: AssistantService.chat.                       *)
(*                                                                         *)
(* A language model runs with tools that write at once or leave proposals  *)
(* for the employee to confirm.  Calls of one step of the model run        *)
(* concurrently, and what they awaited may come back after the deadline of *)
(* the turn has made the run give up.  The turn keeps account of what its  *)
(* tools told it (chatEffect, pendingActionSlots): on that account it may  *)
(* run the model a second time with a smaller context, choose what to tell *)
(* the employee when the run failed, and list the proposals to be shown.   *)
(* The writes themselves are those of other modules; here a call leaves    *)
(* something durable or not, and tells the turn so or not.                 *)
(***************************************************************************)
EXTENDS Naturals, FiniteSets

CONSTANTS
    Calls,   \* the tool calls the model makes in the turn
    Limit    \* maximumPendingActionsPerTurn

ASSUME LimitAssumption == Limit \in Nat \ {0}
ASSUME CallsAssumption == IsFiniteSet(Calls)

VARIABLES
    status,         \* where chat() stands
    run,            \* the run of the model: 1, or 2 after an overflow
    calls,          \* the tool calls
    slots,          \* pendingActionSlots, by the call that filled them
    reserved,       \* reservedPendingActionSlots
    businessWrite,  \* chatEffect.businessWrite
    pendingCreated, \* chatEffect.pendingActionCreated
    captured,       \* captureResult is set
    aborted,        \* applicationSignal: the deadline, or the caller gave up
    agentError,     \* agentError, by class
    response,       \* response, by what it tells
    promised,       \* proposals held when the outcome was settled
    shielded,       \* attemptedTaskProposal or persistedTaskProposal
    durable,        \* truth: calls that left a row behind
    thrown,         \* the error chat() ends with
    shown           \* pendingActions of the result

account == <<slots, reserved, businessWrite, pendingCreated, captured, durable>>
outcome == <<agentError, response, promised, shielded, thrown, shown>>
vars == <<status, run, calls, slots, reserved, businessWrite, pendingCreated, captured,
          aborted, agentError, response, promised, shielded, durable, thrown, shown>>

-----------------------------------------------------------------------------
(* Records                                                                 *)

Statuses == {"received", "running", "reducing", "settling", "persisting", "answering", "ended"}
Errors == {"none", "other", "limit", "unknown", "abort", "overflow", "overflow_written"}
Responses == {"none", "agent", "captured", "limit", "missing", "downstream", "uncertain",
              "unknown", "overflow"}

Writes == {"capture", "schedule", "activity", "profile", "restore", "undo"}
Tasks == {"cancel", "change"}
Kinds == Writes \cup Tasks \cup {"deletion"}

\* What a call told the turn.  "uncounted": it wrote, and the turn keeps no account of it.
Tellings == {"unsaid", "nothing", "changed", "uncounted", "unknown", "error", "limit", "proposed",
             "uncertain"}
Call == [pc: {"idle", "working", "saving", "applying", "ended"},
         kind: Kinds \cup {"none"}, run: 0..2, told: Tellings]
NoCall == [pc |-> "idle", kind |-> "none", run |-> 0, told |-> "unsaid"]

\* A task's slot says whether its row is known to be saved.
Slots == {"none", "attempted", "persisted", "proposal"}
Held == {c \in Calls : slots[c] # "none"}
Attempted == {c \in Calls : slots[c] = "attempted"}
Persisted == {c \in Calls : slots[c] = "persisted"}

InFlight == {c \in Calls : calls[c].pc \in {"working", "saving", "applying"}}

Init ==
    /\ status = "received" /\ run = 1
    /\ calls = [c \in Calls |-> NoCall]
    /\ slots = [c \in Calls |-> "none"] /\ reserved = 0
    /\ businessWrite = "none" /\ pendingCreated = FALSE
    /\ captured = FALSE /\ aborted = FALSE
    /\ agentError = "none" /\ response = "none"
    /\ promised = {} /\ shielded = FALSE /\ durable = {}
    /\ thrown = "none" /\ shown = {}

Throws(error) ==
    /\ status' = "ended" /\ thrown' = error
    /\ UNCHANGED shown

-----------------------------------------------------------------------------
(* The account of the turn                                                 *)

\* Fault: proposals are not an effect.
EffectOfWrites ==
    IF businessWrite = "none" THEN "none" ELSE businessWrite

\* currentChatEffectState
Effect ==
    IF businessWrite # "none" THEN businessWrite
    ELSE IF pendingCreated THEN "pending" ELSE "none"

\* Fault: only the proposals that are there count, not those on their way.
SlotFreeNow == Cardinality(Held) < Limit

SlotFree == Cardinality(Held) + reserved < Limit

\* releasePendingActionSlot
Released == IF reserved = 0 THEN 0 ELSE reserved - 1

\* reservePendingActionSlot
CanReserve == ~aborted /\ Attempted = {} /\ SlotFree

Tells(c, told) == [calls EXCEPT ![c] =
    [pc |-> "ended", kind |-> "none", run |-> calls[c].run, told |-> told]]

Refused(c) ==
    /\ ~CanReserve
    /\ calls' = Tells(c, IF aborted \/ Attempted # {} THEN "error" ELSE "limit")
    /\ UNCHANGED <<status, run, aborted, account, outcome>>

\* After a call of that kind told the turn so: a known write never hides an unknown one,
\* except that of an idea restored.
WriteAfter(kind, told) ==
    IF told = "unknown" THEN "outcome_unknown"
    ELSE IF told = "changed" /\ (businessWrite = "none" \/ kind = "restore") THEN "committed"
    ELSE businessWrite

-----------------------------------------------------------------------------
(* Tools that write at once                                                *)

Starts(c, kind) ==
    /\ status = "running" /\ calls[c].pc = "idle"
    /\ calls' = [calls EXCEPT ![c] =
           [pc |-> "working", kind |-> kind, run |-> run, told |-> "unsaid"]]

StartCall(c) ==
    /\ \E kind \in Writes \cup Tasks : Starts(c, kind)
    /\ UNCHANGED <<status, run, aborted, account, outcome>>

\* Any error of the store counts as an unknown outcome; one of the labels read before does not.
CaptureIdea == {"changed", "nothing", "unknown"}

\* saveDailySchedule, disableSchedule: the refusals of the domain change nothing.
ChangeSchedule == {"changed", "nothing", "unknown"}

\* processCurrentActivityTurn: the outcomes of a linked transaction are not looked into.
ProcessActivity == {"changed", "nothing", "unknown", "uncounted", "error"}

\* updatePersonalContext, createNote, ideas.append: an error says nothing of the write.
ChangeProfile == {"changed", "nothing", "error"}

RestoreIdea == {"changed", "nothing", "error"}

\* undoLast tells only the model.
UndoTask == {"uncounted", "nothing", "error"}

Told == [capture |-> CaptureIdea, schedule |-> ChangeSchedule, activity |-> ProcessActivity,
         profile |-> ChangeProfile, restore |-> RestoreIdea, undo |-> UndoTask]

\* The row may be there although the call failed.
Leaves(c, told) ==
    IF told = "changed" THEN {durable \cup {c}}
    ELSE IF told = "nothing" THEN {durable}
    ELSE {durable, durable \cup {c}}

WriteEnds(c) ==
    /\ calls[c].pc = "working" /\ calls[c].kind \in Writes
    /\ \E told \in Told[calls[c].kind] :
          /\ calls' = Tells(c, told)
          /\ durable' \in Leaves(c, told)
          /\ businessWrite' = WriteAfter(calls[c].kind, told)
          /\ captured' = (captured \/ (calls[c].kind = "capture" /\ told = "changed"))
    /\ UNCHANGED <<status, run, slots, reserved, pendingCreated, aborted, outcome>>

-----------------------------------------------------------------------------
(* Proposals                                                               *)

\* The capability reads the task, or the idea to make one of, first.
NothingToPropose(c) ==
    /\ calls[c].pc = "working" /\ calls[c].kind \in Tasks
    /\ \E told \in {"nothing", "error"} : calls' = Tells(c, told)
    /\ UNCHANGED <<status, run, aborted, account, outcome>>

\* beforePersist: the slot is taken before the row is written.
TakeSlot(c) ==
    /\ calls[c].pc = "working" /\ calls[c].kind \in Tasks /\ CanReserve
    /\ slots' = [slots EXCEPT ![c] = "attempted"]
    /\ calls' = [calls EXCEPT ![c].pc = "saving"]
    /\ UNCHANGED <<status, run, reserved, businessWrite, pendingCreated, captured, durable,
                   aborted, outcome>>

NoSlot(c) ==
    /\ calls[c].pc = "working" /\ calls[c].kind \in Tasks
    /\ Refused(c)

\* onProposal.  A cancellation waits for the employee, anything else is applied now.
ProposalSaved(c) ==
    /\ calls[c].pc = "saving"
    /\ slots' = [slots EXCEPT ![c] = "persisted"]
    /\ pendingCreated' = TRUE
    /\ durable' = durable \cup {c}
    /\ calls' = IF calls[c].kind = "cancel" THEN Tells(c, "proposed")
                ELSE [calls EXCEPT ![c].pc = "applying"]
    /\ UNCHANGED <<status, run, reserved, businessWrite, captured, aborted, outcome>>

\* The slot stays attempted.
SaveFails(c) ==
    /\ calls[c].pc = "saving"
    /\ calls' = Tells(c, "uncertain")
    /\ durable' \in Leaves(c, "uncertain")
    /\ UNCHANGED <<status, run, slots, reserved, businessWrite, pendingCreated, captured,
                   aborted, outcome>>

\* Fault: a resolved proposal takes the others out of the account.
PendingAfterNone(c) == FALSE

PendingAfter(c) == Held \ {c} # {}

\* onResolved: applied, or nothing to apply it to.
Applied(c) ==
    /\ calls[c].pc = "applying"
    /\ slots' = [slots EXCEPT ![c] = "none"]
    /\ pendingCreated' = PendingAfter(c)
    /\ \E told \in {"changed", "nothing"} :
          /\ calls' = Tells(c, told)
          /\ durable' = IF told = "changed" THEN durable ELSE durable \ {c}
          /\ businessWrite' = WriteAfter("change", told)
    /\ UNCHANGED <<status, run, reserved, captured, aborted, outcome>>

ApplyFails(c) ==
    /\ calls[c].pc = "applying"
    /\ calls' = Tells(c, "proposed")
    /\ UNCHANGED <<status, run, aborted, account, outcome>>

\* ideas.propose and the proposals on documents reserve a slot as they start.
StartDeletion(c) ==
    /\ CanReserve
    /\ Starts(c, "deletion")
    /\ reserved' = reserved + 1
    /\ UNCHANGED <<status, run, slots, businessWrite, pendingCreated, captured, durable,
                   aborted, outcome>>

NoDeletion(c) ==
    /\ status = "running" /\ calls[c].pc = "idle"
    /\ Refused(c)

DeletionEnds(c) ==
    /\ calls[c].pc = "working" /\ calls[c].kind = "deletion"
    /\ reserved' = Released
    /\ \/ /\ calls' = Tells(c, "proposed")
          /\ slots' = [slots EXCEPT ![c] = "proposal"]
          /\ pendingCreated' = TRUE
          /\ durable' = durable \cup {c}
       \/ \E told \in {"nothing", "error"} :
             /\ calls' = Tells(c, told)
             /\ durable' \in Leaves(c, told)
             /\ UNCHANGED <<slots, pendingCreated>>
    /\ UNCHANGED <<status, run, businessWrite, captured, aborted, outcome>>

-----------------------------------------------------------------------------
(* Runs of the model                                                       *)

\* The participant, requestIntegrityGuard, and the projections of the context.
Admit ==
    /\ status = "received" /\ status' = "running"
    /\ UNCHANGED <<run, calls, aborted, account, outcome>>

Deny ==
    /\ status = "received"
    /\ \/ Throws("other")
       \/ aborted /\ Throws("abort")
       \/ status' = "ended" /\ UNCHANGED <<thrown, shown>>
    /\ UNCHANGED <<run, calls, aborted, account, agentError, response, promised, shielded>>

Settles(error, answer) ==
    /\ status' = "settling" /\ agentError' = error /\ response' = answer
    /\ UNCHANGED <<promised, shielded, thrown, shown>>

\* The text of an answer may be empty.
RunAnswers ==
    /\ status = "running" /\ InFlight = {}
    /\ \E answer \in {"agent", "none"} : Settles("none", answer)
    /\ UNCHANGED <<run, calls, aborted, account>>

\* What a failed call throws, should the runner let it through.
ErrorsOfCalls ==
    {IF calls[c].told \in {"limit", "unknown"} THEN calls[c].told ELSE "other" :
        c \in {d \in Calls : calls[d].pc = "ended"
                              /\ calls[d].told \in {"limit", "unknown", "error", "uncertain"}}}

\* An aborted run leaves its calls behind; other errors come when they are through.
RunFails ==
    /\ status = "running"
    /\ \/ InFlight = {} /\ \E error \in {"other"} \cup ErrorsOfCalls : Settles(error, "none")
       \/ aborted /\ Settles("abort", "none")
    /\ UNCHANGED <<run, calls, aborted, account>>

\* overflowAfterEffects
OverflowAfterEffects ==
    IF pendingCreated
    THEN Settles("none", IF businessWrite = "outcome_unknown" THEN "unknown" ELSE "overflow")
    ELSE Settles(IF businessWrite = "outcome_unknown" THEN "unknown" ELSE "overflow_written",
                 "none")

\* Fault: a retry that overflows is retried.
RetriesAgain == TRUE

MayRetry == run = 1

\* The provider refuses the context between two steps of the model.
RunOverflows ==
    /\ status = "running" /\ InFlight = {}
    /\ IF Effect # "none" THEN OverflowAfterEffects
       ELSE IF MayRetry THEN status' = "reducing" /\ UNCHANGED outcome
       ELSE Settles("overflow", "none")
    /\ UNCHANGED <<run, calls, aborted, account>>

\* The context is built again, smaller, and the model runs once more.
RunAgain ==
    /\ status = "reducing"
    /\ \/ /\ ~aborted /\ status' = "running" /\ run' = run + 1
          /\ UNCHANGED outcome
       \/ /\ aborted /\ Settles("abort", "none")
          /\ UNCHANGED run
       \/ /\ Throws("other")
          /\ UNCHANGED <<run, agentError, response, promised, shielded>>
    /\ UNCHANGED <<calls, aborted, account>>

Abort ==
    /\ status # "ended" /\ ~aborted
    /\ aborted' = TRUE
    /\ UNCHANGED <<status, run, calls, account, outcome>>

-----------------------------------------------------------------------------
(* The outcome of the turn                                                 *)

\* The error left when there is a proposal to show instead.
ErrorLeft ==
    IF Attempted # {} \/ agentError = "limit" \/ Held # {} THEN "none" ELSE agentError

ResponseLeft ==
    IF Attempted # {} THEN "uncertain"
    ELSE IF agentError = "limit" THEN "limit"
    ELSE IF agentError # "none" /\ Held # {} THEN "downstream"
    ELSE response

\* businessWrite and pendingCreated are put right when a save is uncertain.
WriteLeft == IF Attempted # {} THEN "outcome_unknown" ELSE businessWrite
PendingLeft == pendingCreated \/ Attempted # {}

\* An unknown outcome outranks the answer of the model.
Unknown == WriteLeft = "outcome_unknown" /\ Attempted = {}
FinalError ==
    IF Unknown THEN IF PendingLeft THEN "none"
                    ELSE IF Persisted = {} THEN "unknown" ELSE ErrorLeft
    ELSE ErrorLeft
FinalResponse ==
    LET told == IF Unknown THEN IF PendingLeft THEN "unknown"
                                ELSE IF Persisted = {} THEN "none" ELSE ResponseLeft
                ELSE ResponseLeft
    IN  IF told = "none" /\ captured /\ FinalError \notin {"overflow", "overflow_written"}
        THEN "captured" ELSE told

\* Fault: an aborted turn is reported as one that did nothing.
GivesUpAnyway == aborted

\* An aborted turn that did nothing is reported as such.
GivesUp == aborted /\ Attempted = {} /\ Persisted = {} /\ Effect = "none"

\* Fault: only a proposal known to be saved counts.
ShieldedIfSaved == Persisted # {}

\* A failure to write the history is only logged when there was a task proposal.
Shielded == Attempted \cup Persisted # {}

Settle ==
    /\ status = "settling"
    /\ promised' = Held /\ shielded' = Shielded
    /\ businessWrite' = WriteLeft /\ pendingCreated' = PendingLeft
    /\ agentError' = FinalError
    /\ IF GivesUp THEN Throws("abort") /\ UNCHANGED response
       ELSE IF FinalError # "none" /\ FinalResponse = "none"
       THEN Throws(FinalError) /\ UNCHANGED response
       ELSE /\ status' = "persisting" /\ UNCHANGED <<thrown, shown>>
            /\ response' = IF FinalResponse = "none" THEN "missing" ELSE FinalResponse
    /\ UNCHANGED <<run, calls, slots, reserved, captured, durable, aborted>>

\* The turn is appended to the history, or the reserve of time for it is used up.
TurnAppended ==
    /\ status = "persisting" /\ status' = "answering"
    /\ UNCHANGED <<run, calls, aborted, account, outcome>>

AppendFails ==
    /\ status = "persisting"
    /\ IF shielded THEN status' = "answering" /\ UNCHANGED <<thrown, shown>>
       ELSE Throws("other")
    /\ UNCHANGED <<run, calls, aborted, account, agentError, response, promised, shielded>>

Answer ==
    /\ status = "answering"
    /\ status' = "ended" /\ shown' = Held
    /\ UNCHANGED <<run, calls, aborted, account, agentError, response, promised, shielded,
                   thrown>>

CallStep(c) ==
    \/ StartCall(c) \/ WriteEnds(c)
    \/ NothingToPropose(c) \/ TakeSlot(c) \/ NoSlot(c)
    \/ ProposalSaved(c) \/ SaveFails(c) \/ Applied(c) \/ ApplyFails(c)
    \/ StartDeletion(c) \/ NoDeletion(c) \/ DeletionEnds(c)

TurnStep ==
    \/ Admit \/ Deny
    \/ RunAnswers \/ RunFails \/ RunOverflows \/ RunAgain
    \/ Settle \/ TurnAppended \/ AppendFails \/ Answer

Next == (\E c \in Calls : CallStep(c)) \/ TurnStep \/ Abort

Spec == Init /\ [][Next]_vars

-----------------------------------------------------------------------------
(* Properties                                                              *)

TypeOK ==
    /\ status \in Statuses /\ run \in 1..2
    /\ calls \in [Calls -> Call]
    /\ slots \in [Calls -> Slots] /\ reserved \in Nat
    /\ businessWrite \in {"none", "committed", "outcome_unknown"}
    /\ pendingCreated \in BOOLEAN /\ captured \in BOOLEAN /\ aborted \in BOOLEAN
    /\ shielded \in BOOLEAN
    /\ agentError \in Errors /\ response \in Responses
    /\ promised \subseteq Calls /\ durable \subseteq Calls /\ shown \subseteq Calls
    /\ thrown \in Errors

\* However many calls propose at the same time, the turn never holds more proposals than
\* one card may show.
RoomForAnswers == Cardinality(Held) + reserved <= Limit

\* The turn knows of pending proposals exactly when it holds one, whatever other calls
\* resolve, refuse or lose theirs at the same time: an overflow or an error is judged by it.
PendingIsCounted ==
    /\ (\E c \in Held : slots[c] # "attempted") => pendingCreated
    /\ pendingCreated => Held # {}

\* What a call may have left behind without the effect of the turn showing it.
Unaccounted(c) == calls[c].told \in {"uncounted", "error", "uncertain"}

\* The model runs again only if no tool of the first run had reported a write or a proposal
\* that a second run could repeat; what is left is of the tools the turn keeps no account
\* of, and task proposals of unknown persistence, the subject of the next property.
RetryFindsNothing == run = 2 =>
    \A c \in durable : calls[c].run = 1 => Unaccounted(c)

\* docs/architecture/runtime-context-contract.md:76: the turn is not repeated while it is
\* unknown whether a durable write took place.  A task proposal whose row may have been
\* saved is such a write.
UncertainIsNotRepeated == run = 2 =>
    \A c \in Calls : calls[c].run = 1 => calls[c].told \notin {"unknown", "uncertain"}

\* An employee told to send the message again (overflow) is not told so over a write or a
\* proposal some call had reported by then, nor one told that it took too long over a
\* proposal, whose card would never come.
RetryAdviceIsSafe == [][
    thrown' # thrown =>
        \A c \in Calls :
            /\ thrown' = "overflow" => calls[c].told \notin {"changed", "unknown"}
            /\ thrown' \in {"overflow", "abort"} => calls[c].told \notin {"proposed", "uncertain"}]_vars

\* A proposal held when the outcome is settled is on the card in the end, whatever the
\* model, the deadline and the history did, or it has been applied since; only documents'
\* and ideas' proposals are lost when the history cannot be written.
ProposalsAreShown == [][
    status' = "ended" /\ status # "ended" =>
        \/ {c \in promised' : slots[c] # "none"} \subseteq shown'
        \/ status = "persisting" /\ \A c \in promised' : slots[c] \notin {"attempted", "persisted"}]_vars

=============================================================================
