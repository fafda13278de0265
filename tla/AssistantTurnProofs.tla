------------------------- MODULE AssistantTurnProofs -------------------------
(***************************************************************************)
(* The account of a turn is right for any number of tool calls and any     *)
(* limit of proposals.                                                     *)
(***************************************************************************)
EXTENDS AssistantTurn, FiniteSetTheorems, TLAPS

-----------------------------------------------------------------------------
(* Type correctness                                                        *)

\* What a call becomes when it tells something, and that the others stay.
LEMMA TellsType ==
    ASSUME calls \in [Calls -> Call], NEW c \in Calls, NEW told \in Tellings
    PROVE  /\ Tells(c, told) \in [Calls -> Call]
           /\ Tells(c, told)[c].pc = "ended"
           /\ Tells(c, told)[c].told = told
           /\ Tells(c, told)[c].run = calls[c].run
           /\ Tells(c, told)[c].kind = "none"
           /\ \A d \in Calls \ {c} : Tells(c, told)[d] = calls[d]
  <1> DEFINE ended == [pc |-> "ended", kind |-> "none", run |-> calls[c].run, told |-> told]
  <1>1. calls[c] \in Call
    OBVIOUS
  <1>2. ended \in Call
    BY <1>1 DEF Call
  <1>3. Tells(c, told) = [calls EXCEPT ![c] = ended]
    BY DEF Tells
  <1> HIDE DEF ended
  <1>4. /\ Tells(c, told) \in [Calls -> Call]
        /\ Tells(c, told)[c] = ended
        /\ \A d \in Calls \ {c} : Tells(c, told)[d] = calls[d]
    BY <1>2, <1>3
  <1> QED BY <1>4 DEF ended

LEMMA StartsType ==
    ASSUME TypeOK, NEW c \in Calls, NEW kind \in Kinds, Starts(c, kind)
    PROVE  /\ calls' \in [Calls -> Call]
           /\ calls'[c].pc = "working" /\ calls'[c].kind = kind
           /\ calls'[c].run = run /\ calls'[c].told = "unsaid"
           /\ \A d \in Calls \ {c} : calls'[d] = calls[d]
  <1> DEFINE started == [pc |-> "working", kind |-> kind, run |-> run, told |-> "unsaid"]
  <1>1. started \in Call
    <2>1. run \in 0..2
      BY DEF TypeOK
    <2>2. "unsaid" \in Tellings
      BY DEF Tellings
    <2> QED BY <2>1, <2>2 DEF Call
  <1>2. calls' = [calls EXCEPT ![c] = started]
    BY DEF Starts
  <1>3. /\ started.pc = "working" /\ started.kind = kind
        /\ started.run = run /\ started.told = "unsaid"
    OBVIOUS
  <1> HIDE DEF started
  <1>4. calls' \in [Calls -> Call] /\ calls'[c] = started
    BY <1>1, <1>2 DEF TypeOK
  <1>5. \A d \in Calls \ {c} : calls'[d] = calls[d]
    BY <1>2 DEF TypeOK
  <1> QED BY <1>3, <1>4, <1>5

\* What a call that writes at once may tell.
LEMMA ToldType == \A kind \in Writes : \A told \in Told[kind] :
    told \in Tellings /\ told \in {"changed", "nothing", "uncounted", "unknown", "error"}
  <1>1. /\ Told["capture"] = CaptureIdea /\ Told["schedule"] = ChangeSchedule
        /\ Told["activity"] = ProcessActivity /\ Told["profile"] = ChangeProfile
        /\ Told["restore"] = RestoreIdea /\ Told["undo"] = UndoTask
    BY DEF Told
  <1>2. \A told \in CaptureIdea \cup ChangeSchedule \cup ProcessActivity \cup ChangeProfile
                   \cup RestoreIdea \cup UndoTask :
           told \in Tellings /\ told \in {"changed", "nothing", "uncounted", "unknown", "error"}
    BY DEF CaptureIdea, ChangeSchedule, ProcessActivity, ChangeProfile, RestoreIdea, UndoTask,
           Tellings
  <1> QED BY <1>1, <1>2 DEF Writes

LEMMA WriteAfterType ==
    ASSUME TypeOK, NEW kind, NEW told
    PROVE  /\ WriteAfter(kind, told) \in {"none", "committed", "outcome_unknown"}
           /\ told \in {"changed", "unknown"} => WriteAfter(kind, told) # "none"
           /\ businessWrite # "none" => WriteAfter(kind, told) # "none"
  BY DEF TypeOK, WriteAfter

LEMMA LeavesType ==
    ASSUME TypeOK, NEW c \in Calls, NEW told, NEW left \in Leaves(c, told)
    PROVE  left \subseteq Calls /\ (left = durable \/ left = durable \cup {c})
  BY DEF TypeOK, Leaves

LEMMA SlotType ==
    ASSUME TypeOK, NEW c \in Calls, NEW slot \in Slots, slots' = [slots EXCEPT ![c] = slot]
    PROVE  /\ slots' \in [Calls -> Slots]
           /\ slots'[c] = slot
           /\ \A d \in Calls \ {c} : slots'[d] = slots[d]
  BY DEF TypeOK

\* A call that only moves on keeps its other fields.
LEMMA MovesType ==
    ASSUME TypeOK, NEW c \in Calls, NEW pc \in {"saving", "applying"},
           calls' = [calls EXCEPT ![c].pc = pc]
    PROVE  /\ calls' \in [Calls -> Call]
           /\ calls'[c].pc = pc /\ calls'[c].told = calls[c].told
           /\ calls'[c].run = calls[c].run /\ calls'[c].kind = calls[c].kind
           /\ \A d \in Calls \ {c} : calls'[d] = calls[d]
  <1>1. calls \in [Calls -> Call] /\ calls[c] \in Call
    BY DEF TypeOK
  <1>2. [calls[c] EXCEPT !.pc = pc] \in Call
    BY <1>1 DEF Call
  <1>3. calls'[c] = [calls[c] EXCEPT !.pc = pc]
    BY <1>1
  <1>4. calls' \in [Calls -> Call]
    BY <1>1, <1>2, <1>3
  <1>5. /\ calls'[c].pc = pc /\ calls'[c].told = calls[c].told
        /\ calls'[c].run = calls[c].run /\ calls'[c].kind = calls[c].kind
    BY <1>1, <1>3 DEF Call
  <1>6. \A d \in Calls \ {c} : calls'[d] = calls[d]
    BY <1>1
  <1> QED BY <1>4, <1>5, <1>6

-----------------------------------------------------------------------------
(* The inductive invariant                                                 *)

\* The slots reserved are those of the proposals on their way.
Deleting == {c \in Calls : calls[c].pc = "working" /\ calls[c].kind = "deletion"}
Counted == reserved = Cardinality(Deleting)

\* What is durable shows in the effect of the turn, unless its tool keeps no account.
Saved(c) == slots[c] \in {"persisted", "proposal"}
WrittenIsCounted ==
    /\ \A c \in durable : /\ calls[c].pc \in {"applying", "ended"}
                          /\ Unaccounted(c) \/ businessWrite # "none" \/ Saved(c)
    /\ \A c \in Calls : Unaccounted(c) => calls[c].pc = "ended"

\* A task proposal that is saved or applied has its slot.
ProposalsHoldSlots == \A c \in Calls :
    calls[c].pc \in {"saving", "applying"} => slots[c] # "none"

\* No call of the first run is on its way when the second is prepared and runs.
RunsApart ==
    /\ status = "reducing" => /\ run = 1 /\ InFlight = {}
                              /\ businessWrite = "none" /\ ~pendingCreated
    /\ run = 2 => \A c \in Calls : calls[c].run = 1 => calls[c].pc = "ended"
    /\ \A c \in Calls : calls[c].pc = "idle" => calls[c].run = 0

Account ==
    /\ Counted /\ RoomForAnswers
    /\ PendingIsCounted
    /\ WrittenIsCounted /\ ProposalsHoldSlots
    /\ RunsApart /\ RetryFindsNothing

Inv == TypeOK /\ Account

LEMMA InitInv == Init => Inv
  <1> SUFFICES ASSUME Init PROVE Inv
    OBVIOUS
  <1>1. NoCall \in Call
    BY DEF NoCall, Call, Tellings
  <1>2. TypeOK
    <2>1. calls \in [Calls -> Call] /\ slots \in [Calls -> Slots]
      BY <1>1 DEF Init, Slots
    <2>2. /\ status \in Statuses /\ agentError \in Errors /\ response \in Responses
          /\ thrown \in Errors
      BY DEF Init, Statuses, Errors, Responses
    <2>3. run \in 1..2 /\ reserved \in Nat
      BY DEF Init
    <2> QED BY <2>1, <2>2, <2>3 DEF Init, TypeOK
  <1>3. Deleting = {} /\ Held = {}
    BY DEF Init, Deleting, Held, NoCall
  <1>4. Counted /\ RoomForAnswers
    BY <1>3, FS_EmptySet, LimitAssumption DEF Init, Counted, RoomForAnswers
  <1>5. PendingIsCounted /\ WrittenIsCounted /\ ProposalsHoldSlots
    BY <1>3 DEF Init, PendingIsCounted, WrittenIsCounted, ProposalsHoldSlots, NoCall, Unaccounted
  <1>6. RunsApart /\ RetryFindsNothing
    <2>1. \A c \in Calls : calls[c].run = 0
      BY DEF Init, NoCall
    <2> QED BY <2>1 DEF Init, RunsApart, RetryFindsNothing
  <1> QED BY <1>2, <1>4, <1>5, <1>6 DEF Inv, Account

\* Sets of calls are finite, and one more call is one more at most.
LEMMA SetsOfCalls == \A S \in SUBSET Calls :
    /\ IsFiniteSet(S) /\ Cardinality(S) \in Nat
    /\ \A c \in Calls : /\ Cardinality(S \cup {c}) <= Cardinality(S) + 1
                        /\ c \notin S => Cardinality(S \cup {c}) = Cardinality(S) + 1
                        /\ c \in S => Cardinality(S \ {c}) = Cardinality(S) - 1
                        /\ Cardinality(S \ {c}) <= Cardinality(S)
  <1> SUFFICES ASSUME NEW S \in SUBSET Calls, NEW c \in Calls
               PROVE  /\ IsFiniteSet(S) /\ Cardinality(S) \in Nat
                      /\ Cardinality(S \cup {c}) <= Cardinality(S) + 1
                      /\ c \notin S => Cardinality(S \cup {c}) = Cardinality(S) + 1
                      /\ c \in S => Cardinality(S \ {c}) = Cardinality(S) - 1
                      /\ Cardinality(S \ {c}) <= Cardinality(S)
    <2>1. IsFiniteSet({}) /\ Cardinality({}) \in Nat
      BY FS_EmptySet
    <2>2. \A T \in SUBSET Calls : IsFiniteSet(T) /\ Cardinality(T) \in Nat
      BY CallsAssumption, FS_Subset, FS_CardinalityType
    <2> QED BY <2>2
  <1>1. IsFiniteSet(S)
    BY CallsAssumption, FS_Subset
  <1>2. Cardinality(S) \in Nat
    BY <1>1, FS_CardinalityType
  <1>3. Cardinality(S \cup {c}) = IF c \in S THEN Cardinality(S) ELSE Cardinality(S) + 1
    BY <1>1, FS_AddElement
  <1>4. Cardinality(S \ {c}) = IF c \in S THEN Cardinality(S) - 1 ELSE Cardinality(S)
    BY <1>1, FS_RemoveElement
  <1> QED BY <1>1, <1>2, <1>3, <1>4

-----------------------------------------------------------------------------
(* Steps of the calls                                                      *)

\* What every step of call c does.
Moves(c) ==
    /\ UNCHANGED <<status, run>>
    /\ calls[c].pc # "ended" /\ (status = "running" \/ c \in InFlight)
    /\ calls' \in [Calls -> Call]
    /\ \A d \in Calls \ {c} : calls'[d] = calls[d]
    /\ calls'[c].run \in {calls[c].run, run} /\ calls'[c].pc # "idle"
    /\ durable' \subseteq durable \cup {c}

LEMMA MovesKeepRuns ==
    ASSUME Inv, NEW c \in Calls, Moves(c)
    PROVE  RunsApart' /\ RetryFindsNothing'
  <1>1. status # "reducing"
    BY DEF Inv, Account, RunsApart, Moves, InFlight
  <1>2. run = 2 => calls'[c].run # 1
    BY DEF Inv, Account, RunsApart, Moves
  <1>3. RunsApart'
    BY <1>1, <1>2 DEF Inv, Account, RunsApart, Moves
  <1>4. RetryFindsNothing'
    BY <1>2 DEF Inv, Account, TypeOK, RetryFindsNothing, Moves, Unaccounted
  <1> QED BY <1>3, <1>4

\* Nothing of another call is taken out of the account.
LEMMA MovesKeepWritten ==
    ASSUME Inv, NEW c \in Calls, Moves(c),
           businessWrite # "none" => businessWrite' # "none",
           \A d \in Calls \ {c} : slots'[d] = slots[d],
           c \in durable' => /\ calls'[c].pc \in {"applying", "ended"}
                             /\ Unaccounted(c)' \/ businessWrite' # "none" \/ Saved(c)',
           Unaccounted(c)' => calls'[c].pc = "ended",
           calls'[c].pc \in {"saving", "applying"} => slots'[c] # "none"
    PROVE  WrittenIsCounted' /\ ProposalsHoldSlots'
  <1>1. \A d \in durable' : d = c \/ (d \in durable /\ d \in Calls \ {c})
    BY DEF Inv, TypeOK, Moves
  <1>2. \A d \in durable' : /\ calls'[d].pc \in {"applying", "ended"}
                            /\ Unaccounted(d)' \/ businessWrite' # "none" \/ Saved(d)'
    BY <1>1 DEF Inv, Account, Moves, WrittenIsCounted, Unaccounted, Saved
  <1>3. \A d \in Calls : Unaccounted(d)' => calls'[d].pc = "ended"
    BY DEF Inv, Account, Moves, WrittenIsCounted, Unaccounted
  <1>4. ProposalsHoldSlots'
    BY DEF Inv, Account, Moves, ProposalsHoldSlots
  <1> QED BY <1>2, <1>3, <1>4 DEF WrittenIsCounted

\* A call that proposes nothing leaves the proposals alone.
LEMMA QuietMove ==
    ASSUME Inv, NEW c \in Calls, Moves(c), UNCHANGED <<slots, reserved, pendingCreated>>,
           c \notin Deleting, c \notin Deleting'
    PROVE  Counted' /\ RoomForAnswers' /\ PendingIsCounted'
  <1>1. Deleting' = Deleting
    BY DEF Deleting, Moves
  <1>2. Held' = Held
    BY DEF Held
  <1> QED BY <1>1, <1>2 DEF Inv, Account, Counted, RoomForAnswers, PendingIsCounted

\* A call that ends without a word of a write the effect of the turn should show.
LEMMA EndsQuietly ==
    ASSUME Inv, NEW c \in Calls, NEW told \in Tellings,
           calls[c].pc \in {"idle", "working"}, c \notin Deleting,
           status = "running" \/ c \in InFlight,
           calls' = Tells(c, told), UNCHANGED <<status, run, aborted, account, outcome>>
    PROVE  Inv'
  <1>1. calls \in [Calls -> Call]
    BY DEF Inv, TypeOK
  <1>2. /\ calls' \in [Calls -> Call]
        /\ calls'[c].pc = "ended" /\ calls'[c].told = told
        /\ calls'[c].run = calls[c].run /\ calls'[c].kind = "none"
        /\ \A d \in Calls \ {c} : calls'[d] = calls[d]
    BY <1>1, TellsType
  <1>3. Moves(c)
    BY <1>2 DEF Moves, account
  <1>4. Counted' /\ RoomForAnswers' /\ PendingIsCounted'
    BY <1>2, <1>3, QuietMove DEF Deleting, account
  <1>5. c \notin durable
    BY DEF Inv, Account, WrittenIsCounted
  <1>6. WrittenIsCounted' /\ ProposalsHoldSlots'
    BY <1>2, <1>3, <1>5, MovesKeepWritten DEF account
  <1>7. TypeOK'
    BY <1>2 DEF Inv, TypeOK, account, outcome
  <1> QED BY <1>3, <1>4, <1>6, <1>7, MovesKeepRuns DEF Inv, Account

LEMMA RefusedInv ==
    ASSUME Inv, NEW c \in Calls, calls[c].pc \in {"idle", "working"}, c \notin Deleting,
           status = "running" \/ c \in InFlight, Refused(c)
    PROVE  Inv'
  <1>1. PICK told \in {"error", "limit"} : calls' = Tells(c, told)
    BY DEF Refused
  <1>2. told \in Tellings
    BY DEF Tellings
  <1> QED BY <1>1, <1>2, EndsQuietly DEF Refused

LEMMA StartCallInv ==
    ASSUME Inv, NEW c \in Calls, StartCall(c)
    PROVE  Inv'
  <1>1. PICK kind \in Writes \cup Tasks : Starts(c, kind)
    BY DEF StartCall
  <1>2. kind \in Kinds /\ kind # "deletion"
    BY DEF Kinds, Writes, Tasks
  <1>3. /\ calls' \in [Calls -> Call]
        /\ calls'[c].pc = "working" /\ calls'[c].kind = kind
        /\ calls'[c].run = run /\ calls'[c].told = "unsaid"
        /\ \A d \in Calls \ {c} : calls'[d] = calls[d]
    BY <1>1, <1>2, StartsType DEF Inv
  <1>4. /\ UNCHANGED <<status, run, aborted, account, outcome>>
        /\ status = "running" /\ calls[c].pc = "idle"
    BY <1>1 DEF StartCall, Starts
  <1>5. Moves(c)
    BY <1>3, <1>4 DEF Moves, account
  <1>6. Counted' /\ RoomForAnswers' /\ PendingIsCounted'
    BY <1>2, <1>3, <1>4, <1>5, QuietMove DEF Deleting, account
  <1>7. c \notin durable
    BY <1>4 DEF Inv, Account, WrittenIsCounted
  <1>8. WrittenIsCounted' /\ ProposalsHoldSlots'
    BY <1>3, <1>4, <1>5, <1>7, MovesKeepWritten DEF account, Unaccounted
  <1>9. TypeOK'
    BY <1>3, <1>4 DEF Inv, TypeOK, account, outcome
  <1> QED BY <1>5, <1>6, <1>8, <1>9, MovesKeepRuns DEF Inv, Account

LEMMA WriteEndsInv ==
    ASSUME Inv, NEW c \in Calls, WriteEnds(c)
    PROVE  Inv'
  <1> DEFINE kind == calls[c].kind
  <1>0. calls[c].pc = "working" /\ kind \in Writes /\ kind # "deletion"
    BY DEF WriteEnds, Writes
  <1>1. PICK told \in Told[kind] :
          /\ calls' = Tells(c, told)
          /\ durable' \in Leaves(c, told)
          /\ businessWrite' = WriteAfter(kind, told)
          /\ captured' = (captured \/ (kind = "capture" /\ told = "changed"))
    BY DEF WriteEnds
  <1>2. /\ told \in Tellings /\ told \in {"changed", "nothing", "uncounted", "unknown", "error"}
        /\ calls \in [Calls -> Call]
    BY <1>0, ToldType DEF Inv, TypeOK
  <1>3. /\ calls' \in [Calls -> Call]
        /\ calls'[c].pc = "ended" /\ calls'[c].told = told
        /\ calls'[c].run = calls[c].run /\ calls'[c].kind = "none"
        /\ \A d \in Calls \ {c} : calls'[d] = calls[d]
    BY <1>1, <1>2, TellsType
  <1>4. durable' \subseteq Calls /\ (durable' = durable \/ durable' = durable \cup {c})
    BY <1>1, LeavesType DEF Inv
  <1>5. UNCHANGED <<status, run, slots, reserved, pendingCreated, aborted, outcome>>
    BY DEF WriteEnds
  <1>6. Moves(c)
    BY <1>0, <1>3, <1>4, <1>5 DEF Moves, InFlight
  <1>7. Counted' /\ RoomForAnswers' /\ PendingIsCounted'
    BY <1>0, <1>3, <1>5, <1>6, QuietMove DEF Deleting
  <1>8. /\ businessWrite' \in {"none", "committed", "outcome_unknown"}
        /\ told \in {"changed", "unknown"} => businessWrite' # "none"
        /\ businessWrite # "none" => businessWrite' # "none"
    BY <1>1, WriteAfterType DEF Inv
  <1>9. c \notin durable
    BY <1>0 DEF Inv, Account, WrittenIsCounted
  <1>10. c \in durable' => told \in {"changed", "unknown", "uncounted", "error"}
    <2>1. told = "nothing" => durable' = durable
      BY <1>1 DEF Leaves
    <2> QED BY <1>2, <1>9, <2>1
  <1>11. WrittenIsCounted' /\ ProposalsHoldSlots'
    BY <1>3, <1>5, <1>6, <1>8, <1>10, MovesKeepWritten DEF Unaccounted
  <1>12. captured' \in BOOLEAN
    BY <1>1 DEF Inv, TypeOK
  <1>13. TypeOK'
    BY <1>3, <1>4, <1>5, <1>8, <1>12 DEF Inv, TypeOK, outcome
  <1> QED BY <1>6, <1>7, <1>11, <1>13, MovesKeepRuns DEF Inv, Account

\* The steps of a task proposal.
LEMMA TakeSlotInv ==
    ASSUME Inv, NEW c \in Calls, TakeSlot(c)
    PROVE  Inv'
  <1>1. /\ calls[c].pc = "working" /\ calls[c].kind \in Tasks /\ calls[c].kind # "deletion"
        /\ UNCHANGED <<status, run, reserved, businessWrite, pendingCreated, captured, durable,
                       aborted, outcome>>
        /\ Cardinality(Held) + reserved < Limit
    BY DEF TakeSlot, Tasks, CanReserve, SlotFree
  <1>2. /\ calls' \in [Calls -> Call]
        /\ calls'[c].pc = "saving" /\ calls'[c].told = calls[c].told
        /\ calls'[c].run = calls[c].run /\ calls'[c].kind = calls[c].kind
        /\ \A d \in Calls \ {c} : calls'[d] = calls[d]
    BY MovesType DEF TakeSlot, Inv
  <1>3. /\ slots' \in [Calls -> Slots] /\ slots'[c] = "attempted"
        /\ \A d \in Calls \ {c} : slots'[d] = slots[d]
    BY SlotType DEF TakeSlot, Inv, Slots
  <1>4. Moves(c)
    BY <1>1, <1>2 DEF Moves, InFlight
  <1>5. c \notin durable
    BY <1>1 DEF Inv, Account, WrittenIsCounted
  <1>6. Deleting' = Deleting
    BY <1>1, <1>2 DEF Deleting
  <1>7. Held' = Held \cup {c}
    BY <1>3 DEF Held
  <1>8. Counted'
    BY <1>1, <1>6 DEF Inv, Account, Counted
  <1>9. RoomForAnswers'
    <2>1. Held \in SUBSET Calls
      BY DEF Held
    <2>2. Cardinality(Held') <= Cardinality(Held) + 1
      BY <1>7, <2>1, SetsOfCalls
    <2>3. Cardinality(Held) \in Nat /\ Cardinality(Held') \in Nat
      BY <1>3, <2>1, SetsOfCalls DEF Held
    <2> QED BY <1>1, <2>2, <2>3, LimitAssumption DEF RoomForAnswers, Inv, TypeOK
  <1>10. PendingIsCounted'
    <2>1. \A d \in Held' : slots'[d] # "attempted" => d \in Held /\ slots[d] # "attempted"
      BY <1>3, <1>7 DEF Held
    <2>2. c \in Held'
      BY <1>7
    <2> QED BY <1>1, <2>1, <2>2 DEF Inv, Account, PendingIsCounted
  <1>11. calls[c].told \notin {"uncounted", "error", "uncertain"}
    BY <1>1 DEF Inv, Account, WrittenIsCounted, Unaccounted
  <1>12. WrittenIsCounted' /\ ProposalsHoldSlots'
    BY <1>1, <1>2, <1>3, <1>4, <1>5, <1>11, MovesKeepWritten DEF Unaccounted
  <1>13. TypeOK'
    BY <1>1, <1>2, <1>3 DEF Inv, TypeOK, outcome
  <1> QED BY <1>4, <1>8, <1>9, <1>10, <1>12, <1>13, MovesKeepRuns DEF Inv, Account

LEMMA ProposalSavedInv ==
    ASSUME Inv, NEW c \in Calls, ProposalSaved(c)
    PROVE  Inv'
  <1>1. /\ calls[c].pc = "saving" /\ pendingCreated' = TRUE /\ durable' = durable \cup {c}
        /\ UNCHANGED <<status, run, reserved, businessWrite, captured, aborted, outcome>>
        /\ calls \in [Calls -> Call]
    BY DEF ProposalSaved, Inv, TypeOK
  <1>2. /\ calls' \in [Calls -> Call]
        /\ calls'[c].pc \in {"ended", "applying"}
        /\ calls'[c].told \in {"proposed", calls[c].told}
        /\ calls'[c].run = calls[c].run
        /\ \A d \in Calls \ {c} : calls'[d] = calls[d]
    <2>1. CASE calls[c].kind = "cancel"
      <3>1. calls' = Tells(c, "proposed") /\ "proposed" \in Tellings
        BY <2>1 DEF ProposalSaved, Tellings
      <3> QED BY <1>1, <3>1, TellsType
    <2>2. CASE calls[c].kind # "cancel"
      <3>1. calls' = [calls EXCEPT ![c].pc = "applying"]
        BY <2>2 DEF ProposalSaved
      <3> QED BY <3>1, MovesType DEF Inv
    <2> QED BY <2>1, <2>2
  <1>3. /\ slots' \in [Calls -> Slots] /\ slots'[c] = "persisted"
        /\ \A d \in Calls \ {c} : slots'[d] = slots[d]
    BY SlotType DEF ProposalSaved, Inv, Slots
  <1>4. Moves(c)
    BY <1>1, <1>2 DEF Moves, InFlight
  <1>5. calls[c].told \notin {"uncounted", "error", "uncertain"}
    BY <1>1 DEF Inv, Account, WrittenIsCounted, Unaccounted
  <1>6. Deleting' = Deleting
    BY <1>1, <1>2 DEF Deleting
  <1>7. Held' = Held
    BY <1>1, <1>3 DEF Held, Inv, Account, ProposalsHoldSlots
  <1>8. Counted' /\ RoomForAnswers'
    BY <1>1, <1>6, <1>7 DEF Inv, Account, Counted, RoomForAnswers
  <1>9. PendingIsCounted'
    BY <1>1, <1>3, <1>7 DEF Inv, Account, PendingIsCounted, Held
  <1>10. WrittenIsCounted' /\ ProposalsHoldSlots'
    BY <1>1, <1>2, <1>3, <1>4, <1>5, MovesKeepWritten DEF Unaccounted, Saved
  <1>11. TypeOK'
    BY <1>1, <1>2, <1>3 DEF Inv, TypeOK, outcome
  <1> QED BY <1>4, <1>8, <1>9, <1>10, <1>11, MovesKeepRuns DEF Inv, Account

LEMMA SaveFailsInv ==
    ASSUME Inv, NEW c \in Calls, SaveFails(c)
    PROVE  Inv'
  <1>1. /\ calls[c].pc = "saving" /\ "uncertain" \in Tellings
        /\ UNCHANGED <<status, run, slots, reserved, businessWrite, pendingCreated, captured,
                       aborted, outcome>>
        /\ calls \in [Calls -> Call] /\ calls' = Tells(c, "uncertain")
        /\ durable' \in Leaves(c, "uncertain")
    BY DEF SaveFails, Inv, TypeOK, Tellings
  <1>2. /\ calls' \in [Calls -> Call]
        /\ calls'[c].pc = "ended" /\ calls'[c].told = "uncertain"
        /\ calls'[c].run = calls[c].run /\ calls'[c].kind = "none"
        /\ \A d \in Calls \ {c} : calls'[d] = calls[d]
    BY <1>1, TellsType
  <1>3. durable' \subseteq Calls /\ (durable' = durable \/ durable' = durable \cup {c})
    BY <1>1, LeavesType DEF Inv
  <1>4. Moves(c)
    BY <1>1, <1>2, <1>3 DEF Moves, InFlight
  <1>5. Counted' /\ RoomForAnswers' /\ PendingIsCounted'
    BY <1>1, <1>2, <1>4, QuietMove DEF Deleting
  <1>6. WrittenIsCounted' /\ ProposalsHoldSlots'
    BY <1>1, <1>2, <1>4, MovesKeepWritten DEF Unaccounted
  <1>7. TypeOK'
    BY <1>1, <1>2, <1>3 DEF Inv, TypeOK, outcome
  <1> QED BY <1>4, <1>5, <1>6, <1>7, MovesKeepRuns DEF Inv, Account

LEMMA AppliedInv ==
    ASSUME Inv, NEW c \in Calls, Applied(c)
    PROVE  Inv'
  <1>1. PICK told \in {"changed", "nothing"} :
          /\ calls' = Tells(c, told)
          /\ durable' = IF told = "changed" THEN durable ELSE durable \ {c}
          /\ businessWrite' = WriteAfter("change", told)
    BY DEF Applied
  <1>2. /\ calls[c].pc = "applying" /\ told \in Tellings
        /\ pendingCreated' = (Held \ {c} # {})
        /\ UNCHANGED <<status, run, reserved, captured, aborted, outcome>>
        /\ calls \in [Calls -> Call]
    BY DEF Applied, PendingAfter, Inv, TypeOK, Tellings
  <1>3. /\ calls' \in [Calls -> Call]
        /\ calls'[c].pc = "ended" /\ calls'[c].told = told
        /\ calls'[c].run = calls[c].run /\ calls'[c].kind = "none"
        /\ \A d \in Calls \ {c} : calls'[d] = calls[d]
    BY <1>1, <1>2, TellsType
  <1>4. /\ slots' \in [Calls -> Slots] /\ slots'[c] = "none"
        /\ \A d \in Calls \ {c} : slots'[d] = slots[d]
    BY SlotType DEF Applied, Inv, Slots
  <1>5. Moves(c)
    BY <1>1, <1>2, <1>3 DEF Moves, InFlight
  <1>6. Held' = Held \ {c}
    BY <1>4 DEF Held
  <1>7. Deleting' = Deleting
    BY <1>2, <1>3 DEF Deleting
  <1>8. Counted'
    BY <1>2, <1>7 DEF Inv, Account, Counted
  <1>9. RoomForAnswers'
    <2>1. Held \in SUBSET Calls
      BY DEF Held
    <2>2. Cardinality(Held') <= Cardinality(Held)
      BY <1>6, <2>1, SetsOfCalls
    <2>3. Cardinality(Held) \in Nat /\ Cardinality(Held') \in Nat
      BY <1>6, <2>1, SetsOfCalls
    <2> QED BY <1>2, <2>2, <2>3, LimitAssumption DEF RoomForAnswers, Inv, Account, TypeOK
  <1>10. PendingIsCounted'
    BY <1>2, <1>4, <1>6 DEF PendingIsCounted
  <1>11. /\ businessWrite' \in {"none", "committed", "outcome_unknown"}
         /\ told = "changed" => businessWrite' # "none"
         /\ businessWrite # "none" => businessWrite' # "none"
    BY <1>1, WriteAfterType DEF Inv
  <1>12. c \in durable' => told = "changed"
    BY <1>1
  <1>13. WrittenIsCounted' /\ ProposalsHoldSlots'
    BY <1>3, <1>4, <1>5, <1>11, <1>12, MovesKeepWritten DEF Unaccounted
  <1>14. durable' \subseteq Calls /\ pendingCreated' \in BOOLEAN
    BY <1>1, <1>2 DEF Inv, TypeOK
  <1>15. TypeOK'
    BY <1>2, <1>3, <1>4, <1>11, <1>14 DEF Inv, TypeOK, outcome
  <1> QED BY <1>5, <1>8, <1>9, <1>10, <1>13, <1>15, MovesKeepRuns DEF Inv, Account

\* The proposal stays where it is.
LEMMA ApplyFailsInv ==
    ASSUME Inv, NEW c \in Calls, ApplyFails(c)
    PROVE  Inv'
  <1>1. /\ calls[c].pc = "applying" /\ "proposed" \in Tellings
        /\ UNCHANGED <<status, run, aborted, account, outcome>>
        /\ calls \in [Calls -> Call] /\ calls' = Tells(c, "proposed")
    BY DEF ApplyFails, Inv, TypeOK, Tellings
  <1>2. /\ calls' \in [Calls -> Call]
        /\ calls'[c].pc = "ended" /\ calls'[c].told = "proposed"
        /\ calls'[c].run = calls[c].run /\ calls'[c].kind = "none"
        /\ \A d \in Calls \ {c} : calls'[d] = calls[d]
    BY <1>1, TellsType
  <1>3. UNCHANGED <<slots, reserved, businessWrite, pendingCreated, captured, durable>>
    BY <1>1 DEF account
  <1>4. Moves(c)
    BY <1>1, <1>2, <1>3 DEF Moves, InFlight
  <1>5. Counted' /\ RoomForAnswers' /\ PendingIsCounted'
    BY <1>1, <1>2, <1>3, <1>4, QuietMove DEF Deleting
  <1>6. c \in durable => businessWrite # "none" \/ Saved(c)
    BY <1>1 DEF Inv, Account, WrittenIsCounted
  <1>7. WrittenIsCounted' /\ ProposalsHoldSlots'
    BY <1>1, <1>2, <1>3, <1>4, <1>6, MovesKeepWritten DEF Unaccounted, Saved
  <1>8. TypeOK'
    BY <1>1, <1>2, <1>3 DEF Inv, TypeOK, outcome
  <1> QED BY <1>4, <1>5, <1>7, <1>8, MovesKeepRuns DEF Inv, Account

\* The steps of a proposal on an idea or a document.
LEMMA StartDeletionInv ==
    ASSUME Inv, NEW c \in Calls, StartDeletion(c)
    PROVE  Inv'
  <1>1. /\ Starts(c, "deletion") /\ "deletion" \in Kinds
        /\ reserved' = reserved + 1
        /\ UNCHANGED <<status, run, slots, businessWrite, pendingCreated, captured, durable,
                       aborted, outcome>>
        /\ status = "running" /\ calls[c].pc = "idle"
        /\ Cardinality(Held) + reserved < Limit
    BY DEF StartDeletion, Starts, CanReserve, SlotFree, Kinds
  <1>2. /\ calls' \in [Calls -> Call]
        /\ calls'[c].pc = "working" /\ calls'[c].kind = "deletion"
        /\ calls'[c].run = run /\ calls'[c].told = "unsaid"
        /\ \A d \in Calls \ {c} : calls'[d] = calls[d]
    BY <1>1, StartsType DEF Inv
  <1>3. Moves(c)
    BY <1>1, <1>2 DEF Moves
  <1>4. Deleting' = Deleting \cup {c} /\ c \notin Deleting /\ Deleting \in SUBSET Calls
    BY <1>1, <1>2 DEF Deleting
  <1>5. Counted'
    BY <1>1, <1>4, SetsOfCalls DEF Inv, Account, Counted
  <1>6. Held' = Held /\ Held \in SUBSET Calls
    BY <1>1 DEF Held
  <1>7. RoomForAnswers'
    <2>1. Cardinality(Held) \in Nat
      BY <1>6, SetsOfCalls
    <2> QED BY <1>1, <1>6, <2>1, LimitAssumption DEF RoomForAnswers, Inv, TypeOK
  <1>8. PendingIsCounted'
    BY <1>1, <1>6 DEF Inv, Account, PendingIsCounted
  <1>9. c \notin durable
    BY <1>1 DEF Inv, Account, WrittenIsCounted
  <1>10. WrittenIsCounted' /\ ProposalsHoldSlots'
    BY <1>1, <1>2, <1>3, <1>9, MovesKeepWritten DEF Unaccounted
  <1>11. reserved' \in Nat
    BY <1>1 DEF Inv, TypeOK
  <1>12. TypeOK'
    BY <1>1, <1>2, <1>11 DEF Inv, TypeOK, outcome
  <1> QED BY <1>3, <1>5, <1>7, <1>8, <1>10, <1>12, MovesKeepRuns DEF Inv, Account

LEMMA DeletionEndsInv ==
    ASSUME Inv, NEW c \in Calls, DeletionEnds(c)
    PROVE  Inv'
  <1>1. /\ calls[c].pc = "working" /\ calls[c].kind = "deletion"
        /\ reserved' = Released
        /\ UNCHANGED <<status, run, businessWrite, captured, aborted, outcome>>
        /\ calls \in [Calls -> Call] /\ reserved \in Nat
    BY DEF DeletionEnds, Inv, TypeOK
  <1>2. PICK told \in {"proposed", "nothing", "error"} :
          /\ calls' = Tells(c, told)
          /\ \/ /\ told = "proposed" /\ slots' = [slots EXCEPT ![c] = "proposal"]
                /\ pendingCreated' = TRUE /\ durable' = durable \cup {c}
             \/ /\ told # "proposed" /\ durable' \in Leaves(c, told)
                /\ UNCHANGED <<slots, pendingCreated>>
    BY DEF DeletionEnds
  <1>3. told \in Tellings
    BY DEF Tellings
  <1>4. /\ calls' \in [Calls -> Call]
        /\ calls'[c].pc = "ended" /\ calls'[c].told = told
        /\ calls'[c].run = calls[c].run /\ calls'[c].kind = "none"
        /\ \A d \in Calls \ {c} : calls'[d] = calls[d]
    BY <1>1, <1>2, <1>3, TellsType
  <1>5. durable' \subseteq Calls /\ (durable' = durable \/ durable' = durable \cup {c})
    BY <1>2, LeavesType DEF Inv, TypeOK
  <1>6. Moves(c)
    BY <1>1, <1>4, <1>5 DEF Moves, InFlight
  <1>7. c \notin durable
    BY <1>1 DEF Inv, Account, WrittenIsCounted
  <1>8. Deleting' = Deleting \ {c} /\ c \in Deleting /\ Deleting \in SUBSET Calls
    BY <1>1, <1>4 DEF Deleting
  <1>9. reserved' = reserved - 1 /\ reserved' = Cardinality(Deleting') /\ reserved' \in Nat
    <2>1. /\ Cardinality(Deleting') = Cardinality(Deleting) - 1
          /\ Cardinality(Deleting') \in Nat
      BY <1>8, SetsOfCalls
    <2> QED BY <1>1, <2>1 DEF Inv, Account, Counted, Released
  <1>10. Held' \in SUBSET Calls /\ Held \in SUBSET Calls
    BY DEF Held
  <1>11. \/ /\ told = "proposed" /\ Held' = Held \cup {c} /\ slots'[c] = "proposal"
         \/ told # "proposed" /\ Held' = Held
    BY <1>2, SlotType DEF Held, Inv, TypeOK, Slots
  <1>12. slots' \in [Calls -> Slots] /\ \A d \in Calls \ {c} : slots'[d] = slots[d]
    BY <1>2, SlotType DEF Inv, TypeOK, Slots
  <1>13. RoomForAnswers'
    <2>1. /\ Cardinality(Held') <= Cardinality(Held) + 1
          /\ Cardinality(Held) \in Nat /\ Cardinality(Held') \in Nat
      <3>1. Cardinality(Held) \in Nat /\ Cardinality(Held') \in Nat
        BY <1>10, SetsOfCalls
      <3>2. CASE Held' = Held
        BY <3>1, <3>2
      <3>3. CASE Held' = Held \cup {c}
        BY <1>10, <3>3, SetsOfCalls
      <3> QED BY <1>11, <3>1, <3>2, <3>3
    <2> QED BY <1>1, <1>9, <2>1, LimitAssumption DEF RoomForAnswers, Inv, Account
  <1>14. PendingIsCounted'
    BY <1>2, <1>11 DEF Inv, Account, PendingIsCounted, Held
  <1>15. WrittenIsCounted' /\ ProposalsHoldSlots'
    <2>1. c \in durable' => Unaccounted(c)' \/ Saved(c)'
      BY <1>2, <1>4, <1>7, <1>11 DEF Unaccounted, Saved, Leaves
    <2> QED BY <1>1, <1>4, <1>6, <1>12, <2>1, MovesKeepWritten
  <1>16. TypeOK'
    BY <1>1, <1>2, <1>4, <1>5, <1>9, <1>12 DEF Inv, TypeOK, outcome
  <1> QED BY <1>6, <1>9, <1>13, <1>14, <1>15, <1>16, MovesKeepRuns DEF Inv, Account, Counted

LEMMA CallStepInv ==
    ASSUME Inv, NEW c \in Calls, CallStep(c)
    PROVE  Inv'
  <1>1. ASSUME NothingToPropose(c) PROVE Inv'
    <2>1. PICK told \in {"nothing", "error"} : calls' = Tells(c, told)
      BY <1>1 DEF NothingToPropose
    <2>2. /\ told \in Tellings /\ calls[c].pc = "working" /\ c \notin Deleting /\ c \in InFlight
          /\ UNCHANGED <<status, run, aborted, account, outcome>>
      BY <1>1 DEF NothingToPropose, Tellings, Tasks, Deleting, InFlight
    <2> QED BY <2>1, <2>2, EndsQuietly
  <1>2. ASSUME NoSlot(c) PROVE Inv'
    <2>1. /\ calls[c].pc = "working" /\ c \notin Deleting /\ c \in InFlight /\ Refused(c)
      BY <1>2 DEF NoSlot, Tasks, Deleting, InFlight
    <2> QED BY <2>1, RefusedInv
  <1>3. ASSUME NoDeletion(c) PROVE Inv'
    <2>1. /\ calls[c].pc = "idle" /\ c \notin Deleting /\ status = "running" /\ Refused(c)
      BY <1>3 DEF NoDeletion, Deleting
    <2> QED BY <2>1, RefusedInv
  <1> QED BY <1>1, <1>2, <1>3, StartCallInv, WriteEndsInv, TakeSlotInv, ProposalSavedInv,
             SaveFailsInv, AppliedInv, ApplyFailsInv, StartDeletionInv, DeletionEndsInv
          DEF CallStep

-----------------------------------------------------------------------------
(* Steps of the turn                                                       *)

\* The calls and their account as they were.
LEMMA TurnKeepsAccount ==
    ASSUME Inv, UNCHANGED <<calls, slots, reserved, durable>>,
           businessWrite # "none" => businessWrite' # "none",
           pendingCreated => pendingCreated', pendingCreated' => pendingCreated \/ Held # {}
    PROVE  /\ Counted' /\ RoomForAnswers' /\ PendingIsCounted'
           /\ WrittenIsCounted' /\ ProposalsHoldSlots'
  <1>1. Deleting' = Deleting /\ Held' = Held
    BY DEF Deleting, Held
  <1>2. Counted' /\ RoomForAnswers' /\ PendingIsCounted'
    BY <1>1 DEF Inv, Account, Counted, RoomForAnswers, PendingIsCounted
  <1>3. WrittenIsCounted' /\ ProposalsHoldSlots'
    BY DEF Inv, Account, WrittenIsCounted, ProposalsHoldSlots, Unaccounted, Saved
  <1> QED BY <1>2, <1>3

\* The calls and the runs as they were, and no second run in sight.
LEMMA TurnKeepsRuns ==
    ASSUME Inv, UNCHANGED <<calls, run, durable>>, status' # "reducing"
    PROVE  RunsApart' /\ RetryFindsNothing'
  BY DEF Inv, Account, RunsApart, RetryFindsNothing, Unaccounted

\* What one run ends with.
LEMMA SettlesInv ==
    ASSUME Inv, NEW error \in Errors, NEW answer \in Responses, Settles(error, answer),
           UNCHANGED <<run, calls, aborted, account>>
    PROVE  Inv'
  <1>1. /\ status' = "settling" /\ agentError' = error /\ response' = answer
        /\ UNCHANGED <<promised, shielded, thrown, shown>>
        /\ UNCHANGED <<run, calls, aborted, slots, reserved, businessWrite, pendingCreated,
                       captured, durable>>
    BY DEF Settles, account
  <1>2. TypeOK'
    BY <1>1 DEF Inv, TypeOK, Statuses
  <1>3. /\ Counted' /\ RoomForAnswers' /\ PendingIsCounted'
        /\ WrittenIsCounted' /\ ProposalsHoldSlots'
    BY <1>1, TurnKeepsAccount
  <1>4. RunsApart' /\ RetryFindsNothing'
    BY <1>1, TurnKeepsRuns
  <1> QED BY <1>2, <1>3, <1>4 DEF Inv, Account

LEMMA ThrowsInv ==
    ASSUME Inv, NEW error \in Errors, Throws(error),
           UNCHANGED <<run, calls, aborted, account, agentError, response, promised, shielded>>
    PROVE  Inv'
  <1>1. /\ status' = "ended" /\ thrown' = error
        /\ UNCHANGED <<run, calls, aborted, slots, reserved, businessWrite, pendingCreated,
                       captured, durable, agentError, response, promised, shielded, shown>>
    BY DEF Throws, account
  <1>2. TypeOK'
    BY <1>1 DEF Inv, TypeOK, Statuses
  <1>3. /\ Counted' /\ RoomForAnswers' /\ PendingIsCounted'
        /\ WrittenIsCounted' /\ ProposalsHoldSlots'
    BY <1>1, TurnKeepsAccount
  <1>4. RunsApart' /\ RetryFindsNothing'
    BY <1>1, TurnKeepsRuns
  <1> QED BY <1>2, <1>3, <1>4 DEF Inv, Account

\* A step that only moves the turn on.
LEMMA MovesOnInv ==
    ASSUME Inv, status' \in Statuses \ {"reducing"}, shown' \subseteq Calls,
           UNCHANGED <<run, calls, account, agentError, response, promised, shielded, thrown>>,
           aborted' \in BOOLEAN
    PROVE  Inv'
  <1>1. UNCHANGED <<slots, reserved, businessWrite, pendingCreated, captured, durable>>
    BY DEF account
  <1>2. TypeOK'
    BY <1>1 DEF Inv, TypeOK
  <1>3. /\ Counted' /\ RoomForAnswers' /\ PendingIsCounted'
        /\ WrittenIsCounted' /\ ProposalsHoldSlots'
    BY <1>1, TurnKeepsAccount
  <1>4. RunsApart' /\ RetryFindsNothing'
    BY <1>1, TurnKeepsRuns
  <1> QED BY <1>2, <1>3, <1>4 DEF Inv, Account

LEMMA AbortInv ==
    ASSUME Inv, Abort
    PROVE  Inv'
  <1>1. /\ aborted' = TRUE /\ UNCHANGED <<status, run, calls, account, outcome>>
    BY DEF Abort
  <1>2. CASE status # "reducing"
    BY <1>1, <1>2, MovesOnInv DEF outcome, Inv, TypeOK
  <1>3. CASE status = "reducing"
    <2>1. UNCHANGED <<slots, reserved, businessWrite, pendingCreated, captured, durable>>
      BY <1>1 DEF account
    <2>2. TypeOK'
      BY <1>1, <2>1 DEF Inv, TypeOK, outcome
    <2>3. /\ Counted' /\ RoomForAnswers' /\ PendingIsCounted'
          /\ WrittenIsCounted' /\ ProposalsHoldSlots'
      BY <1>1, <2>1, TurnKeepsAccount
    <2>4. RunsApart' /\ RetryFindsNothing'
      BY <1>1, <2>1 DEF Inv, Account, RunsApart, RetryFindsNothing, Unaccounted, InFlight
    <2> QED BY <2>2, <2>3, <2>4 DEF Inv, Account
  <1> QED BY <1>2, <1>3

LEMMA AdmitInv ==
    ASSUME Inv, Admit
    PROVE  Inv'
  <1>1. /\ status' = "running" /\ UNCHANGED <<run, calls, aborted, account, outcome>>
    BY DEF Admit
  <1> QED BY <1>1, MovesOnInv DEF outcome, Statuses, Inv, TypeOK

LEMMA DenyInv ==
    ASSUME Inv, Deny
    PROVE  Inv'
  <1>1. UNCHANGED <<run, calls, aborted, account, agentError, response, promised, shielded>>
    BY DEF Deny
  <1>2. "other" \in Errors /\ "abort" \in Errors
    BY DEF Errors
  <1>3. CASE Throws("other") \/ Throws("abort")
    BY <1>1, <1>2, <1>3, ThrowsInv
  <1>4. CASE status' = "ended" /\ UNCHANGED <<thrown, shown>>
    BY <1>1, <1>4, MovesOnInv DEF Statuses, Inv, TypeOK
  <1> QED BY <1>3, <1>4 DEF Deny

LEMMA RunEndsInv ==
    ASSUME Inv, RunAnswers \/ RunFails
    PROVE  Inv'
  <1>1. UNCHANGED <<run, calls, aborted, account>>
    BY DEF RunAnswers, RunFails
  <1>2. \A error \in {"none", "other", "abort"} : error \in Errors
    BY DEF Errors
  <1>3. \A answer \in {"agent", "none"} : answer \in Responses
    BY DEF Responses
  <1>4. ErrorsOfCalls \subseteq Errors
    BY DEF ErrorsOfCalls, Errors
  <1>5. \E error \in Errors, answer \in Responses : Settles(error, answer)
    BY <1>2, <1>3, <1>4 DEF RunAnswers, RunFails
  <1> QED BY <1>1, <1>5, SettlesInv

LEMMA RunOverflowsInv ==
    ASSUME Inv, RunOverflows
    PROVE  Inv'
  <1>1. InFlight = {} /\ UNCHANGED <<run, calls, aborted, account>>
    BY DEF RunOverflows
  <1>2. /\ \A error \in {"none", "unknown", "overflow", "overflow_written"} : error \in Errors
        /\ \A answer \in {"none", "unknown", "overflow"} : answer \in Responses
    BY DEF Errors, Responses
  <1>3. CASE Effect # "none"
    <2>1. \E error \in Errors, answer \in Responses : Settles(error, answer)
      BY <1>2, <1>3 DEF RunOverflows, OverflowAfterEffects
    <2> QED BY <1>1, <2>1, SettlesInv
  <1>4. CASE Effect = "none" /\ run = 1
    <2>1. status' = "reducing" /\ UNCHANGED outcome
      BY <1>4 DEF RunOverflows, MayRetry
    <2>2. businessWrite = "none" /\ ~pendingCreated
      BY <1>4 DEF Effect
    <2>3. UNCHANGED <<slots, reserved, businessWrite, pendingCreated, captured, durable>>
      BY <1>1 DEF account
    <2>4. TypeOK'
      BY <1>1, <2>1, <2>3 DEF Inv, TypeOK, outcome, Statuses
    <2>5. /\ Counted' /\ RoomForAnswers' /\ PendingIsCounted'
          /\ WrittenIsCounted' /\ ProposalsHoldSlots'
      BY <1>1, <2>3, TurnKeepsAccount
    <2>6. RunsApart' /\ RetryFindsNothing'
      BY <1>1, <1>4, <2>2, <2>3 DEF Inv, Account, RunsApart, RetryFindsNothing, InFlight
    <2> QED BY <2>4, <2>5, <2>6 DEF Inv, Account
  <1>5. CASE Effect = "none" /\ run # 1
    <2>1. Settles("overflow", "none")
      BY <1>5 DEF RunOverflows, MayRetry
    <2> QED BY <1>1, <1>2, <2>1, SettlesInv
  <1> QED BY <1>3, <1>4, <1>5

\* The effect of the turn is none, so nothing durable is unknown to it.
LEMMA RunAgainInv ==
    ASSUME Inv, RunAgain
    PROVE  Inv'
  <1>1. /\ status = "reducing" /\ UNCHANGED <<calls, aborted, account>>
        /\ UNCHANGED <<slots, reserved, businessWrite, pendingCreated, captured, durable>>
    BY DEF RunAgain, account
  <1>2. run = 1 /\ InFlight = {} /\ businessWrite = "none" /\ ~pendingCreated
    BY <1>1 DEF Inv, Account, RunsApart
  <1>3. CASE ~aborted /\ status' = "running" /\ run' = run + 1 /\ UNCHANGED outcome
    <2>1. run' = 2
      BY <1>2, <1>3
    <2>2. TypeOK'
      BY <1>1, <1>3, <2>1 DEF Inv, TypeOK, outcome, Statuses
    <2>3. /\ Counted' /\ RoomForAnswers' /\ PendingIsCounted'
          /\ WrittenIsCounted' /\ ProposalsHoldSlots'
      BY <1>1, TurnKeepsAccount
    <2>4. \A c \in Calls : calls[c].pc \in {"idle", "ended"}
      BY <1>2 DEF InFlight, Inv, TypeOK, Call
    <2>5. \A c \in durable : Unaccounted(c)
      BY <1>2 DEF Inv, Account, TypeOK, WrittenIsCounted, PendingIsCounted, Saved, Held
    <2>6. RunsApart'
      BY <1>1, <1>3, <2>4 DEF Inv, Account, RunsApart
    <2>7. RetryFindsNothing'
      BY <1>1, <2>5 DEF RetryFindsNothing, Unaccounted
    <2> QED BY <2>2, <2>3, <2>6, <2>7 DEF Inv, Account
  <1>4. CASE Settles("abort", "none") /\ UNCHANGED run
    <2>1. "abort" \in Errors /\ "none" \in Responses
      BY DEF Errors, Responses
    <2> QED BY <1>1, <1>4, <2>1, SettlesInv
  <1>5. CASE Throws("other") /\ UNCHANGED <<run, agentError, response, promised, shielded>>
    <2>1. "other" \in Errors
      BY DEF Errors
    <2> QED BY <1>1, <1>5, <2>1, ThrowsInv
  <1> QED BY <1>3, <1>4, <1>5 DEF RunAgain

LEMMA SettleInv ==
    ASSUME Inv, Settle
    PROVE  Inv'
  <1>1. /\ promised' = Held /\ shielded' = Shielded
        /\ businessWrite' = WriteLeft /\ pendingCreated' = PendingLeft
        /\ agentError' = FinalError
        /\ UNCHANGED <<run, calls, slots, reserved, captured, durable, aborted>>
    BY DEF Settle
  <1>2. Attempted \subseteq Held /\ Held \subseteq Calls
    BY DEF Attempted, Held
  <1>3. /\ businessWrite' \in {"none", "committed", "outcome_unknown"}
        /\ businessWrite # "none" => businessWrite' # "none"
    BY <1>1 DEF WriteLeft, Inv, TypeOK
  <1>4. /\ pendingCreated' \in BOOLEAN
        /\ pendingCreated => pendingCreated'
        /\ pendingCreated' => pendingCreated \/ Held # {}
    BY <1>1, <1>2 DEF PendingLeft, Inv, TypeOK
  <1>5. FinalError \in Errors
    BY DEF FinalError, ErrorLeft, Errors, Inv, TypeOK
  <1>6. FinalResponse \in Responses /\ "missing" \in Responses /\ "abort" \in Errors
    BY DEF FinalResponse, ResponseLeft, Responses, Errors, Inv, TypeOK
  <1>7. /\ status' \in {"ended", "persisting"} /\ response' \in Responses
        /\ thrown' \in Errors /\ shown' = shown
    BY <1>5, <1>6 DEF Settle, Throws, Inv, TypeOK
  <1>8. shielded' \in BOOLEAN
    BY <1>1 DEF Shielded
  <1>9. TypeOK'
    BY <1>1, <1>2, <1>3, <1>4, <1>5, <1>7, <1>8 DEF Inv, TypeOK, Statuses
  <1>10. /\ Counted' /\ RoomForAnswers' /\ PendingIsCounted'
         /\ WrittenIsCounted' /\ ProposalsHoldSlots'
    BY <1>1, <1>3, <1>4, TurnKeepsAccount
  <1>11. RunsApart' /\ RetryFindsNothing'
    BY <1>1, <1>7, TurnKeepsRuns
  <1> QED BY <1>9, <1>10, <1>11 DEF Inv, Account

LEMMA HistoryInv ==
    ASSUME Inv, TurnAppended \/ AppendFails \/ Answer
    PROVE  Inv'
  <1>1. CASE TurnAppended
    BY <1>1, MovesOnInv DEF TurnAppended, outcome, Statuses, Inv, TypeOK
  <1>2. CASE AppendFails
    <2>1. UNCHANGED <<run, calls, aborted, account, agentError, response, promised, shielded>>
      BY <1>2 DEF AppendFails
    <2>2. CASE status' = "answering" /\ UNCHANGED <<thrown, shown>>
      BY <2>1, <2>2, MovesOnInv DEF Statuses, Inv, TypeOK
    <2>3. CASE Throws("other")
      <3>1. "other" \in Errors
        BY DEF Errors
      <3> QED BY <2>1, <2>3, <3>1, ThrowsInv
    <2> QED BY <1>2, <2>2, <2>3 DEF AppendFails
  <1>3. CASE Answer
    <2>1. Held \subseteq Calls
      BY DEF Held
    <2> QED BY <1>3, <2>1, MovesOnInv DEF Answer, Statuses, Inv, TypeOK
  <1> QED BY <1>1, <1>2, <1>3

LEMMA StutterInv == ASSUME Inv, UNCHANGED vars PROVE Inv'
  <1>1. /\ status' = status /\ run' = run /\ calls' = calls /\ slots' = slots
        /\ reserved' = reserved /\ businessWrite' = businessWrite
        /\ pendingCreated' = pendingCreated /\ captured' = captured /\ aborted' = aborted
        /\ agentError' = agentError /\ response' = response /\ promised' = promised
        /\ shielded' = shielded /\ durable' = durable /\ thrown' = thrown /\ shown' = shown
    BY DEF vars
  <1>2. TypeOK'
    BY <1>1 DEF Inv, TypeOK
  <1>3. /\ Counted' /\ RoomForAnswers' /\ PendingIsCounted'
        /\ WrittenIsCounted' /\ ProposalsHoldSlots'
    BY <1>1, TurnKeepsAccount
  <1>4. RunsApart' /\ RetryFindsNothing'
    BY <1>1 DEF Inv, Account, RunsApart, RetryFindsNothing, Unaccounted, InFlight
  <1> QED BY <1>2, <1>3, <1>4 DEF Inv, Account

LEMMA StepInv == Inv /\ [Next]_vars => Inv'
  <1> SUFFICES ASSUME Inv, [Next]_vars PROVE Inv'
    OBVIOUS
  <1>1. CASE \E c \in Calls : CallStep(c)
    BY <1>1, CallStepInv
  <1>2. CASE TurnStep
    BY <1>2, AdmitInv, DenyInv, RunEndsInv, RunOverflowsInv, RunAgainInv, SettleInv, HistoryInv
       DEF TurnStep
  <1>3. CASE Abort
    BY <1>3, AbortInv
  <1>4. CASE UNCHANGED vars
    BY <1>4, StutterInv
  <1> QED BY <1>1, <1>2, <1>3, <1>4 DEF Next

-----------------------------------------------------------------------------
(* What the employee is told of the calls                                  *)

\* What a call told the turn is still true of its slot and of the effect of the turn.
TellsTruly(c) ==
    /\ calls[c].pc \in {"idle", "working"} => slots[c] = "none"
    /\ calls[c].pc = "saving" => slots[c] = "attempted"
    /\ calls[c].pc = "applying" => slots[c] = "persisted"
    /\ calls[c].pc # "ended" => calls[c].told = "unsaid"
    /\ calls[c].told \in {"proposed", "uncertain"} => slots[c] # "none"
    /\ calls[c].told \in {"changed", "unknown"} => businessWrite # "none"

\* Nothing is promised before the outcome is settled, an overflow is left to be told only
\* over a run that did nothing, and only ended proposals, of ideas and documents, may lose
\* their card to the history.
OutcomeIsSettled ==
    /\ status = "received" => \A c \in Calls : calls[c].pc = "idle"
    /\ status \in {"received", "running", "reducing", "settling"} => promised = {}
    /\ status = "settling" /\ agentError = "overflow" => InFlight = {} /\ businessWrite = "none"
    /\ status = "persisting" /\ ~shielded =>
          \A c \in promised : calls[c].pc = "ended" /\ slots[c] = "proposal"

Telling == Inv /\ (\A c \in Calls : TellsTruly(c)) /\ OutcomeIsSettled

LEMMA InitTelling == Init => Telling
  <1> SUFFICES ASSUME Init PROVE Telling
    OBVIOUS
  <1>1. \A c \in Calls : calls[c] = NoCall /\ slots[c] = "none"
    BY DEF Init
  <1>2. \A c \in Calls : calls[c].pc = "idle" /\ calls[c].told = "unsaid"
    BY <1>1 DEF NoCall
  <1>3. \A c \in Calls : TellsTruly(c)
    BY <1>1, <1>2 DEF TellsTruly
  <1>4. OutcomeIsSettled
    BY <1>2 DEF Init, OutcomeIsSettled
  <1> QED BY <1>3, <1>4, InitInv DEF Telling

\* What every step of call c does to the calls and to what they told.
TellsInTime(c) ==
    /\ UNCHANGED <<status, outcome>>
    /\ calls[c].pc # "ended" /\ (status = "running" \/ c \in InFlight)
    /\ \A d \in Calls \ {c} : calls'[d] = calls[d] /\ slots'[d] = slots[d]
    /\ businessWrite # "none" => businessWrite' # "none"
    /\ TellsTruly(c)'

\* A call that ends with a word on nothing of its slot, or of the effect of the turn.
LEMMA EndsWithAWord ==
    ASSUME Inv, NEW c \in Calls, NEW told \in Tellings, calls' = Tells(c, told)
    PROVE  /\ calls'[c].pc = "ended" /\ calls'[c].told = told
           /\ \A d \in Calls \ {c} : calls'[d] = calls[d]
  BY TellsType DEF Inv, TypeOK

LEMMA RefusedTells ==
    ASSUME Inv, NEW c \in Calls, calls[c].pc \in {"idle", "working"},
           status = "running" \/ c \in InFlight, Refused(c)
    PROVE  TellsInTime(c)
  <1>1. PICK told \in {"error", "limit"} : calls' = Tells(c, told)
    BY DEF Refused
  <1>2. told \in Tellings
    BY DEF Tellings
  <1>3. UNCHANGED <<status, slots, businessWrite, outcome>>
    BY DEF Refused, account
  <1>4. /\ calls'[c].pc = "ended" /\ calls'[c].told = told
        /\ \A d \in Calls \ {c} : calls'[d] = calls[d]
    BY <1>1, <1>2, EndsWithAWord
  <1>5. TellsTruly(c)'
    BY <1>1, <1>4 DEF TellsTruly
  <1> QED BY <1>3, <1>4, <1>5 DEF TellsInTime

LEMMA StartsTells ==
    ASSUME Inv, NEW c \in Calls, TellsTruly(c), NEW kind \in Kinds, Starts(c, kind),
           UNCHANGED <<status, slots, businessWrite, outcome>>
    PROVE  TellsInTime(c)
  <1>1. /\ calls'[c].pc = "working" /\ calls'[c].told = "unsaid"
        /\ \A d \in Calls \ {c} : calls'[d] = calls[d]
    BY StartsType DEF Inv
  <1>2. status = "running" /\ calls[c].pc = "idle"
    BY DEF Starts
  <1>3. TellsTruly(c)'
    BY <1>1, <1>2 DEF TellsTruly
  <1> QED BY <1>1, <1>2, <1>3 DEF TellsInTime

LEMMA WriteEndsTells ==
    ASSUME Inv, NEW c \in Calls, TellsTruly(c), WriteEnds(c)
    PROVE  TellsInTime(c)
  <1>1. calls[c].pc = "working" /\ calls[c].kind \in Writes
    BY DEF WriteEnds
  <1>2. PICK told \in Told[calls[c].kind] :
          /\ calls' = Tells(c, told)
          /\ businessWrite' = WriteAfter(calls[c].kind, told)
    BY DEF WriteEnds
  <1>3. told \in Tellings /\ told \notin {"proposed", "uncertain"}
    BY <1>1, ToldType
  <1>4. /\ calls'[c].pc = "ended" /\ calls'[c].told = told
        /\ \A d \in Calls \ {c} : calls'[d] = calls[d]
    BY <1>2, <1>3, EndsWithAWord
  <1>5. /\ told \in {"changed", "unknown"} => businessWrite' # "none"
        /\ businessWrite # "none" => businessWrite' # "none"
    BY <1>2, WriteAfterType DEF Inv
  <1>6. UNCHANGED <<status, slots, outcome>>
    BY DEF WriteEnds
  <1>7. TellsTruly(c)'
    BY <1>3, <1>4, <1>5 DEF TellsTruly
  <1> QED BY <1>1, <1>4, <1>5, <1>6, <1>7 DEF TellsInTime, InFlight

LEMMA TaskTells ==
    ASSUME Inv, NEW c \in Calls, TellsTruly(c),
           \/ TakeSlot(c) \/ ProposalSaved(c) \/ SaveFails(c) \/ Applied(c) \/ ApplyFails(c)
    PROVE  TellsInTime(c)
  <1>1. CASE TakeSlot(c)
    <2>1. /\ calls[c].pc = "working" /\ calls' = [calls EXCEPT ![c].pc = "saving"]
          /\ slots' = [slots EXCEPT ![c] = "attempted"]
          /\ UNCHANGED <<status, businessWrite, outcome>>
      BY <1>1 DEF TakeSlot
    <2>2. /\ calls'[c].pc = "saving" /\ calls'[c].told = calls[c].told
          /\ \A d \in Calls \ {c} : calls'[d] = calls[d]
      BY <2>1, MovesType DEF Inv
    <2>3. slots'[c] = "attempted" /\ \A d \in Calls \ {c} : slots'[d] = slots[d]
      BY <2>1, SlotType DEF Inv, Slots
    <2>4. TellsTruly(c)'
      BY <2>1, <2>2, <2>3 DEF TellsTruly
    <2> QED BY <2>1, <2>2, <2>3, <2>4 DEF TellsInTime, InFlight
  <1>2. CASE ProposalSaved(c)
    <2>1. /\ calls[c].pc = "saving" /\ slots' = [slots EXCEPT ![c] = "persisted"]
          /\ UNCHANGED <<status, businessWrite, outcome>>
      BY <1>2 DEF ProposalSaved
    <2>2. slots'[c] = "persisted" /\ \A d \in Calls \ {c} : slots'[d] = slots[d]
      BY <2>1, SlotType DEF Inv, Slots
    <2>3. /\ \/ calls'[c].pc = "ended" /\ calls'[c].told = "proposed"
             \/ calls'[c].pc = "applying" /\ calls'[c].told = calls[c].told
          /\ \A d \in Calls \ {c} : calls'[d] = calls[d]
      <3>1. CASE calls[c].kind = "cancel"
        <4>1. calls' = Tells(c, "proposed") /\ "proposed" \in Tellings
          BY <1>2, <3>1 DEF ProposalSaved, Tellings
        <4> QED BY <4>1, EndsWithAWord
      <3>2. CASE calls[c].kind # "cancel"
        <4>1. calls' = [calls EXCEPT ![c].pc = "applying"]
          BY <1>2, <3>2 DEF ProposalSaved
        <4> QED BY <4>1, MovesType DEF Inv
      <3> QED BY <3>1, <3>2
    <2>4. TellsTruly(c)'
      BY <2>1, <2>2, <2>3 DEF TellsTruly
    <2> QED BY <2>1, <2>2, <2>3, <2>4 DEF TellsInTime, InFlight
  <1>3. CASE SaveFails(c) \/ ApplyFails(c)
    <2>1. PICK told \in {"uncertain", "proposed"} : calls' = Tells(c, told)
      BY <1>3 DEF SaveFails, ApplyFails
    <2>2. /\ told \in Tellings /\ calls[c].pc \in {"saving", "applying"}
          /\ UNCHANGED <<status, slots, businessWrite, outcome>>
      BY <1>3, <2>1 DEF SaveFails, ApplyFails, Tellings, account
    <2>3. /\ calls'[c].pc = "ended" /\ calls'[c].told = told
          /\ \A d \in Calls \ {c} : calls'[d] = calls[d]
      BY <2>1, <2>2, EndsWithAWord
    <2>4. TellsTruly(c)'
      BY <2>2, <2>3 DEF TellsTruly
    <2> QED BY <2>2, <2>3, <2>4 DEF TellsInTime, InFlight
  <1>4. CASE Applied(c)
    <2>1. PICK told \in {"changed", "nothing"} :
            calls' = Tells(c, told) /\ businessWrite' = WriteAfter("change", told)
      BY <1>4 DEF Applied
    <2>2. /\ told \in Tellings /\ calls[c].pc = "applying"
          /\ slots' = [slots EXCEPT ![c] = "none"] /\ UNCHANGED <<status, outcome>>
      BY <1>4, <2>1 DEF Applied, Tellings
    <2>3. /\ calls'[c].pc = "ended" /\ calls'[c].told = told
          /\ \A d \in Calls \ {c} : calls'[d] = calls[d]
      BY <2>1, <2>2, EndsWithAWord
    <2>4. slots'[c] = "none" /\ \A d \in Calls \ {c} : slots'[d] = slots[d]
      BY <2>2, SlotType DEF Inv, Slots
    <2>5. /\ told = "changed" => businessWrite' # "none"
          /\ businessWrite # "none" => businessWrite' # "none"
      BY <2>1, WriteAfterType DEF Inv
    <2>6. TellsTruly(c)'
      BY <2>1, <2>3, <2>4, <2>5 DEF TellsTruly
    <2> QED BY <2>2, <2>3, <2>4, <2>5, <2>6 DEF TellsInTime, InFlight
  <1> QED BY <1>1, <1>2, <1>3, <1>4

LEMMA DeletionTells ==
    ASSUME Inv, NEW c \in Calls, TellsTruly(c), DeletionEnds(c)
    PROVE  TellsInTime(c)
  <1>1. /\ calls[c].pc = "working" /\ UNCHANGED <<status, businessWrite, outcome>>
    BY DEF DeletionEnds
  <1>2. PICK told \in {"proposed", "nothing", "error"} :
          /\ calls' = Tells(c, told)
          /\ \/ told = "proposed" /\ slots' = [slots EXCEPT ![c] = "proposal"]
             \/ told # "proposed" /\ UNCHANGED slots
    BY DEF DeletionEnds
  <1>3. told \in Tellings
    BY DEF Tellings
  <1>4. /\ calls'[c].pc = "ended" /\ calls'[c].told = told
        /\ \A d \in Calls \ {c} : calls'[d] = calls[d]
    BY <1>2, <1>3, EndsWithAWord
  <1>5. /\ told = "proposed" => slots'[c] = "proposal"
        /\ \A d \in Calls \ {c} : slots'[d] = slots[d]
    BY <1>2, SlotType DEF Inv, Slots
  <1>6. TellsTruly(c)'
    BY <1>2, <1>4, <1>5 DEF TellsTruly
  <1> QED BY <1>1, <1>4, <1>5, <1>6 DEF TellsInTime, InFlight

LEMMA CallStepTells ==
    ASSUME Inv, NEW c \in Calls, TellsTruly(c), CallStep(c)
    PROVE  TellsInTime(c)
  <1>1. ASSUME NothingToPropose(c) PROVE TellsInTime(c)
    <2>1. PICK told \in {"nothing", "error"} : calls' = Tells(c, told)
      BY <1>1 DEF NothingToPropose
    <2>2. /\ told \in Tellings /\ calls[c].pc = "working"
          /\ UNCHANGED <<status, slots, businessWrite, outcome>>
      BY <1>1 DEF NothingToPropose, Tellings, account
    <2>3. /\ calls'[c].pc = "ended" /\ calls'[c].told = told
          /\ \A d \in Calls \ {c} : calls'[d] = calls[d]
      BY <2>1, <2>2, EndsWithAWord
    <2>4. TellsTruly(c)'
      BY <2>1, <2>3 DEF TellsTruly
    <2> QED BY <2>2, <2>3, <2>4 DEF TellsInTime, InFlight
  <1>2. ASSUME NoSlot(c) \/ NoDeletion(c) PROVE TellsInTime(c)
    <2>1. /\ calls[c].pc \in {"idle", "working"} /\ Refused(c)
          /\ status = "running" \/ c \in InFlight
      BY <1>2 DEF NoSlot, NoDeletion, InFlight
    <2> QED BY <2>1, RefusedTells
  <1>3. ASSUME StartCall(c) PROVE TellsInTime(c)
    <2>1. /\ \E kind \in Kinds : Starts(c, kind)
          /\ UNCHANGED <<status, slots, businessWrite, outcome>>
      BY <1>3 DEF StartCall, Kinds, account
    <2> QED BY <2>1, StartsTells
  <1>4. ASSUME StartDeletion(c) PROVE TellsInTime(c)
    <2>1. /\ Starts(c, "deletion") /\ "deletion" \in Kinds
          /\ UNCHANGED <<status, slots, businessWrite, outcome>>
      BY <1>4 DEF StartDeletion, Kinds
    <2> QED BY <2>1, StartsTells
  <1> QED BY <1>1, <1>2, <1>3, <1>4, WriteEndsTells, TaskTells, DeletionTells DEF CallStep

\* No call steps over a turn not yet admitted, nor over a run that did nothing and is over;
\* a proposal that has ended stays as it is.
LEMMA CallStepTelling ==
    ASSUME Telling, NEW c \in Calls, CallStep(c)
    PROVE  (\A d \in Calls : TellsTruly(d)') /\ OutcomeIsSettled'
  <1>1. TellsInTime(c)
    BY CallStepTells DEF Telling
  <1>2. ASSUME NEW d \in Calls PROVE TellsTruly(d)'
    <2>1. CASE d = c
      BY <1>1, <2>1 DEF TellsInTime
    <2>2. CASE d # c
      BY <1>1, <2>2 DEF TellsInTime, Telling, TellsTruly
    <2> QED BY <2>1, <2>2
  <1>3. UNCHANGED <<status, promised, agentError, shielded>>
    BY <1>1 DEF TellsInTime, outcome
  <1>4. status # "received"
    BY <1>1 DEF TellsInTime, InFlight, Telling, OutcomeIsSettled
  <1>5. ~(status = "settling" /\ agentError = "overflow")
    BY <1>1 DEF TellsInTime, Telling, OutcomeIsSettled
  <1>6. ASSUME status = "persisting", ~shielded, NEW d \in promised
        PROVE  calls'[d].pc = "ended" /\ slots'[d] = "proposal"
    <2>1. calls[d].pc = "ended" /\ slots[d] = "proposal" /\ d \in Calls
      BY <1>6 DEF Telling, OutcomeIsSettled, Inv, TypeOK
    <2>2. d # c
      BY <1>1, <2>1 DEF TellsInTime
    <2> QED BY <1>1, <2>1, <2>2 DEF TellsInTime
  <1>7. OutcomeIsSettled'
    BY <1>3, <1>4, <1>5, <1>6 DEF Telling, OutcomeIsSettled
  <1> QED BY <1>2, <1>7

\* The turn leaves what the calls told as it is.
LEMMA TurnKeepsTelling ==
    ASSUME \A c \in Calls : TellsTruly(c), UNCHANGED <<calls, slots>>,
           businessWrite # "none" => businessWrite' # "none"
    PROVE  \A c \in Calls : TellsTruly(c)'
  BY DEF TellsTruly

\* A run that settles on an overflow did nothing.
LEMMA RunsSettle ==
    ASSUME Telling, RunAnswers \/ RunFails \/ RunOverflows \/ RunAgain
    PROVE  OutcomeIsSettled'
  <1>1. /\ UNCHANGED <<calls, businessWrite, promised>> /\ status \in {"running", "reducing"}
        /\ promised = {}
    BY DEF RunAnswers, RunFails, RunOverflows, RunAgain, Settles, Throws, OverflowAfterEffects,
           account, outcome, Telling, OutcomeIsSettled
  <1>2. status' \in {"settling", "reducing", "running", "ended"}
    BY DEF RunAnswers, RunFails, RunOverflows, RunAgain, Settles, Throws, OverflowAfterEffects
  <1>3. ASSUME status' = "settling", agentError' = "overflow"
        PROVE  InFlight = {} /\ businessWrite = "none"
    <2>1. CASE RunOverflows
      <3>1. Effect = "none"
        BY <1>3, <2>1 DEF RunOverflows, OverflowAfterEffects, Settles
      <3> QED BY <2>1, <3>1 DEF RunOverflows, Effect
    <2>2. CASE RunAnswers
      BY <1>3, <2>2 DEF RunAnswers, Settles
    <2>3. CASE RunFails
      <3>1. "overflow" \notin ErrorsOfCalls
        BY DEF ErrorsOfCalls
      <3> QED BY <1>3, <2>3, <3>1 DEF RunFails, Settles
    <2>4. CASE RunAgain
      BY <1>3, <2>4 DEF RunAgain, Settles, Throws
    <2> QED BY <2>1, <2>2, <2>3, <2>4
  <1> QED BY <1>1, <1>2, <1>3 DEF OutcomeIsSettled, InFlight

\* A turn that ends as its outcome is settled holds no proposal.
LEMMA EndsEmptyHanded ==
    ASSUME Telling, Settle, status' = "ended"
    PROVE  /\ Held = {}
           /\ thrown' = "overflow" => InFlight = {} /\ businessWrite = "none"
  <1>1. /\ Attempted = {c \in Held : slots[c] = "attempted"}
        /\ Persisted = {c \in Held : slots[c] = "persisted"}
    BY DEF Attempted, Persisted, Held
  <1>2. ~pendingCreated /\ Attempted = {} => Held = {}
    BY <1>1 DEF Telling, Inv, Account, PendingIsCounted
  <1>3. status = "settling" /\ \/ GivesUp /\ thrown' = "abort"
                               \/ FinalError # "none" /\ thrown' = FinalError
    BY DEF Settle, Throws
  <1>4. CASE GivesUp /\ thrown' = "abort"
    <2>1. Attempted = {} /\ ~pendingCreated
      BY <1>4 DEF GivesUp, Effect
    <2> QED BY <1>2, <1>4, <2>1
  <1>5. CASE FinalError # "none" /\ thrown' = FinalError
    <2>1. CASE FinalError = ErrorLeft
      <3>1. Held = {} /\ ErrorLeft = agentError
        BY <1>5, <2>1 DEF ErrorLeft
      <3>2. thrown' = "overflow" => agentError = "overflow"
        BY <1>5, <2>1, <3>1
      <3> QED BY <1>3, <3>1, <3>2 DEF Telling, OutcomeIsSettled
    <2>2. CASE FinalError = "unknown" /\ ~PendingLeft
      BY <1>2, <1>5, <2>2 DEF PendingLeft
    <2> QED BY <1>5, <2>1, <2>2 DEF FinalError
  <1> QED BY <1>3, <1>4, <1>5

LEMMA SettleSettles ==
    ASSUME Telling, Settle
    PROVE  (\A c \in Calls : TellsTruly(c)') /\ OutcomeIsSettled'
  <1>1. /\ promised' = Held /\ shielded' = Shielded /\ businessWrite' = WriteLeft
        /\ UNCHANGED <<calls, slots>> /\ status' \in {"ended", "persisting"}
    BY DEF Settle, Throws
  <1>2. businessWrite # "none" => businessWrite' # "none"
    BY <1>1 DEF WriteLeft
  <1>3. ASSUME ~shielded', NEW c \in Held
        PROVE  calls[c].pc = "ended" /\ slots[c] = "proposal"
    <2>1. c \in Calls /\ slots[c] \in Slots /\ slots[c] # "none" /\ calls[c] \in Call
      BY DEF Held, Telling, Inv, TypeOK
    <2>2. slots[c] \notin {"attempted", "persisted"}
      BY <1>1, <1>3, <2>1 DEF Shielded, Attempted, Persisted
    <2>3. calls[c].pc \in {"idle", "working", "saving", "applying", "ended"}
      BY <2>1 DEF Call
    <2> QED BY <2>1, <2>2, <2>3 DEF Slots, Telling, TellsTruly
  <1>4. OutcomeIsSettled'
    BY <1>1, <1>3 DEF OutcomeIsSettled
  <1> QED BY <1>1, <1>2, <1>4, TurnKeepsTelling DEF Telling

LEMMA TurnStepTelling ==
    ASSUME Telling, TurnStep
    PROVE  (\A c \in Calls : TellsTruly(c)') /\ OutcomeIsSettled'
  <1>1. CASE Settle
    BY <1>1, SettleSettles
  <1>2. CASE RunAnswers \/ RunFails \/ RunOverflows \/ RunAgain
    <2>1. UNCHANGED <<calls, slots, businessWrite>>
      BY <1>2 DEF RunAnswers, RunFails, RunOverflows, RunAgain, account
    <2> QED BY <1>2, <2>1, RunsSettle, TurnKeepsTelling DEF Telling
  <1>3. CASE Admit
    BY <1>3, TurnKeepsTelling DEF Admit, account, outcome, Telling, OutcomeIsSettled
  <1>4. CASE Deny \/ TurnAppended \/ AppendFails \/ Answer
    <2>1. UNCHANGED <<calls, slots, businessWrite>> /\ status' \in {"ended", "answering"}
      BY <1>4 DEF Deny, TurnAppended, AppendFails, Answer, Throws, account
    <2>2. OutcomeIsSettled'
      BY <2>1 DEF OutcomeIsSettled
    <2> QED BY <2>1, <2>2, TurnKeepsTelling DEF Telling
  <1> QED BY <1>1, <1>2, <1>3, <1>4 DEF TurnStep

LEMMA StepTelling == Telling /\ [Next]_vars => Telling'
  <1> SUFFICES ASSUME Telling, [Next]_vars
               PROVE  (\A c \in Calls : TellsTruly(c)') /\ OutcomeIsSettled'
    BY StepInv DEF Telling
  <1>1. CASE \E c \in Calls : CallStep(c)
    BY <1>1, CallStepTelling
  <1>2. CASE TurnStep
    BY <1>2, TurnStepTelling
  <1>3. CASE Abort \/ UNCHANGED vars
    <2>1. UNCHANGED <<status, calls, slots, businessWrite, agentError, promised, shielded>>
      BY <1>3 DEF Abort, account, outcome, vars
    <2>2. OutcomeIsSettled'
      BY <2>1 DEF Telling, OutcomeIsSettled, InFlight
    <2> QED BY <2>1, <2>2, TurnKeepsTelling DEF Telling
  <1> QED BY <1>1, <1>2, <1>3 DEF Next

\* The steps that end a turn, and no other, throw something or show the card.
LEMMA OnlyTheseEnd ==
    ASSUME Telling, [Next]_vars, thrown' # thrown \/ (status' = "ended" /\ status # "ended")
    PROVE  TurnStep /\ status' = "ended"
  <1>1. ASSUME NEW c \in Calls, CallStep(c) PROVE UNCHANGED <<status, thrown>>
    BY <1>1, CallStepTells DEF TellsInTime, Telling, outcome
  <1>2. ASSUME Abort \/ UNCHANGED vars PROVE UNCHANGED <<status, thrown>>
    BY <1>2 DEF Abort, vars, outcome
  <1>3. TurnStep
    BY <1>1, <1>2 DEF Next
  <1>4. ASSUME thrown' # thrown PROVE status' = "ended"
    <2>1. CASE Admit \/ TurnAppended \/ Answer
      BY <1>4, <2>1 DEF Admit, TurnAppended, Answer, outcome
    <2>2. CASE RunAnswers \/ RunFails \/ RunOverflows
      BY <1>4, <2>2 DEF RunAnswers, RunFails, RunOverflows, OverflowAfterEffects, Settles, outcome
    <2>3. CASE RunAgain \/ Deny \/ AppendFails \/ Settle
      BY <1>4, <2>3 DEF RunAgain, Deny, AppendFails, Settle, Settles, Throws, outcome
    <2> QED BY <1>3, <2>1, <2>2, <2>3 DEF TurnStep
  <1> QED BY <1>3, <1>4

-----------------------------------------------------------------------------
(* Theorems                                                                *)

\* The account of a turn is right in every reachable state.
THEOREM InvHolds == Spec => []Inv
  BY InitInv, StepInv, PTL DEF Spec

\* In every turn the variables have their types.
THEOREM TurnTypes == Spec => []TypeOK
  <1>1. Inv => TypeOK
    BY DEF Inv
  <1> QED BY <1>1, InvHolds, PTL

\* However many calls of a turn propose at the same time, they never hold more slots than
\* one card may show (maximumPendingActionsPerTurn).
THEOREM ProposalsFit == Spec => []RoomForAnswers
  <1>1. Inv => RoomForAnswers
    BY DEF Inv, Account
  <1> QED BY <1>1, InvHolds, PTL

\* chatEffect.pendingActionCreated is true exactly when a proposal is held.
THEOREM PendingCounted == Spec => []PendingIsCounted
  <1>1. Inv => PendingIsCounted
    BY DEF Inv, Account
  <1> QED BY <1>1, InvHolds, PTL

\* The model is never run a second time over a write or a proposal that a counted tool of
\* the first run left behind.
THEOREM RetryIsClean == Spec => []RetryFindsNothing
  <1>1. Inv => RetryFindsNothing
    BY DEF Inv, Account
  <1> QED BY <1>1, InvHolds, PTL

\* What the calls told the turn is true of it, and what its outcome promised is kept.
THEOREM TellingHolds == Spec => []Telling
  BY InitTelling, StepTelling, PTL DEF Spec

\* An employee is told to send the message again, or that it took too long, only when the
\* calls of the turn had reported nothing that such a repetition would repeat.
THEOREM AdviceIsSafe == Spec => RetryAdviceIsSafe
  <1> DEFINE Safe == thrown' # thrown =>
        \A c \in Calls :
            /\ thrown' = "overflow" => calls[c].told \notin {"changed", "unknown"}
            /\ thrown' \in {"overflow", "abort"} => calls[c].told \notin {"proposed", "uncertain"}
  <1>1. Telling /\ [Next]_vars => [Safe]_vars
    <2> SUFFICES ASSUME Telling, [Next]_vars, thrown' # thrown,
                        thrown' \in {"overflow", "abort"}
                 PROVE  \A c \in Calls :
                     /\ thrown' = "overflow" => calls[c].told \notin {"changed", "unknown"}
                     /\ calls[c].told \notin {"proposed", "uncertain"}
      OBVIOUS
    <2>1. TurnStep /\ status' = "ended"
      BY OnlyTheseEnd
    <2>2. CASE Settle
      <3>1. Held = {} /\ (thrown' = "overflow" => InFlight = {} /\ businessWrite = "none")
        BY <2>1, <2>2, EndsEmptyHanded
      <3>2. \A c \in Calls : slots[c] = "none"
        BY <3>1 DEF Held
      <3> QED BY <3>1, <3>2 DEF Telling, TellsTruly
    <2>3. CASE Deny
      <3>1. status = "received" /\ thrown' # "overflow"
        BY <2>3 DEF Deny, Throws
      <3>2. \A c \in Calls : calls[c].told = "unsaid"
        BY <3>1 DEF Telling, TellsTruly, OutcomeIsSettled
      <3> QED BY <3>1, <3>2
    <2>4. CASE RunAgain \/ AppendFails
      BY <2>1, <2>4 DEF RunAgain, AppendFails, Throws, Settles
    <2>5. CASE Admit \/ TurnAppended \/ Answer \/ RunAnswers \/ RunFails \/ RunOverflows
      BY <2>5 DEF Admit, TurnAppended, Answer, RunAnswers, RunFails, RunOverflows,
                  OverflowAfterEffects, Settles, outcome
    <2> QED BY <2>1, <2>2, <2>3, <2>4, <2>5 DEF TurnStep
  <1>2. Spec => [][Next]_vars
    BY DEF Spec
  <1>3. Spec => [][Safe]_vars
    BY <1>1, <1>2, TellingHolds, PTL
  <1> QED BY <1>3 DEF RetryAdviceIsSafe

\* A proposal held when the outcome is settled is on the card of the turn in the end, or
\* has been applied since; what a failing history takes away is of ideas and documents.
THEOREM CardsAreShown == Spec => ProposalsAreShown
  <1> DEFINE Shows == status' = "ended" /\ status # "ended" =>
        \/ {c \in promised' : slots[c] # "none"} \subseteq shown'
        \/ status = "persisting" /\ \A c \in promised' : slots[c] \notin {"attempted", "persisted"}
  <1>1. Telling /\ [Next]_vars => [Shows]_vars
    <2> SUFFICES ASSUME Telling, [Next]_vars, status' = "ended", status # "ended"
                 PROVE  \/ {c \in promised' : slots[c] # "none"} \subseteq shown'
                        \/ status = "persisting" /\
                           \A c \in promised' : slots[c] \notin {"attempted", "persisted"}
      OBVIOUS
    <2>1. TurnStep
      BY OnlyTheseEnd
    <2>2. CASE Settle
      <3>1. Held = {} /\ promised' = Held
        BY <2>2, EndsEmptyHanded DEF Settle
      <3> QED BY <3>1
    <2>3. CASE Answer
      <3>1. promised' = promised /\ shown' = Held /\ promised \subseteq Calls
        BY <2>3 DEF Answer, Telling, Inv, TypeOK
      <3> QED BY <3>1 DEF Held
    <2>4. CASE AppendFails
      <3>1. status = "persisting" /\ ~shielded /\ promised' = promised
        BY <2>4 DEF AppendFails
      <3>2. \A c \in promised : slots[c] = "proposal"
        BY <3>1 DEF Telling, OutcomeIsSettled
      <3> QED BY <3>1, <3>2
    <2>5. CASE Deny \/ RunAgain
      <3>1. promised' = promised /\ promised = {}
        BY <2>5 DEF Deny, RunAgain, Settles, Throws, outcome, Telling, OutcomeIsSettled
      <3> QED BY <3>1
    <2>6. CASE Admit \/ TurnAppended \/ RunAnswers \/ RunFails \/ RunOverflows
      BY <2>6 DEF Admit, TurnAppended, RunAnswers, RunFails, RunOverflows,
                  OverflowAfterEffects, Settles
    <2> QED BY <2>1, <2>2, <2>3, <2>4, <2>5, <2>6 DEF TurnStep
  <1>2. Spec => [][Next]_vars
    BY DEF Spec
  <1>3. Spec => [][Shows]_vars
    BY <1>1, <1>2, TellingHolds, PTL
  <1> QED BY <1>3, PTL DEF ProposalsAreShown

=============================================================================
